-------------------------- MODULE ReplicationProofs --------------------------
(***************************************************************************)
(* Proofs about Replication for any set of nodes, any requests and any     *)
(* number of calls, elections and reboots: a node that only follows the    *)
(* log has what the log builds, and serves it once it has caught up.       *)
(***************************************************************************)
EXTENDS Replication, ConfigurationProofs

Command == [id : Nat \ {0}, change : Change]
Call == [node : Node, id : Nat \ {0}, change : Change, at : {"local", "raft"}]
LogEntry == Command \cup {Membership}

Memory ==
    [config : Config, routers : Tables, pending : BOOLEAN, logs : Seq(Nat), hash : Seq(Nat),
     restarts : Nat, lock : {"free", "restarting"}]

-----------------------------------------------------------------------------
(* The changes among the entries of a log *)

\* What an entry adds to the commands before it.
Also(q, e) == IF e = Membership THEN q ELSE Append(q, e)

\* The commands among the first i entries of l; CommittedChanges and CommittedIDs
\* are its two columns for the log.
CommandsOf(l, i) ==
    LET upTo[j \in 0..i] ==
          IF j = 0 THEN <<>>
          ELSE IF l[j] = Membership THEN upTo[j - 1] ELSE Append(upTo[j - 1], l[j])
    IN upTo[i]
ChangesOf(l, i) == [j \in DOMAIN CommandsOf(l, i) |-> CommandsOf(l, i)[j].change]
IDsOf(l, i) == [j \in DOMAIN CommandsOf(l, i) |-> CommandsOf(l, i)[j].id]

LEMMA OfTheLog ==
  ASSUME NEW i
  PROVE  CommittedChanges(i) = ChangesOf(log, i) /\ CommittedIDs(i) = IDsOf(log, i)
  <1>1. Commands(i) = CommandsOf(log, i)
    BY Zenon DEF Commands, CommandsOf
  <1> QED
    BY <1>1, Zenon DEF CommittedChanges, CommittedIDs, ChangesOf, IDsOf

IsCommands(F, l, n) == F = [i \in 0..n |-> IF i = 0 THEN <<>> ELSE Also(F[i - 1], l[i])]

LEMMA CommandsExist ==
  ASSUME NEW l
  PROVE  \A n \in Nat : \E F : IsCommands(F, l, n)
  <1> DEFINE N == {n \in Nat : \E F : IsCommands(F, l, n)}
  <1>1. 0 \in N
    <2>1. IsCommands([i \in 0..0 |-> <<>>], l, 0)
      BY DEF IsCommands
    <2> QED
      BY <2>1
  <1>2. ASSUME NEW n \in Nat, n \in N PROVE n + 1 \in N
    <2>1. PICK F : IsCommands(F, l, n)
      BY <1>2
    <2> DEFINE G == [i \in 0..(n + 1) |-> IF i <= n THEN F[i] ELSE Also(F[n], l[n + 1])]
    <2>2. IsCommands(G, l, n + 1)
      <3>1. \A i \in 0..n : F[i] = IF i = 0 THEN <<>> ELSE Also(F[i - 1], l[i])
        BY <2>1 DEF IsCommands
      <3>2. ASSUME NEW i \in 0..(n + 1) PROVE G[i] = IF i = 0 THEN <<>> ELSE Also(G[i - 1], l[i])
        <4>1. CASE i <= n
          BY <3>1, <4>1
        <4>2. CASE i = n + 1
          BY <4>2
        <4> QED
          BY <4>1, <4>2
      <3> HIDE DEF G
      <3>3. DOMAIN G = 0..(n + 1) /\ G = [i \in 0..(n + 1) |-> G[i]]
        BY DEF G
      <3> QED
        BY <3>2, <3>3 DEF IsCommands
    <2> QED
      BY <2>2
  <1> HIDE DEF N
  <1>3. Nat \subseteq N
    BY <1>1, <1>2, SetInduction
  <1> QED
    BY <1>3 DEF N

\* The recursion of CommandsOf has a solution, and CommandsOf is its last value.
LEMMA CommandsSolved ==
  ASSUME NEW l, NEW n \in Nat
  PROVE  \E F : /\ F[0] = <<>> /\ F[n] = CommandsOf(l, n)
                /\ \A i \in 1..n : F[i] = Also(F[i - 1], l[i])
  <1> DEFINE H == CHOOSE F : F = [i \in 0..n |->
                    IF i = 0 THEN <<>>
                    ELSE IF l[i] = Membership THEN F[i - 1] ELSE Append(F[i - 1], l[i])]
  <1>1. \E F : F = [i \in 0..n |->
                    IF i = 0 THEN <<>>
                    ELSE IF l[i] = Membership THEN F[i - 1] ELSE Append(F[i - 1], l[i])]
    <2>1. PICK F : IsCommands(F, l, n)
      BY CommandsExist
    <2>2. F = [i \in 0..n |->
                    IF i = 0 THEN <<>>
                    ELSE IF l[i] = Membership THEN F[i - 1] ELSE Append(F[i - 1], l[i])]
      BY <2>1, Zenon DEF IsCommands, Also
    <2> QED
      BY <2>2, Zenon
  <1>2. H = [i \in 0..n |->
                    IF i = 0 THEN <<>>
                    ELSE IF l[i] = Membership THEN H[i - 1] ELSE Append(H[i - 1], l[i])]
    BY <1>1, Zenon
  <1>3. CommandsOf(l, n) = H[n]
    BY DEF CommandsOf
  <1> HIDE DEF H
  <1>4. \A i \in 0..n : H[i] = IF i = 0 THEN <<>> ELSE Also(H[i - 1], l[i])
    BY <1>2, Zenon DEF Also
  <1>5. H[0] = <<>> /\ \A i \in 1..n : H[i] = Also(H[i - 1], l[i])
    BY <1>4
  <1> QED
    BY <1>3, <1>5

\* Two such recursions over logs that agree so far agree.
LEMMA CommandsUnique ==
  ASSUME NEW l, NEW n \in Nat, NEW F, NEW G, F[0] = G[0],
         \A i \in 1..n : F[i] = Also(F[i - 1], l[i]),
         \A i \in 1..n : G[i] = Also(G[i - 1], l[i])
  PROVE  F[n] = G[n]
  <1> DEFINE N == {i \in Nat : i <= n => F[i] = G[i]}
  <1>1. 0 \in N
    OBVIOUS
  <1>2. ASSUME NEW i \in Nat, i \in N PROVE i + 1 \in N
    <2> SUFFICES ASSUME i + 1 <= n PROVE F[i + 1] = G[i + 1]
      OBVIOUS
    <2>1. i + 1 \in 1..n /\ F[i] = G[i] /\ (i + 1) - 1 = i
      BY <1>2
    <2> QED
      BY <2>1
  <1> HIDE DEF N
  <1>3. Nat \subseteq N
    BY <1>1, <1>2, SetInduction
  <1> QED
    BY <1>3 DEF N

LEMMA CommandsOfNone == ASSUME NEW l PROVE CommandsOf(l, 0) = <<>>
  BY CommandsSolved

LEMMA CommandsOfNext ==
  ASSUME NEW l, NEW n \in Nat
  PROVE  CommandsOf(l, n + 1) = Also(CommandsOf(l, n), l[n + 1])
  <1>1. PICK F : /\ F[0] = <<>> /\ F[n] = CommandsOf(l, n)
                 /\ \A i \in 1..n : F[i] = Also(F[i - 1], l[i])
    BY CommandsSolved
  <1>2. PICK G : /\ G[0] = <<>> /\ G[n + 1] = CommandsOf(l, n + 1)
                 /\ \A i \in 1..(n + 1) : G[i] = Also(G[i - 1], l[i])
    <2>1. n + 1 \in Nat
      OBVIOUS
    <2> QED
      BY <2>1, CommandsSolved
  <1>3. F[n] = G[n]
    <2>1. F[0] = G[0]
      BY <1>1, <1>2
    <2>2. \A i \in 1..n : F[i] = Also(F[i - 1], l[i])
      BY <1>1
    <2>3. \A i \in 1..n : G[i] = Also(G[i - 1], l[i])
      BY <1>2
    <2> QED
      BY <2>1, <2>2, <2>3, CommandsUnique, SMT
  <1>4. n + 1 \in 1..(n + 1) /\ (n + 1) - 1 = n
    OBVIOUS
  <1>5. G[n + 1] = Also(G[(n + 1) - 1], l[n + 1])
    BY <1>2, <1>4
  <1> QED
    BY <1>1, <1>2, <1>3, <1>4, <1>5

\* The commands up to an entry do not depend on the entries after it.
LEMMA CommandsOfSame ==
  ASSUME NEW l, NEW m, NEW n \in Nat, \A i \in 1..n : l[i] = m[i]
  PROVE  CommandsOf(l, n) = CommandsOf(m, n)
  <1>1. PICK F : /\ F[0] = <<>> /\ F[n] = CommandsOf(l, n)
                 /\ \A i \in 1..n : F[i] = Also(F[i - 1], l[i])
    BY CommandsSolved
  <1>2. PICK G : /\ G[0] = <<>> /\ G[n] = CommandsOf(m, n)
                 /\ \A i \in 1..n : G[i] = Also(G[i - 1], m[i])
    BY CommandsSolved
  <1>3. F[n] = G[n]
    <2>1. F[0] = G[0]
      BY <1>1, <1>2
    <2>2. \A i \in 1..n : F[i] = Also(F[i - 1], l[i])
      BY <1>1
    <2>3. \A i \in 1..n : G[i] = Also(G[i - 1], l[i])
      BY <1>2
    <2> QED
      BY <2>1, <2>2, <2>3, CommandsUnique, SMT
  <1> QED
    BY <1>1, <1>2, <1>3

LEMMA EntryKinds ==
  /\ Membership \in LogEntry /\ Membership \notin Command
  /\ \A e \in LogEntry : e # Membership => e \in Command
  <1>1. Membership.id = 0
    BY DEF Membership
  <1> QED
    BY <1>1 DEF LogEntry, Command

\* The commands are commands, and each is an entry of the log.
LEMMA CommandsOfType ==
  ASSUME NEW l \in Seq(LogEntry)
  PROVE  \A n \in 0..Len(l) :
            /\ CommandsOf(l, n) \in Seq(Command)
            /\ \A j \in 1..Len(CommandsOf(l, n)) : \E i \in 1..n : CommandsOf(l, n)[j] = l[i]
  <1> DEFINE P(n) == /\ CommandsOf(l, n) \in Seq(Command)
                     /\ \A j \in 1..Len(CommandsOf(l, n)) : \E i \in 1..n : CommandsOf(l, n)[j] = l[i]
             N == {n \in Nat : n <= Len(l) => P(n)}
  <1>1. 0 \in N
    <2>1. CommandsOf(l, 0) = <<>>
      BY CommandsOfNone
    <2>a. <<>> \in Seq(Command) /\ Len(<<>>) = 0 /\ 1..0 = {}
      OBVIOUS
    <2>2. P(0)
      BY <2>1, <2>a, Zenon
    <2> QED
      BY <2>2
  <1>2. ASSUME NEW n \in Nat, n \in N PROVE n + 1 \in N
    <2> SUFFICES ASSUME n + 1 <= Len(l) PROVE P(n + 1)
      OBVIOUS
    <2>1. P(n) /\ l[n + 1] \in LogEntry
      BY <1>2
    <2> DEFINE q == CommandsOf(l, n)
               e == l[n + 1]
    <2>2. CommandsOf(l, n + 1) = Also(q, e)
      BY CommandsOfNext
    <2>3. q \in Seq(Command) /\ \A j \in 1..Len(q) : \E i \in 1..n : q[j] = l[i]
      BY <2>1
    <2> HIDE DEF q
    <2>4. CASE e = Membership
      <3>1. CommandsOf(l, n + 1) = q
        BY <2>2, <2>4 DEF Also
      <3>2. ASSUME NEW j \in 1..Len(q) PROVE \E i \in 1..(n + 1) : q[j] = l[i]
        BY <2>3
      <3> QED
        BY <2>3, <3>1, <3>2
    <2>5. CASE e # Membership
      <3>1. CommandsOf(l, n + 1) = Append(q, e) /\ e \in Command
        BY <2>1, <2>2, <2>5, EntryKinds DEF Also
      <3>2. /\ Append(q, e) \in Seq(Command) /\ Len(Append(q, e)) = Len(q) + 1 /\ Len(q) \in Nat
            /\ \A i \in 1..Len(q) : Append(q, e)[i] = q[i]
            /\ Append(q, e)[Len(q) + 1] = e
        BY <2>3, <3>1, AppendProperties
      <3>3. ASSUME NEW j \in 1..(Len(q) + 1) PROVE \E i \in 1..(n + 1) : Append(q, e)[j] = l[i]
        <4>1. CASE j = Len(q) + 1
          <5>1. n + 1 \in 1..(n + 1)
            OBVIOUS
          <5> QED
            BY <3>2, <4>1, <5>1
        <4>2. CASE j # Len(q) + 1
          <5>1. j \in 1..Len(q)
            BY <3>2, <4>2
          <5>2. PICK i \in 1..n : q[j] = l[i]
            BY <2>3, <5>1
          <5>3. i \in 1..(n + 1)
            OBVIOUS
          <5> QED
            BY <3>2, <5>1, <5>2, <5>3
        <4> QED
          BY <4>1, <4>2
      <3> QED
        BY <3>1, <3>2, <3>3
    <2> QED
      BY <2>4, <2>5
  <1> HIDE DEF N
  <1>3. Nat \subseteq N
    BY <1>1, <1>2, SetInduction
  <1> QED
    BY <1>3 DEF N

\* The columns of the commands, and what one more entry adds to them.
LEMMA Columns ==
  ASSUME NEW l \in Seq(LogEntry), NEW n \in 0..Len(l)
  PROVE  /\ ChangesOf(l, n) \in Seq(Change) /\ IDsOf(l, n) \in Seq(Nat)
         /\ \A j \in 1..Len(IDsOf(l, n)) : \E i \in 1..n : l[i] \in Command /\ IDsOf(l, n)[j] = l[i].id
         /\ n + 1 <= Len(l) =>
              /\ l[n + 1] = Membership => /\ ChangesOf(l, n + 1) = ChangesOf(l, n)
                                          /\ IDsOf(l, n + 1) = IDsOf(l, n)
              /\ l[n + 1] # Membership => /\ l[n + 1] \in Command
                                          /\ ChangesOf(l, n + 1) = Append(ChangesOf(l, n), l[n + 1].change)
                                          /\ IDsOf(l, n + 1) = Append(IDsOf(l, n), l[n + 1].id)
  <1> DEFINE q == CommandsOf(l, n)
  <1>1. q \in Seq(Command) /\ \A j \in 1..Len(q) : \E i \in 1..n : q[j] = l[i]
    BY CommandsOfType
  <1>2. CommandsOf(l, n + 1) = Also(q, l[n + 1])
    BY CommandsOfNext
  <1> HIDE DEF q
  <1>q. q \in Seq(ChangeLog)
    <2>1. Command \subseteq ChangeLog
      BY DEF Command, ChangeLog
    <2> QED
      BY <1>1, <2>1
  <1>3. /\ ChangesOf(l, n) = [j \in DOMAIN q |-> q[j].change]
        /\ IDsOf(l, n) = [j \in DOMAIN q |-> q[j].id]
    BY DEF ChangesOf, IDsOf, q
  <1>4. ChangesOf(l, n) \in Seq(Change) /\ IDsOf(l, n) \in Seq(Nat)
    BY <1>3, <1>q, ColumnType, Zenon
  <1>5. \A j \in 1..Len(IDsOf(l, n)) : \E i \in 1..n : l[i] \in Command /\ IDsOf(l, n)[j] = l[i].id
    <2> SUFFICES ASSUME NEW j \in 1..Len(IDsOf(l, n))
                 PROVE  \E i \in 1..n : l[i] \in Command /\ IDsOf(l, n)[j] = l[i].id
      OBVIOUS
    <2>1. j \in 1..Len(q) /\ IDsOf(l, n)[j] = q[j].id /\ q[j] \in Command
      BY <1>1, <1>3
    <2> QED
      BY <1>1, <2>1
  <1>6. ASSUME l[n + 1] = Membership
        PROVE  ChangesOf(l, n + 1) = ChangesOf(l, n) /\ IDsOf(l, n + 1) = IDsOf(l, n)
    <2>1. CommandsOf(l, n + 1) = CommandsOf(l, n)
      BY <1>2, <1>6 DEF Also, q
    <2> QED
      BY <2>1, Zenon DEF ChangesOf, IDsOf
  <1>7. ASSUME n + 1 <= Len(l), l[n + 1] # Membership
        PROVE  /\ l[n + 1] \in Command
               /\ ChangesOf(l, n + 1) = Append(ChangesOf(l, n), l[n + 1].change)
               /\ IDsOf(l, n + 1) = Append(IDsOf(l, n), l[n + 1].id)
    <2>1. l[n + 1] \in Command
      <3>1. n + 1 \in 1..Len(l)
        BY <1>7
      <3>2. l[n + 1] \in LogEntry
        BY <3>1
      <3> QED
        BY <1>7, <3>2, EntryKinds
    <2>2. CommandsOf(l, n + 1) = Append(q, l[n + 1])
      BY <1>2, <1>7 DEF Also
    <2>3. /\ ChangesOf(l, n + 1) = [j \in DOMAIN Append(q, l[n + 1]) |-> Append(q, l[n + 1])[j].change]
          /\ IDsOf(l, n + 1) = [j \in DOMAIN Append(q, l[n + 1]) |-> Append(q, l[n + 1])[j].id]
      BY <2>2, Zenon DEF ChangesOf, IDsOf
    <2>4. /\ [j \in DOMAIN Append(q, l[n + 1]) |-> Append(q, l[n + 1])[j].change]
               = Append([j \in DOMAIN q |-> q[j].change], l[n + 1].change)
          /\ [j \in DOMAIN Append(q, l[n + 1]) |-> Append(q, l[n + 1])[j].id]
               = Append([j \in DOMAIN q |-> q[j].id], l[n + 1].id)
      <3>1. l[n + 1] \in ChangeLog
        BY <2>1 DEF Command, ChangeLog
      <3> QED
        BY <1>q, <3>1, ColumnAppend
    <2>5. ChangesOf(l, n + 1) = Append(ChangesOf(l, n), l[n + 1].change)
      BY <1>3, <2>3, <2>4, Zenon
    <2>6. IDsOf(l, n + 1) = Append(IDsOf(l, n), l[n + 1].id)
      BY <1>3, <2>3, <2>4, Zenon
    <2> QED
      BY <2>1, <2>5, <2>6
  <1> QED
    BY <1>4, <1>5, <1>6, <1>7

LEMMA ColumnsNone ==
  ASSUME NEW l
  PROVE  ChangesOf(l, 0) = <<>> /\ IDsOf(l, 0) = <<>>
  <1>1. CommandsOf(l, 0) = <<>>
    BY CommandsOfNone
  <1> QED
    BY <1>1 DEF ChangesOf, IDsOf

\* An entry added to the log changes no column up to where the log was.
LEMMA ColumnsKept ==
  ASSUME NEW l \in Seq(LogEntry), NEW e \in LogEntry, NEW n \in 0..Len(l)
  PROVE  ChangesOf(Append(l, e), n) = ChangesOf(l, n) /\ IDsOf(Append(l, e), n) = IDsOf(l, n)
  <1>1. \A i \in 1..n : Append(l, e)[i] = l[i]
    BY AppendProperties
  <1>a. n \in Nat
    OBVIOUS
  <1>2. CommandsOf(Append(l, e), n) = CommandsOf(l, n)
    BY <1>1, <1>a, CommandsOfSame, Zenon
  <1> QED
    BY <1>2, Zenon DEF ChangesOf, IDsOf

-----------------------------------------------------------------------------
(* A change on the memory of a node *)

LEMMA NewMemoryType ==
  /\ NewMemory \in Memory
  /\ NewMemory.config = InitConfig /\ NewMemory.logs = <<>> /\ NewMemory.hash = <<>>
  /\ NewMemory.restarts = 0 /\ NewMemory.lock = "free" /\ NewMemory.pending = FALSE
  /\ Current(InitConfig, NewMemory.routers)
  <1>1. NewMemory.routers \in Tables /\ InitConfig \in Config
    BY InitConfigType DEF NewMemory, Tables, NoRoutes
  <1>2. Current(InitConfig, NewMemory.routers)
    BY DEF Current, NewMemory, InitConfig, RoutesOf, NoRoutes
  <1>3. FALSE \in BOOLEAN
    OBVIOUS
  <1>4. NewMemory \in Memory
    BY <1>1, <1>3 DEF NewMemory, Memory
  <1> QED
    BY <1>2, <1>4 DEF NewMemory

\* What a reload, or going without it, makes of memory m in m2.
AfterReload(m, S, c, reload, m2) ==
    /\ m2 \in Memory /\ m2.config = S
    /\ m2.logs = m.logs /\ m2.hash = m.hash /\ m2.restarts = m.restarts /\ m2.lock = m.lock
    /\ ~reload => m2.pending = TRUE /\ m2.routers = m.routers
    /\ (reload /\ ~m.pending /\ ~IsRelatedToRoutes(c)) => m2.pending = FALSE /\ m2.routers = m.routers
    /\ (reload /\ (m.pending \/ IsRelatedToRoutes(c))) =>
          /\ m2.routers = SetupRoutes(S, m.routers, c.ns, m.pending)
          /\ m2.pending = (m.pending /\ SetupRoutesFails(S, c.ns, m.pending))

LEMMA ReloadedFields ==
  ASSUME NEW m \in Memory, NEW S \in Config, NEW c, NEW reload,
         NEW m2, m2 = Reloaded(m, S, c, reload)
  PROVE  AfterReload(m, S, c, reload, m2)
  <1> USE DEF AfterReload
  <1> DEFINE R == SetupRoutes(S, m.routers, c.ns, m.pending)
             f == m.pending /\ SetupRoutesFails(S, c.ns, m.pending)
  <1>0. TRUE \in BOOLEAN /\ f \in BOOLEAN /\ m.pending \in BOOLEAN /\ R \in Tables
    BY SetupRoutesType DEF Memory
  <1>1. CASE ~reload
    <2>1. m2 = [m EXCEPT !.config = S, !.pending = TRUE]
      BY <1>1 DEF Reloaded
    <2>2. m2 \in Memory
      BY <1>0, <2>1 DEF Memory
    <2> QED
      BY <1>1, <2>1, <2>2 DEF Memory
  <1>2. CASE reload /\ ~m.pending /\ ~IsRelatedToRoutes(c)
    <2>1. m2 = [m EXCEPT !.config = S]
      BY <1>2 DEF Reloaded
    <2>2. m2 \in Memory
      BY <2>1 DEF Memory
    <2>3. m2.pending = m.pending
      BY <2>1 DEF Memory
    <2>4. m2.pending = FALSE
      BY <1>0, <1>2, <2>3, Zenon
    <2> QED
      BY <1>2, <2>1, <2>2, <2>4 DEF Memory
  <1>3. CASE reload /\ (m.pending \/ IsRelatedToRoutes(c))
    <2>1. m2 = [m EXCEPT !.config = S, !.routers = SetupRoutes(S, @, c.ns, m.pending),
                         !.pending = m.pending /\ SetupRoutesFails(S, c.ns, m.pending)]
      BY <1>3 DEF Reloaded
    <2> HIDE DEF R, f
    <2>2. m2 = [m EXCEPT !.config = S, !.routers = R, !.pending = f]
      BY <2>1 DEF R, f
    <2>3. m2 \in Memory /\ m2.config = S /\ m2.routers = R /\ m2.pending = f
          /\ m2.logs = m.logs /\ m2.hash = m.hash /\ m2.restarts = m.restarts /\ m2.lock = m.lock
      BY <1>0, <2>2 DEF Memory
    <2> QED
      BY <1>3, <2>3 DEF R, f
  <1> HIDE DEF AfterReload
  <1> QED
    BY <1>1, <1>2, <1>3

\* What recording id makes of memory m in m2.
AfterRecord(m, id, store, m2) ==
    /\ m2 \in Memory
    /\ m2.config = m.config /\ m2.routers = m.routers /\ m2.pending = m.pending
    /\ m2.restarts = m.restarts /\ m2.lock = m.lock
    /\ m2.hash = Append(m.hash, id)
    /\ (store /\ ~(m.logs # <<>> /\ m.logs[Len(m.logs)] = id)) => m2.logs = Append(m.logs, id)

LEMMA RecordedFields ==
  ASSUME NEW m \in Memory, NEW id \in Nat, NEW store, NEW m2, m2 = Recorded(m, id, store)
  PROVE  AfterRecord(m, id, store, m2)
  <1> DEFINE L == IF store /\ ~(m.logs # <<>> /\ m.logs[Len(m.logs)] = id)
                  THEN Append(m.logs, id) ELSE m.logs
             H == Append(m.hash, id)
  <1>1. L \in Seq(Nat) /\ H \in Seq(Nat)
    BY DEF Memory
  <1>2. m2 = [m EXCEPT !.hash = H, !.logs = L]
    BY DEF Recorded, Memory
  <1> HIDE DEF L, H
  <1>3. /\ m2 \in Memory /\ m2.hash = H /\ m2.logs = L
        /\ m2.config = m.config /\ m2.routers = m.routers /\ m2.pending = m.pending
        /\ m2.restarts = m.restarts /\ m2.lock = m.lock
    BY <1>1, <1>2 DEF Memory
  <1> QED
    BY <1>3 DEF L, H, AfterRecord

LEMMA RestartsType ==
  ASSUME NEW m \in Memory, NEW r \in Nat
  PROVE  [m EXCEPT !.restarts = r] \in Memory /\ [m EXCEPT !.restarts = r].config = m.config
  BY DEF Memory

\* Whatever becomes of it, a change is applied to the configuration as a replay
\* applies it.
AppliedTo(m, l, p) == p \in Memory /\ p.config = ApplyChange(m.config, l.change)

LEMMA ProcessedConfig ==
  ASSUME NEW m \in Memory, NEW l \in Command \cup Call, NEW reload, NEW store
  PROVE  AppliedTo(m, l, processChangeLog(m, l, reload, store))
  <1>p. PICK p : p = processChangeLog(m, l, reload, store)
    OBVIOUS
  <1> SUFFICES p \in Memory /\ p.config = ApplyChange(m.config, l.change)
    BY <1>p, Zenon DEF AppliedTo
  <1>l. l.id \in Nat /\ l.change \in Change
    BY DEF Command, Call
  <1>s. PICK S : S = Changed(m.config, l.change)
    OBVIOUS
  <1>m. PICK m2 : m2 = Reloaded(m, S, l.change, reload)
    OBVIOUS
  <1>0. m.config \in Config /\ m.restarts \in Nat /\ m.restarts + 1 \in Nat
    BY DEF Memory
  <1>1. S \in Config
    BY <1>l, <1>s, <1>0, ChangedRoutes
  <1>2. AfterReload(m, S, l.change, reload, m2)
    BY <1>m, <1>1, ReloadedFields
  <1>a. m2 \in Memory /\ m2.config = S /\ m2.restarts + 2 \in Nat
    BY <1>0, <1>2 DEF AfterReload
  <1>3. CASE Outcome(m.config, l.change) # "ok"
    <2>1. p = [m EXCEPT !.restarts = m.restarts + 1]
      BY <1>p, <1>3 DEF processChangeLog
    <2>2. p \in Memory /\ p.config = m.config
      BY <1>0, <2>1, RestartsType
    <2> QED
      BY <1>3, <2>2 DEF ApplyChange
  <1>4. CASE Outcome(m.config, l.change) = "ok" /\ Accepted(m, l.change, reload)
    <2>1. p = Recorded(m2, l.id, store)
      BY <1>p, <1>4, <1>s, <1>m DEF processChangeLog
    <2>2. AfterRecord(m2, l.id, store, p)
      BY <1>l, <1>a, <2>1, RecordedFields
    <2> QED
      BY <1>s, <1>a, <1>4, <2>2 DEF ApplyChange, AfterRecord
  <1>5. CASE Outcome(m.config, l.change) = "ok" /\ ~Accepted(m, l.change, reload)
    <2>1. p = [m2 EXCEPT !.restarts = m2.restarts + 2]
      BY <1>p, <1>5, <1>s, <1>m DEF processChangeLog
    <2>2. p \in Memory /\ p.config = S
      BY <1>a, <2>1, RestartsType
    <2> QED
      BY <1>s, <1>5, <2>2 DEF ApplyChange
  <1> QED
    BY <1>3, <1>4, <1>5

RecordedIn(m, l, reload, p) ==
    /\ NoneRefused(p.config) /\ p.restarts = m.restarts /\ p.lock = m.lock
    /\ p.hash = Append(m.hash, l.id)
    /\ ~(m.logs # <<>> /\ m.logs[Len(m.logs)] = l.id) => p.logs = Append(m.logs, l.id)
    /\ p.pending = ~reload
    /\ reload /\ (m.pending \/ Current(m.config, m.routers)) => Current(p.config, p.routers)

\* A change that the manager accepts, on a configuration without a refused route
\* and asking for none, is recorded; without a reload it waits for one, and with
\* one the tables are current.
LEMMA ProcessedGood ==
  ASSUME NEW m \in Memory, NEW l \in Command \cup Call, NEW reload \in BOOLEAN,
         Outcome(m.config, l.change) = "ok", NoneRefused(m.config), ~AsksRefused(l.change)
  PROVE  RecordedIn(m, l, reload, processChangeLog(m, l, reload, TRUE))
  <1>p. PICK p : p = processChangeLog(m, l, reload, TRUE)
    OBVIOUS
  <1>l. l.id \in Nat /\ l.change \in Change
    BY DEF Command, Call
  <1>c. PICK c : c = l.change
    OBVIOUS
  <1>s. PICK S : S = Changed(m.config, c)
    OBVIOUS
  <1>m. PICK m2 : m2 = Reloaded(m, S, c, reload)
    OBVIOUS
  <1>0. m.config \in Config /\ m.pending \in BOOLEAN
    BY DEF Memory
  <1>1. S \in Config /\ NoneRefused(S)
    BY <1>l, <1>c, <1>s, <1>0, ChangedRoutes, ChangedNoneRefused
  <1>2. ~SetupRoutesFails(S, c.ns, m.pending) /\ c.ns \in Namespace
    BY <1>l, <1>c, <1>1, NoneRefusedReloads, ChangeFields
  <1>3. Accepted(m, c, reload)
    BY <1>c, <1>s, <1>2 DEF Accepted
  <1>4. p = Recorded(m2, l.id, TRUE)
    BY <1>p, <1>c, <1>s, <1>m, <1>3 DEF processChangeLog
  <1>r. AfterReload(m, S, c, reload, m2)
    BY <1>m, <1>1, ReloadedFields
  <1>5. /\ m2 \in Memory /\ m2.config = S
        /\ m2.logs = m.logs /\ m2.hash = m.hash /\ m2.restarts = m.restarts /\ m2.lock = m.lock
        /\ ~reload => m2.pending = TRUE /\ m2.routers = m.routers
        /\ (reload /\ ~m.pending /\ ~IsRelatedToRoutes(c)) => m2.pending = FALSE /\ m2.routers = m.routers
        /\ (reload /\ (m.pending \/ IsRelatedToRoutes(c))) =>
               /\ m2.routers = SetupRoutes(S, m.routers, c.ns, m.pending)
               /\ m2.pending = (m.pending /\ SetupRoutesFails(S, c.ns, m.pending))
    BY <1>r DEF AfterReload
  <1>k. AfterRecord(m2, l.id, TRUE, p)
    BY <1>l, <1>4, <1>5, RecordedFields
  <1>6. /\ p.config = S /\ p.routers = m2.routers /\ p.pending = m2.pending
        /\ p.restarts = m.restarts /\ p.lock = m.lock /\ p.hash = Append(m.hash, l.id)
        /\ ~(m.logs # <<>> /\ m.logs[Len(m.logs)] = l.id) => p.logs = Append(m.logs, l.id)
    BY <1>k, <1>5 DEF AfterRecord
  <1>7. p.pending = ~reload
    <2>1. CASE ~reload
      BY <1>5, <1>6, <2>1
    <2>2. CASE reload /\ ~m.pending /\ ~IsRelatedToRoutes(c)
      BY <1>5, <1>6, <2>2
    <2>3. CASE reload /\ (m.pending \/ IsRelatedToRoutes(c))
      BY <1>2, <1>5, <1>6, <2>3
    <2> QED
      BY <2>1, <2>2, <2>3
  <1>8. ASSUME reload, m.pending \/ Current(m.config, m.routers) PROVE Current(S, p.routers)
    <2>1. CASE m.pending
      <3>1. m.pending = TRUE
        BY <1>0, <2>1, Zenon
      <3>2. p.routers = SetupRoutes(S, m.routers, c.ns, TRUE) /\ ~SetupRoutesFails(S, c.ns, TRUE)
        BY <1>2, <1>5, <1>6, <1>8, <2>1, <3>1
      <3> QED
        BY <3>2, ReloadAll
    <2>2. CASE ~m.pending /\ IsRelatedToRoutes(c)
      <3>1. m.pending = FALSE /\ Current(m.config, m.routers)
        BY <1>0, <1>8, <2>2, Zenon
      <3>2. p.routers = SetupRoutes(S, m.routers, c.ns, FALSE) /\ ~SetupRoutesFails(S, c.ns, FALSE)
        BY <1>2, <1>5, <1>6, <1>8, <2>2, <3>1
      <3> QED
        BY <1>0, <3>1, <3>2, ReloadOne, <1>l, <1>c, <1>s
    <2>3. CASE ~m.pending /\ ~IsRelatedToRoutes(c)
      <3>1. p.routers = m.routers /\ Current(m.config, m.routers)
        BY <1>5, <1>6, <1>8, <2>3
      <3> QED
        BY <1>0, <2>3, <3>1, ReloadNone, <1>l, <1>c, <1>s
    <2> QED
      BY <2>1, <2>2, <2>3
  <1>9. RecordedIn(m, l, reload, p)
    BY <1>1, <1>6, <1>7, <1>8 DEF RecordedIn
  <1> QED
    BY <1>p, <1>9, Zenon

-----------------------------------------------------------------------------
(* A memory that follows a log *)

\* Changes that are all accepted, and none of which the router refuses.
Clean(cs) == Replayable(cs) /\ \A c \in Range(cs) : ~AsksRefused(c)

\* Memory m is what the first a entries of log l make of a new one: always in its
\* configuration, and if they are clean also in its IDs, its hash and, but for a
\* reload that an entry still to come or a membership entry owes, its tables.
Follows(l, a, m) ==
    /\ m.config = Replay(ChangesOf(l, a))
    /\ Clean(ChangesOf(l, a)) =>
         /\ m.logs = IDsOf(l, a) /\ m.hash = m.logs
         /\ m.restarts = 0 /\ m.lock = "free"
         /\ NoneRefused(m.config)
         /\ ~m.pending => Current(m.config, m.routers)
         /\ m.pending => (a < Len(l) \/ l[a] = Membership)

LEMMA RangeAppend ==
  ASSUME NEW cs \in Seq(Change), NEW c \in Change
  PROVE  Range(Append(cs, c)) = Range(cs) \cup {c}
  <1>1. /\ DOMAIN Append(cs, c) = 1..(Len(cs) + 1) /\ DOMAIN cs = 1..Len(cs) /\ Len(cs) \in Nat
        /\ Append(cs, c)[Len(cs) + 1] = c /\ \A i \in 1..Len(cs) : Append(cs, c)[i] = cs[i]
    BY AppendProperties
  <1> QED
    BY <1>1 DEF Range

LEMMA CleanAppend ==
  ASSUME NEW cs \in Seq(Change), NEW c \in Change
  PROVE  Clean(Append(cs, c)) <=> (Clean(cs) /\ Outcome(Replay(cs), c) = "ok" /\ ~AsksRefused(c))
  <1>1. Replayable(Append(cs, c)) <=> Replayable(cs) /\ Outcome(Replay(cs), c) = "ok"
    BY ReplayAppend
  <1>2. Range(Append(cs, c)) = Range(cs) \cup {c}
    BY RangeAppend
  <1> QED
    BY <1>1, <1>2, Zenon DEF Clean

LEMMA FollowsNew ==
  ASSUME NEW l
  PROVE  Follows(l, 0, NewMemory)
  <1>1. NewMemory.config = Replay(ChangesOf(l, 0)) /\ NewMemory.logs = IDsOf(l, 0)
    BY ColumnsNone, NewMemoryType, ReplayEmpty
  <1>2. NoneRefused(NewMemory.config) /\ Current(NewMemory.config, NewMemory.routers)
    BY NewMemoryType, InitConfigType
  <1> QED
    BY <1>1, <1>2, NewMemoryType DEF Follows

\* An entry at the end of the log leaves what a memory follows as it is.
LEMMA FollowsLonger ==
  ASSUME NEW l \in Seq(LogEntry), NEW e \in LogEntry, NEW a \in 0..Len(l), NEW m, Follows(l, a, m)
  PROVE  Follows(Append(l, e), a, m)
  <1>1. ChangesOf(Append(l, e), a) = ChangesOf(l, a) /\ IDsOf(Append(l, e), a) = IDsOf(l, a)
    BY ColumnsKept
  <1>2. a < Len(Append(l, e))
    BY AppendProperties
  <1> QED
    BY <1>1, <1>2 DEF Follows

\* A membership entry is passed over.
LEMMA FollowsMembership ==
  ASSUME NEW l \in Seq(LogEntry), NEW a \in Nat, a < Len(l), NEW m, Follows(l, a, m),
         l[a + 1] = Membership
  PROVE  Follows(l, a + 1, m)
  <1>1. ChangesOf(l, a + 1) = ChangesOf(l, a) /\ IDsOf(l, a + 1) = IDsOf(l, a)
    <2>1. a \in 0..Len(l) /\ a + 1 <= Len(l)
      OBVIOUS
    <2> QED
      BY <2>1, Columns
  <1> QED
    BY <1>1 DEF Follows

\* A command is applied, with a reload if it is the last of the log.
LEMMA FollowsCommand ==
  ASSUME NEW l \in Seq(LogEntry), NEW a \in Nat, a < Len(l), NEW m \in Memory, Follows(l, a, m),
         l[a + 1] # Membership, NEW reload \in BOOLEAN, a + 1 = Len(l) => reload,
         \A i \in 1..a : l[i].id # l[a + 1].id,
         NEW p, p = processChangeLog(m, l[a + 1], reload, TRUE)
  PROVE  p \in Memory /\ Follows(l, a + 1, p)
  <1>c. PICK cs : cs = ChangesOf(l, a)
    OBVIOUS
  <1>e. PICK e : e = l[a + 1]
    OBVIOUS
  <1>0. a \in 0..Len(l) /\ a + 1 <= Len(l) /\ a + 1 \in 1..Len(l)
    OBVIOUS
  <1>1. e \in Command /\ e.id \in Nat /\ e.change \in Change
    <2>1. e \in LogEntry
      BY <1>0, <1>e
    <2>2. e \in Command
      BY <1>e, <2>1, EntryKinds
    <2> QED
      BY <2>2 DEF Command
  <1>2. /\ cs \in Seq(Change)
        /\ ChangesOf(l, a + 1) = Append(cs, e.change)
        /\ IDsOf(l, a + 1) = Append(IDsOf(l, a), e.id)
        /\ IDsOf(l, a) \in Seq(Nat)
        /\ \A j \in 1..Len(IDsOf(l, a)) : \E i \in 1..a : IDsOf(l, a)[j] = l[i].id
    BY <1>0, <1>c, <1>e, Columns
  <1>3. p = processChangeLog(m, e, reload, TRUE)
    BY <1>e
  <1>4. p \in Memory /\ p.config = ApplyChange(m.config, e.change)
    <2>1. AppliedTo(m, e, processChangeLog(m, e, reload, TRUE))
      BY <1>1, ProcessedConfig, Zenon
    <2> QED
      BY <1>3, <2>1, Zenon DEF AppliedTo
  <1>5. m.config = Replay(cs)
    BY <1>c DEF Follows
  <1>6. p.config = Replay(Append(cs, e.change))
    BY <1>1, <1>2, <1>4, <1>5, ReplayAppend
  <1>7. ASSUME Clean(Append(cs, e.change))
        PROVE  /\ p.logs = IDsOf(l, a + 1) /\ p.hash = p.logs
               /\ p.restarts = 0 /\ p.lock = "free" /\ NoneRefused(p.config)
               /\ ~p.pending => Current(p.config, p.routers)
               /\ p.pending => (a + 1 < Len(l) \/ l[a + 1] = Membership)
    <2>1. Clean(cs) /\ Outcome(Replay(cs), e.change) = "ok" /\ ~AsksRefused(e.change)
      BY <1>1, <1>2, <1>7, CleanAppend
    <2>2. /\ m.logs = IDsOf(l, a) /\ m.hash = m.logs /\ m.restarts = 0 /\ m.lock = "free"
          /\ NoneRefused(m.config)
          /\ ~m.pending => Current(m.config, m.routers)
      BY <1>c, <2>1 DEF Follows
    <2>3. /\ NoneRefused(p.config) /\ p.restarts = m.restarts /\ p.lock = m.lock
          /\ p.hash = Append(m.hash, e.id)
          /\ ~(m.logs # <<>> /\ m.logs[Len(m.logs)] = e.id) => p.logs = Append(m.logs, e.id)
          /\ p.pending = ~reload
          /\ reload /\ (m.pending \/ Current(m.config, m.routers)) => Current(p.config, p.routers)
      <3>1. Outcome(m.config, e.change) = "ok"
        BY <1>5, <2>1
      <3>2. RecordedIn(m, e, reload, p)
        <4>0. e \in Command \cup Call /\ NoneRefused(m.config) /\ ~AsksRefused(e.change)
          BY <1>1, <2>1, <2>2
        <4>1. RecordedIn(m, e, reload, processChangeLog(m, e, reload, TRUE))
          BY <3>1, <4>0, ProcessedGood, Zenon
        <4> QED
          BY <1>3, <4>1, Zenon
      <3> QED
        BY <3>2, Zenon DEF RecordedIn
    <2>4. ~(m.logs # <<>> /\ m.logs[Len(m.logs)] = e.id)
      <3>1. ASSUME m.logs # <<>> PROVE m.logs[Len(m.logs)] # e.id
        <4>1. Len(m.logs) \in 1..Len(IDsOf(l, a))
          BY <1>2, <2>2, <3>1, EmptySeq
        <4>2. PICK i \in 1..a : IDsOf(l, a)[Len(m.logs)] = l[i].id
          BY <1>2, <4>1
        <4> QED
          BY <1>e, <2>2, <4>2
      <3> QED
        BY <3>1
    <2>5. p.logs = IDsOf(l, a + 1) /\ p.hash = p.logs
      BY <1>2, <2>2, <2>3, <2>4, ZenonT(60)
    <2>6. ~p.pending => Current(p.config, p.routers)
      <3>1. ~p.pending => reload
        BY <2>3, Zenon
      <3>2. ~m.pending => Current(m.config, m.routers)
        BY <2>2
      <3>3. reload /\ (m.pending \/ Current(m.config, m.routers)) => Current(p.config, p.routers)
        BY <2>3
      <3> QED
        BY <3>1, <3>2, <3>3, Zenon
    <2>7. ASSUME p.pending PROVE a + 1 < Len(l)
      <3>1. ~(a + 1 = Len(l))
        BY <2>3, <2>7, Zenon
      <3> QED
        BY <1>0, <3>1
    <2> QED
      BY <2>2, <2>3, <2>5, <2>6, <2>7
  <1> QED
    BY <1>2, <1>4, <1>6, <1>7, Zenon DEF Follows

TypeOK ==
    /\ members \subseteq Node /\ leader \in Node
    /\ log \in Seq(LogEntry)
    /\ calls \subseteq Call
    /\ mem \in [Node -> Memory]
    /\ applied \in [Node -> Nat] /\ batch \in [Node -> Nat] /\ saved \in [Node -> Nat]
    /\ clock \in Nat /\ led \subseteq Node

\* No node is ahead of the log.
WithinLog ==
    \A n \in Node : applied[n] <= Len(log) /\ batch[n] <= Len(log) /\ saved[n] <= Len(log)

\* An ID belongs to one call or to one entry.
IdsOnce ==
    /\ \A k \in calls : k.id <= clock
    /\ \A k1, k2 \in calls : k1.id = k2.id => k1 = k2
    /\ \A i \in 1..Len(log) : log[i].id <= clock
    /\ \A i \in 1..Len(log) : \A k \in calls : log[i].id # k.id
    /\ \A i, j \in 1..Len(log) : (log[i] # Membership /\ log[i].id = log[j].id) => i = j

FollowersFollow == \A n \in Node \ led : Follows(log, applied[n], mem[n])

IInv == TypeOK /\ WithinLog /\ IdsOnce /\ FollowersFollow

-----------------------------------------------------------------------------
(* The invariant *)

LEMMA InitIInv == Init => IInv
  <1> SUFFICES ASSUME Init PROVE IInv
    OBVIOUS
  <1>1. TypeOK
    <2>1. log \in Seq(LogEntry)
      BY EntryKinds DEF Init
    <2> QED
      BY <2>1, NewMemoryType, ReplicationAssumption DEF Init, TypeOK
  <1>2. WithinLog
    BY DEF Init, WithinLog
  <1>3. IdsOnce
    <2>1. Membership.id = 0
      BY DEF Membership
    <2>2. Len(log) = 1 /\ log[1] = Membership /\ calls = {} /\ clock = 0
      BY DEF Init
    <2> QED
      BY <2>1, <2>2 DEF IdsOnce
  <1>4. FollowersFollow
    <2> SUFFICES ASSUME NEW n \in Node PROVE Follows(log, applied[n], mem[n])
      BY DEF FollowersFollow
    <2>1. applied[n] = 0 /\ mem[n] = NewMemory
      BY DEF Init
    <2> QED
      BY <2>1, FollowsNew
  <1> QED
    BY <1>1, <1>2, <1>3, <1>4 DEF IInv

\* What stays with the memories, the positions and the log.
LEMMA FollowersSame ==
  ASSUME FollowersFollow, mem' = mem, applied' = applied, log' = log, led' = led
  PROVE  FollowersFollow'
  BY DEF FollowersFollow

\* An entry at the end of the log.
LEMMA LongerLog ==
  ASSUME TypeOK, WithinLog, FollowersFollow, NEW e \in LogEntry, log' = Append(log, e),
         UNCHANGED <<mem, fsmVars, led>>
  PROVE  log' \in Seq(LogEntry) /\ WithinLog' /\ FollowersFollow'
  <1>0. log \in Seq(LogEntry) /\ log' \in Seq(LogEntry) /\ Len(log') = Len(log) + 1 /\ Len(log) \in Nat
    BY AppendProperties DEF TypeOK
  <1>1. WithinLog'
    BY <1>0 DEF WithinLog, TypeOK, fsmVars
  <1>2. FollowersFollow'
    <2> SUFFICES ASSUME NEW n \in Node \ led PROVE Follows(log', applied[n], mem[n])
      BY DEF FollowersFollow, fsmVars
    <2>1. applied[n] \in 0..Len(log) /\ Follows(log, applied[n], mem[n])
      BY <1>0 DEF TypeOK, WithinLog, FollowersFollow
    <2> QED
      BY <1>0, <2>1, FollowsLonger
  <1> QED
    BY <1>0, <1>1, <1>2

\* Entries have IDs, and only a membership entry has none of a call.
LEMMA EntryIds ==
  ASSUME TypeOK
  PROVE  /\ \A i \in 1..Len(log) : log[i].id \in Nat
         /\ \A i \in 1..Len(log) : log[i] # Membership => log[i].id # 0
         /\ \A k \in calls : k.id \in Nat /\ k.id # 0
  <1>1. \A i \in 1..Len(log) : log[i] \in LogEntry
    BY DEF TypeOK
  <1>2. \A e \in LogEntry : e.id \in Nat /\ (e # Membership => e.id # 0)
    <2>1. Membership.id = 0
      BY DEF Membership
    <2>2. \A e \in Command : e.id \in Nat /\ e.id # 0
      BY DEF Command
    <2> QED
      BY <2>1, <2>2 DEF LogEntry
  <1>3. \A k \in calls : k.id \in Nat /\ k.id # 0
    BY DEF TypeOK, Call
  <1> QED
    BY <1>1, <1>2, <1>3

LEMMA StepNewCall ==
  ASSUME IInv, NEW c \in Request, NewCall(c)
  PROVE  IInv'
  <1> USE DEF IInv, NewCall, raftVars, fsmVars
  <1>1. c \in Change
    BY ReplicationAssumption
  <1> DEFINE k == [node |-> leader, id |-> clock + 1, change |-> c, at |-> "local"]
  <1>2. k \in Call /\ k.id = clock + 1 /\ clock + 1 \in Nat
    BY <1>1 DEF Call, TypeOK
  <1>3. calls' = calls \cup {k} /\ clock' = clock + 1
    OBVIOUS
  <1> HIDE DEF k
  <1>4. TypeOK'
    BY <1>2, <1>3 DEF TypeOK
  <1>5. WithinLog'
    BY DEF WithinLog
  <1>6. IdsOnce'
    <2>0. /\ \A j \in calls : j.id \in Nat /\ j.id <= clock
          /\ \A i \in 1..Len(log) : log[i].id \in Nat /\ log[i].id <= clock
          /\ clock \in Nat
      BY EntryIds DEF TypeOK, IdsOnce
    <2>1. \A j \in calls' : j.id <= clock'
      BY <1>2, <1>3, <2>0
    <2>2. \A k1, k2 \in calls' : k1.id = k2.id => k1 = k2
      BY <1>2, <1>3, <2>0 DEF IdsOnce
    <2>3. \A i \in 1..Len(log) : log[i].id <= clock'
      BY <1>3, <2>0
    <2>4. \A i \in 1..Len(log) : \A j \in calls' : log[i].id # j.id
      BY <1>2, <1>3, <2>0 DEF IdsOnce
    <2> QED
      BY <2>1, <2>2, <2>3, <2>4 DEF IdsOnce
  <1>7. FollowersFollow'
    BY FollowersSame
  <1> QED
    BY <1>4, <1>5, <1>6, <1>7

\* The calls may shrink, and one may move from the state to raft.
LEMMA CallsMove ==
  ASSUME TypeOK, IdsOnce, UNCHANGED <<log, clock>>, NEW k \in calls,
         calls' \subseteq calls \/ calls' = (calls \ {k}) \cup {[k EXCEPT !.at = "raft"]}
  PROVE  calls' \subseteq Call /\ IdsOnce'
  <1> DEFINE r == [k EXCEPT !.at = "raft"]
  <1>1. r \in Call /\ r.id = k.id
    BY DEF TypeOK, Call
  <1> HIDE DEF r
  <1>2. calls' \subseteq calls \/ calls' = (calls \ {k}) \cup {r}
    BY DEF r
  <1>3. calls' \subseteq Call
    BY <1>1, <1>2 DEF TypeOK
  <1>4. \A j \in calls' : \E i \in calls : j.id = i.id
    BY <1>1, <1>2
  <1>5. \A k1, k2 \in calls' : k1.id = k2.id => k1 = k2
    BY <1>1, <1>2 DEF IdsOnce
  <1> QED
    BY <1>3, <1>4, <1>5 DEF IdsOnce

LEMMA StepApplyLocally ==
  ASSUME IInv, NEW k \in calls, ApplyLocally(k)
  PROVE  IInv'
  <1> USE DEF IInv
  <1>0. /\ k \in Call /\ k.node \in Node /\ mem \in [Node -> Memory] /\ mem[k.node] \in Memory
        /\ UNCHANGED <<log, clock, members, leader, applied, batch, saved>>
    BY DEF ApplyLocally, raftVars, fsmVars, TypeOK, Call
  <1>1. PICK p : p = processChangeLog(mem[k.node], k, TRUE, FALSE)
    OBVIOUS
  <1>2. mem' = [mem EXCEPT ![k.node] = p]
    BY <1>1 DEF ApplyLocally
  <1>3. p \in Memory
    <2>1. AppliedTo(mem[k.node], k, processChangeLog(mem[k.node], k, TRUE, FALSE))
      <3>1. k \in Command \cup Call
        BY <1>0
      <3> QED
        BY <1>0, <3>1, ProcessedConfig, Zenon
    <2> QED
      BY <1>1, <2>1, Zenon DEF AppliedTo
  <1>4. calls' \subseteq Call /\ IdsOnce'
    <2>1. calls' \subseteq calls \/ calls' = (calls \ {k}) \cup {[k EXCEPT !.at = "raft"]}
      BY DEF ApplyLocally
    <2> QED
      BY <1>0, <2>1, CallsMove
  <1>5. TypeOK'
    <2>1. led' \subseteq Node
      BY <1>0 DEF ApplyLocally, TypeOK
    <2> QED
      BY <1>0, <1>2, <1>3, <1>4, <2>1 DEF TypeOK
  <1>6. WithinLog'
    BY <1>0 DEF WithinLog
  <1>7. FollowersFollow'
    <2> SUFFICES ASSUME NEW n \in Node \ led' PROVE Follows(log, applied[n], mem'[n])
      BY <1>0 DEF FollowersFollow
    <2>1. n # k.node /\ n \in Node \ led
      BY DEF ApplyLocally
    <2>2. mem'[n] = mem[n]
      BY <1>0, <1>2, <2>1
    <2> QED
      BY <2>1, <2>2 DEF FollowersFollow
  <1> QED
    BY <1>4, <1>5, <1>6, <1>7

LEMMA StepApplyLog ==
  ASSUME IInv, NEW k \in calls, ApplyLog(k)
  PROVE  IInv'
  <1> USE DEF IInv
  <1>0. UNCHANGED <<mem, fsmVars, led, clock, members, leader>> /\ calls' = calls \ {k} /\ k \in Call
    BY DEF ApplyLog, raftVars, TypeOK
  <1>1. CASE log' = log
    <2>1. calls' \subseteq Call /\ IdsOnce'
      BY <1>0, <1>1, CallsMove
    <2>2. TypeOK' /\ WithinLog'
      BY <1>0, <1>1, <2>1 DEF TypeOK, WithinLog, fsmVars
    <2>3. FollowersFollow'
      BY <1>0, <1>1, FollowersSame DEF fsmVars
    <2> QED
      BY <2>1, <2>2, <2>3
  <1>2. CASE log' = Append(log, [id |-> k.id, change |-> k.change])
    <2>e. PICK e : e = [id |-> k.id, change |-> k.change]
      OBVIOUS
    <2>1. e \in LogEntry /\ e.id = k.id
      BY <1>0, <2>e DEF Call, LogEntry, Command
    <2>2. log' \in Seq(LogEntry) /\ WithinLog' /\ FollowersFollow'
      BY <1>0, <1>2, <2>e, <2>1, LongerLog
    <2>3. TypeOK'
      BY <1>0, <2>2 DEF TypeOK, fsmVars
    <2>4. IdsOnce'
      <3>0. /\ Len(log') = Len(log) + 1 /\ Len(log) \in Nat /\ log'[Len(log) + 1] = e
            /\ \A i \in 1..Len(log) : log'[i] = log[i]
        BY <1>2, <2>e, <2>1, AppendProperties DEF TypeOK
      <3>a. \A i \in 1..Len(log) : log[i].id # k.id
        BY DEF IdsOnce
      <3>1. \A j \in calls' : j.id <= clock'
        BY <1>0 DEF IdsOnce
      <3>2. \A k1, k2 \in calls' : k1.id = k2.id => k1 = k2
        BY <1>0 DEF IdsOnce
      <3>3. \A i \in 1..Len(log') : log'[i].id <= clock'
        BY <1>0, <2>1, <3>0 DEF IdsOnce
      <3>4. \A i \in 1..Len(log') : \A j \in calls' : log'[i].id # j.id
        BY <1>0, <2>1, <3>0 DEF IdsOnce
      <3>5. \A i, j \in 1..Len(log') : (log'[i] # Membership /\ log'[i].id = log'[j].id) => i = j
        BY <2>1, <3>0, <3>a DEF IdsOnce
      <3> QED
        BY <3>1, <3>2, <3>3, <3>4, <3>5 DEF IdsOnce
    <2> QED
      BY <2>2, <2>3, <2>4
  <1> QED
    BY <1>1, <1>2 DEF ApplyLog

LEMMA StepJoin ==
  ASSUME IInv, NEW n \in Node, Join(n)
  PROVE  IInv'
  <1> USE DEF IInv
  <1>0. /\ UNCHANGED <<mem, fsmVars, led, clock, leader, calls>> /\ members' = members \cup {n}
        /\ log' = Append(log, Membership) /\ Membership \in LogEntry /\ Membership.id = 0
    BY EntryKinds DEF Join, Membership
  <1>1. log' \in Seq(LogEntry) /\ WithinLog' /\ FollowersFollow'
    BY <1>0, LongerLog
  <1>2. TypeOK'
    BY <1>0, <1>1 DEF TypeOK, fsmVars
  <1>3. IdsOnce'
    <2>0. /\ Len(log') = Len(log) + 1 /\ Len(log) \in Nat /\ log'[Len(log) + 1] = Membership
          /\ \A i \in 1..Len(log) : log'[i] = log[i]
      BY <1>0, AppendProperties DEF TypeOK
    <2>3. \A i \in 1..Len(log') : log'[i].id <= clock'
      BY <1>0, <2>0 DEF IdsOnce, TypeOK
    <2>4. \A i \in 1..Len(log') : \A j \in calls' : log'[i].id # j.id
      BY <1>0, <2>0, EntryIds DEF IdsOnce
    <2>5. \A i, j \in 1..Len(log') : (log'[i] # Membership /\ log'[i].id = log'[j].id) => i = j
      BY <1>0, <2>0, EntryIds DEF IdsOnce
    <2> QED
      BY <1>0, <2>3, <2>4, <2>5 DEF IdsOnce
  <1> QED
    BY <1>1, <1>2, <1>3

LEMMA StepElect ==
  ASSUME IInv, NEW n \in Node, Elect(n)
  PROVE  IInv'
  <1>1. FollowersFollow'
    BY FollowersSame DEF IInv, Elect, fsmVars
  <1> QED
    BY <1>1 DEF IInv, Elect, TypeOK, WithinLog, IdsOnce, fsmVars

LEMMA StepReboot ==
  ASSUME IInv, NEW n \in Node, Reboot(n)
  PROVE  IInv'
  <1> USE DEF IInv
  <1>0. /\ UNCHANGED <<log, saved, clock, members, leader>>
        /\ mem' = [mem EXCEPT ![n] = NewMemory] /\ applied' = [applied EXCEPT ![n] = 0]
        /\ batch' = [batch EXCEPT ![n] = 0] /\ led' = led \ {n}
        /\ calls' \subseteq calls
    BY DEF Reboot, raftVars
  <1>1. TypeOK'
    BY <1>0, NewMemoryType DEF TypeOK
  <1>2. WithinLog'
    BY <1>0 DEF WithinLog, TypeOK
  <1>3. IdsOnce'
    BY <1>0 DEF IdsOnce
  <1>4. FollowersFollow'
    <2> SUFFICES ASSUME NEW m \in Node \ led' PROVE Follows(log, applied'[m], mem'[m])
      BY <1>0 DEF FollowersFollow
    <2>1. CASE m = n
      <3>1. applied'[m] = 0 /\ mem'[m] = NewMemory
        BY <1>0, <2>1 DEF TypeOK
      <3> QED
        BY <3>1, FollowsNew
    <2>2. CASE m # n
      <3>1. applied'[m] = applied[m] /\ mem'[m] = mem[m] /\ m \in Node \ led
        BY <1>0, <2>2 DEF TypeOK
      <3> QED
        BY <3>1 DEF FollowersFollow
    <2> QED
      BY <2>1, <2>2
  <1> QED
    BY <1>1, <1>2, <1>3, <1>4

LEMMA StepRestart ==
  ASSUME IInv, NEW n \in Node, restartState(n)
  PROVE  IInv'
  <1> USE DEF IInv
  <1>0. /\ UNCHANGED <<log, calls, applied, batch, saved, led, clock, members, leader>>
        /\ mem[n] \in Memory /\ mem[n].restarts > 0 /\ mem \in [Node -> Memory]
    BY DEF restartState, raftVars, fsmVars, TypeOK
  <1>1. PICK r : r = mem[n].restarts - 1
    OBVIOUS
  <1>2. PICK k : k = IF mem[n].logs = <<>> THEN "free" ELSE "restarting"
    OBVIOUS
  <1>3. r \in Nat /\ k \in {"free", "restarting"} /\ NewMemory.routers \in Tables /\ FALSE \in BOOLEAN
    BY <1>0, <1>1, <1>2, NewMemoryType DEF Memory
  <1>4. PICK p : p = [mem[n] EXCEPT !.restarts = r, !.hash = <<>>, !.pending = FALSE,
                                    !.routers = NewMemory.routers, !.lock = k]
    OBVIOUS
  <1>5. p \in Memory /\ p.config = mem[n].config
    <2>1. PICK R : R = NewMemory.routers
      OBVIOUS
    <2>o. PICK o : o = mem[n]
      OBVIOUS
    <2>n. <<>> \in Seq(Nat)
      OBVIOUS
    <2>e. PICK h : h = <<>> /\ h \in Seq(Nat)
      BY <2>n, Zenon
    <2>2. PICK q : q = [o EXCEPT !.restarts = r, !.hash = h]
      OBVIOUS
    <2>3. q \in Memory /\ q.config = o.config
      BY <1>0, <1>3, <2>o, <2>e, <2>2 DEF Memory
    <2>4. p = [q EXCEPT !.pending = FALSE, !.routers = R, !.lock = k]
      BY <1>4, <2>o, <2>e, <2>1, <2>2
    <2> QED
      BY <1>3, <2>o, <2>1, <2>3, <2>4 DEF Memory
  <1>6. mem' = [mem EXCEPT ![n] = p]
    BY <1>0, <1>1, <1>2, <1>4 DEF restartState, Memory
  <1>7. TypeOK' /\ WithinLog' /\ IdsOnce'
    BY <1>0, <1>5, <1>6 DEF TypeOK, WithinLog, IdsOnce
  <1>8. FollowersFollow'
    <2> SUFFICES ASSUME NEW m \in Node \ led PROVE Follows(log, applied[m], mem'[m])
      BY <1>0 DEF FollowersFollow
    <2>1. Follows(log, applied[m], mem[m])
      BY DEF FollowersFollow
    <2>2. CASE m = n
      <3>1. mem'[m] = p
        BY <1>0, <1>6, <2>2
      <3>2. ~Clean(ChangesOf(log, applied[m])) /\ mem[m].config = Replay(ChangesOf(log, applied[m]))
        BY <1>0, <2>1, <2>2 DEF Follows
      <3> QED
        BY <1>5, <2>2, <3>1, <3>2 DEF Follows
    <2>3. CASE m # n
      <3>1. mem'[m] = mem[m]
        BY <1>0, <1>6, <2>3
      <3> QED
        BY <2>1, <3>1
    <2> QED
      BY <2>2, <2>3
  <1> QED
    BY <1>7, <1>8

LEMMA StepApplyBatch ==
  ASSUME IInv, NEW n \in Node, ApplyBatch(n)
  PROVE  IInv'
  <1> USE DEF IInv
  <1>a. PICK a : a = applied[n]
    OBVIOUS
  <1>0. /\ UNCHANGED <<log, calls, led, clock, members, leader>>
        /\ a \in Nat /\ a < Len(log) /\ log \in Seq(LogEntry) /\ mem \in [Node -> Memory]
        /\ mem[n] \in Memory /\ Len(log) \in Nat /\ a + 1 \in 1..Len(log)
    BY <1>a DEF ApplyBatch, raftVars, TypeOK
  <1>1. PICK end \in BatchEnds(n) :
          /\ mem' = IF log[a + 1] = Membership THEN mem
                    ELSE [mem EXCEPT ![n] =
                            processChangeLog(@, log[a + 1], shouldReload(n, a + 1, end), TRUE)]
          /\ applied' = [applied EXCEPT ![n] = a + 1]
          /\ batch' = [batch EXCEPT ![n] = end]
          /\ saveFSMState(n, a + 1, end)
    BY <1>a DEF ApplyBatch
  <1>2. /\ end \in Nat /\ a + 1 <= end /\ end <= Len(log)
        /\ a + 1 = Len(log) => shouldReload(n, a + 1, end)
    <2>1. end \in Nat /\ a + 1 <= end /\ end <= Len(log)
      BY <1>a, <1>0 DEF BatchEnds, TypeOK, WithinLog
    <2>2. saved[n] \in Nat /\ saved[n] <= Len(log)
      BY DEF TypeOK, WithinLog
    <2> QED
      BY <1>0, <2>1, <2>2 DEF shouldReload
  <1>3. saved' \in [Node -> Nat] /\ \A m \in Node : saved'[m] <= Len(log)
    BY <1>1, <1>2 DEF saveFSMState, TypeOK, WithinLog
  <1>4. PICK reload : reload = shouldReload(n, a + 1, end)
    OBVIOUS
  <1>5. reload \in BOOLEAN /\ (a + 1 = Len(log) => reload)
    BY <1>2, <1>4 DEF shouldReload
  <1>6. PICK p : p = IF log[a + 1] = Membership THEN mem[n]
                     ELSE processChangeLog(mem[n], log[a + 1], reload, TRUE)
    OBVIOUS
  <1>7. mem' = [mem EXCEPT ![n] = p]
    BY <1>0, <1>1, <1>4, <1>6
  <1>8. p \in Memory /\ (n \notin led => Follows(log, a + 1, p))
    <2>1. n \notin led => Follows(log, a, mem[n])
      BY <1>a DEF FollowersFollow
    <2>2. CASE log[a + 1] = Membership
      BY <1>0, <1>6, <2>1, <2>2, FollowsMembership
    <2>3. CASE log[a + 1] # Membership
      <3>1. p = processChangeLog(mem[n], log[a + 1], reload, TRUE)
        BY <1>6, <2>3
      <3>2. \A i \in 1..a : log[i].id # log[a + 1].id
        BY <1>0, <2>3 DEF IdsOnce
      <3>3. p \in Memory
        <4>0. log[a + 1] \in Command \cup Call
          BY <1>0, <2>3, EntryKinds
        <4>1. AppliedTo(mem[n], log[a + 1], processChangeLog(mem[n], log[a + 1], reload, TRUE))
          BY <1>0, <4>0, ProcessedConfig, Zenon
        <4> QED
          BY <3>1, <4>1, Zenon DEF AppliedTo
      <3>4. ASSUME n \notin led PROVE Follows(log, a + 1, p)
        <4>1. Follows(log, a, mem[n])
          BY <2>1, <3>4
        <4> QED
          BY <1>0, <1>5, <2>3, <3>1, <3>2, <4>1, FollowsCommand
      <3> QED
        BY <3>3, <3>4
    <2> QED
      BY <2>2, <2>3
  <1>9. TypeOK' /\ WithinLog' /\ IdsOnce'
    <2>1. /\ mem' \in [Node -> Memory] /\ applied' \in [Node -> Nat] /\ batch' \in [Node -> Nat]
          /\ \A m \in Node : applied'[m] <= Len(log) /\ batch'[m] <= Len(log)
      <3>1. /\ applied' = [applied EXCEPT ![n] = a + 1] /\ batch' = [batch EXCEPT ![n] = end]
            /\ a + 1 \in Nat /\ end \in Nat /\ a + 1 <= Len(log) /\ end <= Len(log)
        BY <1>0, <1>1, <1>2
      <3>2. mem' \in [Node -> Memory]
        BY <1>0, <1>7, <1>8
      <3>3. /\ applied \in [Node -> Nat] /\ batch \in [Node -> Nat]
            /\ \A m \in Node : applied[m] <= Len(log) /\ batch[m] <= Len(log)
        BY DEF TypeOK, WithinLog
      <3> QED
        BY <3>1, <3>2, <3>3
    <2>2. TypeOK'
      BY <1>0, <1>3, <2>1 DEF TypeOK
    <2>3. WithinLog'
      BY <1>0, <1>3, <2>1 DEF WithinLog
    <2>4. IdsOnce'
      BY <1>0 DEF IdsOnce
    <2> QED
      BY <2>2, <2>3, <2>4
  <1>10. FollowersFollow'
    <2> SUFFICES ASSUME NEW m \in Node \ led PROVE Follows(log, applied'[m], mem'[m])
      BY <1>0 DEF FollowersFollow
    <2>1. CASE m = n
      <3>1. applied'[m] = a + 1 /\ mem'[m] = p
        BY <1>0, <1>1, <1>7, <2>1 DEF TypeOK
      <3> QED
        BY <1>8, <2>1, <3>1
    <2>2. CASE m # n
      <3>1. applied'[m] = applied[m] /\ mem'[m] = mem[m]
        BY <1>0, <1>1, <1>7, <2>2 DEF TypeOK
      <3> QED
        BY <3>1 DEF FollowersFollow
    <2> QED
      BY <2>1, <2>2
  <1> QED
    BY <1>9, <1>10

LEMMA StepIInv == IInv /\ [Next]_vars => IInv'
  <1> SUFFICES ASSUME IInv, [Next]_vars PROVE IInv'
    OBVIOUS
  <1>1. CASE UNCHANGED vars
    <2>1. UNCHANGED <<members, leader, log, calls, mem, applied, batch, saved, led, clock>>
      BY <1>1 DEF vars, raftVars, fsmVars
    <2>2. FollowersFollow'
      BY <2>1, FollowersSame DEF IInv
    <2> QED
      BY <2>1, <2>2 DEF IInv, TypeOK, WithinLog, IdsOnce
  <1>2. CASE Next
    <2>1. CASE \E c \in Request : NewCall(c)
      BY <2>1, StepNewCall, Zenon
    <2>2. CASE \E k \in calls : ApplyLocally(k) \/ ApplyLog(k)
      BY <2>2, StepApplyLocally, StepApplyLog, Zenon
    <2>3. CASE \E n \in Node : \/ ApplyBatch(n) \/ restartState(n)
                               \/ Join(n) \/ Elect(n) \/ Reboot(n)
      BY <2>3, StepApplyBatch, StepRestart, StepJoin, StepElect, StepReboot, Zenon
    <2> QED
      BY <1>2, <2>1, <2>2, <2>3, Zenon DEF Next
  <1> QED
    BY <1>1, <1>2

\* The invariant holds in every reachable state: no node is ahead of the log, an ID
\* is never used twice, and every node that only follows is where the log puts it.
THEOREM InvariantHolds == Spec => []IInv
  BY InitIInv, StepIInv, PTL DEF Spec

\* A node that only follows the log has the configuration that the log's changes
\* build and, when nothing was refused on it, the log's IDs and hash: whatever the
\* batches, the elections, the joins and the reboots.
THEOREM FollowersAlwaysReplay == Spec => []FollowersReplay
  <1>1. IInv => FollowersReplay
    <2> SUFFICES ASSUME IInv, NEW n \in Node \ led
                 PROVE  /\ mem[n].config = Replay(CommittedChanges(applied[n]))
                        /\ (/\ Replayable(CommittedChanges(applied[n]))
                            /\ \A c \in Range(CommittedChanges(applied[n])) : ~AsksRefused(c))
                             => (mem[n].logs = CommittedIDs(applied[n]) /\ mem[n].hash = mem[n].logs)
      BY Zenon DEF FollowersReplay
    <2>1. Follows(log, applied[n], mem[n])
      BY DEF IInv, FollowersFollow
    <2>2. /\ CommittedChanges(applied[n]) = ChangesOf(log, applied[n])
          /\ CommittedIDs(applied[n]) = IDsOf(log, applied[n])
      BY OfTheLog
    <2> QED
      BY <2>1, <2>2, Zenon DEF Follows, Clean
  <1> QED
    BY <1>1, InvariantHolds, PTL

\* A node that only follows and has applied the latest entry, a change, has the
\* routes of its configuration in its tables.
THEOREM CaughtUpAlwaysServes == Spec => []CaughtUpServes
  <1>1. IInv => CaughtUpServes
    <2> SUFFICES ASSUME IInv, NEW n \in members \ led, applied[n] = Len(log),
                        log[Len(log)] # Membership, Replayable(CommittedChanges(Len(log))),
                        \A c \in Range(CommittedChanges(Len(log))) : ~AsksRefused(c)
                 PROVE  Current(mem[n].config, mem[n].routers)
      BY Zenon DEF CaughtUpServes, Current
    <2>1. Follows(log, applied[n], mem[n]) /\ Len(log) \in Nat
      BY DEF IInv, FollowersFollow, TypeOK
    <2>2. Clean(ChangesOf(log, applied[n]))
      BY OfTheLog, Zenon DEF Clean
    <2> QED
      BY <2>1, <2>2 DEF Follows
  <1> QED
    BY <1>1, InvariantHolds, PTL

-----------------------------------------------------------------------------
(* A leader is ahead of the log by what is on its way *)

IsAdd(c) == c.cmd \in {"add_namespace", "add_service", "add_domain", "add_route"}

\* Configuration C is R but for what the changes in W add or overwrite.
Ahead(C, R, W) ==
    /\ R.namespaces \subseteq C.namespaces /\ R.services \subseteq C.services
    /\ R.domains \subseteq C.domains /\ R.linked \subseteq C.linked
    /\ \A x \in C.namespaces \ R.namespaces : \E c \in W : c.cmd = "add_namespace" /\ c.ns = x
    /\ \A x \in C.services \ R.services : \E c \in W : c.cmd = "add_service" /\ c.ns = x
    /\ \A x \in C.domains \ R.domains : \E c \in W : c.cmd = "add_domain" /\ c.ns = x
    /\ \A x \in C.linked \ R.linked :
          \E c \in W : c.cmd = "add_route" /\ c.content = "service" /\ x = <<c.name, c.ns>>
    /\ \A ns \in Namespace, r \in Route :
          C.routes[ns][r] # R.routes[ns][r] =>
             \E c \in W : c.cmd = "add_route" /\ c.ns = ns /\ c.name = r

\* The changes that node n has applied ahead and given to raft, and those of the
\* log that its FSM has still to meet.
InRaft(n) == {k.change : k \in {j \in calls : j.node = n /\ j.at = "raft"}}
ToCome(l, a) == {l[i].change : i \in {j \in (a + 1)..Len(l) : l[j] # Membership}}

\* Nothing is deleted, nothing lost, and the log can be replayed.
Undisturbed ==
    /\ ~lost
    /\ Replayable(ChangesOf(log, Len(log)))
    /\ \A i \in 1..Len(log) : log[i] # Membership => IsAdd(log[i].change)
    /\ \A k \in calls : k.at = "raft" => IsAdd(k.change)

Converging ==
    Undisturbed =>
        \A n \in Node : Ahead(mem[n].config, Replay(ChangesOf(log, applied[n])),
                              InRaft(n) \cup ToCome(log, applied[n]))

\* What an addition does, field by field.
Added(S, c, T) ==
    /\ T.namespaces = IF c.cmd = "add_namespace" THEN S.namespaces \cup {c.ns} ELSE S.namespaces
    /\ T.services = IF c.cmd = "add_service" THEN S.services \cup {c.ns} ELSE S.services
    /\ T.domains = IF c.cmd = "add_domain" THEN S.domains \cup {c.ns} ELSE S.domains
    /\ T.linked = IF c.cmd = "add_route" /\ c.content = "service"
                  THEN S.linked \cup {<<c.name, c.ns>>} ELSE S.linked
    /\ \A m \in Namespace, q \in Route :
          T.routes[m][q] = IF c.cmd = "add_route" /\ m = c.ns /\ q = c.name
                           THEN c.content ELSE S.routes[m][q]

LEMMA AddedFields ==
  ASSUME NEW S \in Config, NEW c \in Change, IsAdd(c)
  PROVE  Added(S, c, Changed(S, c))
  <1>t. PICK T : T = Changed(S, c)
    OBVIOUS
  <1> SUFFICES Added(S, c, T)
    BY <1>t
  <1>0. c.ns \in Namespace
    BY ChangeFields
  <1>1. CASE c.cmd = "add_namespace"
    <2>1. T = [S EXCEPT !.namespaces = @ \cup {c.ns}]
      BY <1>t, <1>1 DEF Changed
    <2> QED
      BY <1>1, <2>1 DEF Added, Config
  <1>2. CASE c.cmd = "add_service"
    <2>1. T = [S EXCEPT !.services = @ \cup {c.ns}]
      BY <1>t, <1>2 DEF Changed
    <2> QED
      BY <1>2, <2>1 DEF Added, Config
  <1>3. CASE c.cmd = "add_domain"
    <2>1. T = [S EXCEPT !.domains = @ \cup {c.ns}]
      BY <1>t, <1>3 DEF Changed
    <2> QED
      BY <1>3, <2>1 DEF Added, Config
  <1>4. CASE c.cmd = "add_route"
    <2> DEFINE R == [S.routes EXCEPT ![c.ns][c.name] = c.content]
               L == IF c.content = "service" THEN S.linked \cup {<<c.name, c.ns>>} ELSE S.linked
    <2>1. T = [S EXCEPT !.routes[c.ns][c.name] = c.content,
                        !.linked = IF c.content = "service" THEN @ \cup {<<c.name, c.ns>>} ELSE @]
      BY <1>t, <1>4 DEF Changed
    <2>2. c.name \in Route /\ S.routes \in Tables
      BY <1>4, ChangeFields DEF Config, Tables
    <2>3. T = [S EXCEPT !.routes = R, !.linked = L]
      BY <2>1 DEF Config
    <2>4. \A m \in Namespace, q \in Route :
             R[m][q] = IF m = c.ns /\ q = c.name THEN c.content ELSE S.routes[m][q]
      BY <1>0, <2>2 DEF Tables
    <2> HIDE DEF R, L
    <2>5. /\ T.routes = R /\ T.linked = L /\ T.namespaces = S.namespaces
          /\ T.services = S.services /\ T.domains = S.domains
      BY <2>3 DEF Config
    <2>6. L = IF c.content = "service" THEN S.linked \cup {<<c.name, c.ns>>} ELSE S.linked
      BY DEF L
    <2> QED
      BY <1>4, <2>4, <2>5, <2>6 DEF Added
  <1> QED
    BY <1>1, <1>2, <1>3, <1>4 DEF IsAdd

LEMMA AheadWider ==
  ASSUME NEW C, NEW R, NEW W, NEW V, Ahead(C, R, W), W \subseteq V
  PROVE  Ahead(C, R, V)
  BY DEF Ahead

\* An addition applied ahead.
LEMMA AheadLocally ==
  ASSUME NEW C, NEW R, NEW W, NEW c, NEW D, Ahead(C, R, W), Added(C, c, D)
  PROVE  Ahead(D, R, W \cup {c})
  <1>1. /\ R.namespaces \subseteq D.namespaces
        /\ \A x \in D.namespaces \ R.namespaces : \E k \in W \cup {c} : k.cmd = "add_namespace" /\ k.ns = x
    BY DEF Ahead, Added
  <1>2. /\ R.services \subseteq D.services
        /\ \A x \in D.services \ R.services : \E k \in W \cup {c} : k.cmd = "add_service" /\ k.ns = x
    BY DEF Ahead, Added
  <1>3. /\ R.domains \subseteq D.domains
        /\ \A x \in D.domains \ R.domains : \E k \in W \cup {c} : k.cmd = "add_domain" /\ k.ns = x
    BY DEF Ahead, Added
  <1>4. /\ R.linked \subseteq D.linked
        /\ \A x \in D.linked \ R.linked :
              \E k \in W \cup {c} : k.cmd = "add_route" /\ k.content = "service" /\ x = <<k.name, k.ns>>
    BY DEF Ahead, Added
  <1>5. \A ns \in Namespace, r \in Route :
          D.routes[ns][r] # R.routes[ns][r] =>
             \E k \in W \cup {c} : k.cmd = "add_route" /\ k.ns = ns /\ k.name = r
    BY DEF Ahead, Added
  <1> QED
    BY <1>1, <1>2, <1>3, <1>4, <1>5 DEF Ahead

\* An addition met again in the log, at which it stops being one to come.
LEMMA AheadBoth ==
  ASSUME NEW C, NEW R, NEW W, NEW c, NEW D, NEW Q, Ahead(C, R, W \cup {c}),
         Added(C, c, D), Added(R, c, Q)
  PROVE  Ahead(D, Q, W)
  <1>1. /\ Q.namespaces \subseteq D.namespaces
        /\ \A x \in D.namespaces \ Q.namespaces : \E k \in W : k.cmd = "add_namespace" /\ k.ns = x
    BY DEF Ahead, Added
  <1>2. /\ Q.services \subseteq D.services
        /\ \A x \in D.services \ Q.services : \E k \in W : k.cmd = "add_service" /\ k.ns = x
    BY DEF Ahead, Added
  <1>3. /\ Q.domains \subseteq D.domains
        /\ \A x \in D.domains \ Q.domains : \E k \in W : k.cmd = "add_domain" /\ k.ns = x
    BY DEF Ahead, Added
  <1>4. /\ Q.linked \subseteq D.linked
        /\ \A x \in D.linked \ Q.linked :
              \E k \in W : k.cmd = "add_route" /\ k.content = "service" /\ x = <<k.name, k.ns>>
    BY DEF Ahead, Added
  <1>5. \A ns \in Namespace, r \in Route :
          D.routes[ns][r] # Q.routes[ns][r] =>
             \E k \in W : k.cmd = "add_route" /\ k.ns = ns /\ k.name = r
    BY DEF Ahead, Added
  <1> QED
    BY <1>1, <1>2, <1>3, <1>4, <1>5 DEF Ahead

\* What the log's configuration accepts is accepted ahead of it.
LEMMA AheadAccepts ==
  ASSUME NEW C, NEW R, NEW W, NEW c, Ahead(C, R, W), IsAdd(c), Outcome(R, c) = "ok"
  PROVE  Outcome(C, c) = "ok"
  <1>1. R.namespaces \subseteq C.namespaces /\ R.services \subseteq C.services
    BY DEF Ahead
  <1>2. CASE c.cmd = "add_namespace"
    BY <1>2 DEF Outcome
  <1>3. CASE c.cmd \in {"add_service", "add_domain"}
    BY <1>1, <1>3 DEF Outcome
  <1>4. CASE c.cmd = "add_route"
    BY <1>1, <1>4 DEF Outcome
  <1> QED
    BY <1>2, <1>3, <1>4 DEF IsAdd

\* With nothing on its way a node is where the log is.
LEMMA AheadOfNothing ==
  ASSUME NEW C \in Config, NEW R \in Config, Ahead(C, R, {})
  PROVE  C = R
  <1>1. C.namespaces = R.namespaces /\ C.services = R.services
        /\ C.domains = R.domains /\ C.linked = R.linked
    BY DEF Ahead
  <1>2. C.routes = R.routes
    <2>1. C.routes \in Tables /\ R.routes \in Tables
      BY DEF Config, Tables
    <2>2. \A ns \in Namespace, r \in Route : C.routes[ns][r] = R.routes[ns][r]
      BY DEF Ahead
    <2>3. \A ns \in Namespace : C.routes[ns] = R.routes[ns]
      BY <2>1, <2>2 DEF Tables
    <2> QED
      BY <2>1, <2>3 DEF Tables
  <1> QED
    BY <1>1, <1>2 DEF Config

-----------------------------------------------------------------------------
(* What holds of the whole log holds of its beginning *)

\* Every command is among the changes.
LEMMA EntriesInRange ==
  ASSUME NEW l \in Seq(LogEntry)
  PROVE  \A n \in 0..Len(l) :
            \A i \in 1..n : l[i] # Membership => l[i].change \in Range(ChangesOf(l, n))
  <1> DEFINE P(n) == \A i \in 1..n : l[i] # Membership => l[i].change \in Range(ChangesOf(l, n))
             N == {n \in Nat : n <= Len(l) => P(n)}
  <1>1. 0 \in N
    OBVIOUS
  <1>2. ASSUME NEW n \in Nat, n \in N PROVE n + 1 \in N
    <2> SUFFICES ASSUME n + 1 <= Len(l), NEW i \in 1..(n + 1), l[i] # Membership
                 PROVE  l[i].change \in Range(ChangesOf(l, n + 1))
      OBVIOUS
    <2>1. P(n) /\ n \in 0..Len(l) /\ n + 1 \in 1..Len(l)
      BY <1>2
    <2>2. CASE l[n + 1] = Membership
      <3>1. ChangesOf(l, n + 1) = ChangesOf(l, n) /\ i \in 1..n
        BY <2>1, <2>2, Columns
      <3> QED
        BY <2>1, <3>1
    <2>3. CASE l[n + 1] # Membership
      <3>1. /\ ChangesOf(l, n + 1) = Append(ChangesOf(l, n), l[n + 1].change)
            /\ ChangesOf(l, n) \in Seq(Change) /\ l[n + 1] \in Command
        BY <2>1, <2>3, Columns
      <3>2. l[n + 1].change \in Change
        BY <3>1 DEF Command
      <3>3. Range(ChangesOf(l, n + 1)) = Range(ChangesOf(l, n)) \cup {l[n + 1].change}
        BY <3>1, <3>2, RangeAppend
      <3> QED
        BY <2>1, <3>3
    <2> QED
      BY <2>2, <2>3
  <1> HIDE DEF N
  <1>3. Nat \subseteq N
    BY <1>1, <1>2, SetInduction
  <1> QED
    BY <1>3 DEF N

\* A log that can be replayed can be replayed up to any entry.
LEMMA ReplayablePrefix ==
  ASSUME NEW l \in Seq(LogEntry), Replayable(ChangesOf(l, Len(l)))
  PROVE  \A n \in 0..Len(l) : Replayable(ChangesOf(l, n))
  <1> DEFINE N == {d \in Nat : d <= Len(l) => Replayable(ChangesOf(l, Len(l) - d))}
  <1>0. Len(l) \in Nat
    OBVIOUS
  <1>1. 0 \in N
    BY <1>0
  <1>2. ASSUME NEW d \in Nat, d \in N PROVE d + 1 \in N
    <2> SUFFICES ASSUME d + 1 <= Len(l) PROVE Replayable(ChangesOf(l, Len(l) - (d + 1)))
      OBVIOUS
    <2>1. PICK n : n = Len(l) - (d + 1)
      OBVIOUS
    <2>2. n \in 0..Len(l) /\ n + 1 = Len(l) - d /\ n + 1 <= Len(l)
      BY <1>0, <2>1
    <2>3. Replayable(ChangesOf(l, n + 1))
      BY <1>2, <2>2
    <2>4. CASE l[n + 1] = Membership
      BY <2>1, <2>2, <2>3, <2>4, Columns
    <2>5. CASE l[n + 1] # Membership
      <3>1. /\ ChangesOf(l, n + 1) = Append(ChangesOf(l, n), l[n + 1].change)
            /\ ChangesOf(l, n) \in Seq(Change) /\ l[n + 1] \in Command
        BY <2>2, <2>5, Columns
      <3>2. l[n + 1].change \in Change
        BY <3>1 DEF Command
      <3> QED
        BY <2>1, <2>3, <3>1, <3>2, ReplayAppend, ZenonT(60)
    <2> QED
      BY <2>4, <2>5
  <1> HIDE DEF N
  <1>3. Nat \subseteq N
    BY <1>1, <1>2, SetInduction
  <1>4. ASSUME NEW n \in 0..Len(l) PROVE Replayable(ChangesOf(l, n))
    <2>1. Len(l) - n \in Nat /\ Len(l) - n <= Len(l) /\ Len(l) - (Len(l) - n) = n
      BY <1>0
    <2>2. Len(l) - n \in N
      BY <1>3, <2>1
    <2> QED
      BY <2>1, <2>2 DEF N
  <1> QED
    BY <1>4

-----------------------------------------------------------------------------
(* Convergence *)

LEMMA LongerToCome ==
  ASSUME NEW l \in Seq(LogEntry), NEW e \in LogEntry, NEW a \in 0..Len(l)
  PROVE  /\ ToCome(l, a) \subseteq ToCome(Append(l, e), a)
         /\ e # Membership => e.change \in ToCome(Append(l, e), a)
  <1> DEFINE m == Append(l, e)
  <1>1. /\ Len(m) = Len(l) + 1 /\ Len(l) \in Nat /\ m[Len(l) + 1] = e
        /\ \A i \in 1..Len(l) : m[i] = l[i]
    BY AppendProperties
  <1> HIDE DEF m
  <1>2. ASSUME NEW c \in ToCome(l, a) PROVE c \in ToCome(m, a)
    <2>1. PICK i \in (a + 1)..Len(l) : l[i] # Membership /\ c = l[i].change
      BY DEF ToCome
    <2>2. i \in (a + 1)..Len(m) /\ m[i] = l[i]
      BY <1>1
    <2> QED
      BY <2>1, <2>2 DEF ToCome
  <1>3. ASSUME e # Membership PROVE e.change \in ToCome(m, a)
    <2>1. Len(l) + 1 \in (a + 1)..Len(m)
      BY <1>1
    <2> QED
      BY <1>1, <1>3, <2>1 DEF ToCome
  <1> QED
    BY <1>2, <1>3 DEF m

\* What was replayable and only added with one more entry was so without it.
LEMMA ShorterLog ==
  ASSUME NEW l \in Seq(LogEntry), NEW e \in LogEntry, NEW m, m = Append(l, e),
         Replayable(ChangesOf(m, Len(m))),
         \A i \in 1..Len(m) : m[i] # Membership => IsAdd(m[i].change)
  PROVE  /\ Replayable(ChangesOf(l, Len(l)))
         /\ \A i \in 1..Len(l) : l[i] # Membership => IsAdd(l[i].change)
         /\ e # Membership => IsAdd(e.change)
  <1>1. /\ m \in Seq(LogEntry) /\ Len(m) = Len(l) + 1 /\ Len(l) \in Nat /\ m[Len(l) + 1] = e
        /\ \A i \in 1..Len(l) : m[i] = l[i]
    BY AppendProperties
  <1>2. Len(l) \in 0..Len(m) /\ Len(l) \in 0..Len(l) /\ Len(l) + 1 \in 1..Len(m)
    BY <1>1
  <1>3. Replayable(ChangesOf(m, Len(l)))
    BY <1>1, <1>2, ReplayablePrefix
  <1>4. ChangesOf(m, Len(l)) = ChangesOf(l, Len(l))
    BY <1>2, ColumnsKept
  <1>5. \A i \in 1..Len(l) : i \in 1..Len(m)
    BY <1>1
  <1> QED
    BY <1>1, <1>2, <1>3, <1>4, <1>5

\* A step that leaves the configurations, the log and what was given to raft.
LEMMA ConvergingQuiet ==
  ASSUME Converging, log' = log, applied' = applied, ~lost' => ~lost,
         \A k \in calls : k.at = "raft" => k \in calls',
         \A n \in Node : mem'[n].config = mem[n].config
  PROVE  Converging'
  <1> SUFFICES ASSUME Undisturbed', NEW n \in Node
               PROVE  Ahead(mem'[n].config, Replay(ChangesOf(log', applied'[n])),
                            InRaft(n)' \cup ToCome(log', applied'[n]))
    BY DEF Converging
  <1>1. Undisturbed
    BY DEF Undisturbed
  <1>2. Ahead(mem[n].config, Replay(ChangesOf(log, applied[n])), InRaft(n) \cup ToCome(log, applied[n]))
    BY <1>1 DEF Converging
  <1>3. InRaft(n) \cup ToCome(log, applied[n]) \subseteq InRaft(n)' \cup ToCome(log', applied'[n])
    BY DEF InRaft
  <1> QED
    BY <1>2, <1>3, AheadWider

LEMMA ConvergingApplyLocally ==
  ASSUME IInv, Converging, NEW k \in calls, ApplyLocally(k)
  PROVE  Converging'
  <1>0. /\ k \in Call /\ k.node \in Node /\ k.change \in Change /\ mem \in [Node -> Memory]
        /\ mem[k.node] \in Memory /\ mem[k.node].config \in Config
        /\ k.at = "local" /\ log' = log /\ applied' = applied
    BY DEF ApplyLocally, fsmVars, IInv, TypeOK, Call, Memory
  <1>1. PICK p : p = processChangeLog(mem[k.node], k, TRUE, FALSE)
    OBVIOUS
  <1>2. mem' = [mem EXCEPT ![k.node] = p]
    BY <1>1 DEF ApplyLocally
  <1>3. p.config = ApplyChange(mem[k.node].config, k.change)
    <2>1. AppliedTo(mem[k.node], k, processChangeLog(mem[k.node], k, TRUE, FALSE))
      <3>1. k \in Command \cup Call
        BY <1>0
      <3> QED
        BY <1>0, <3>1, ProcessedConfig, Zenon
    <2> QED
      BY <1>1, <2>1, Zenon DEF AppliedTo
  <1>c. PICK c : c = k.change
    OBVIOUS
  <1>d. PICK C : C = mem[k.node].config
    OBVIOUS
  <1>4. ~lost' => ~lost /\ ~(Outcome(C, c) = "ok" /\ ~Accepted(mem[k.node], k.change, TRUE))
    <2>1. lost' = (lost \/ (/\ Outcome(mem[k.node].config, k.change) = "ok"
                            /\ ~Accepted(mem[k.node], k.change, TRUE)))
      BY DEF ApplyLocally
    <2> QED
      BY <1>c, <1>d, <2>1, Zenon
  <1>5. \A n \in Node \ {k.node} : mem'[n].config = mem[n].config
    BY <1>0, <1>2
  <1>6. CASE Outcome(C, c) # "ok"
    <2>1. mem'[k.node].config = mem[k.node].config
      BY <1>0, <1>2, <1>3, <1>c, <1>d, <1>6 DEF ApplyChange
    <2>2. \A n \in Node : mem'[n].config = mem[n].config
      BY <1>5, <2>1
    <2>3. \A j \in calls : j.at = "raft" => j \in calls'
      BY <1>0 DEF ApplyLocally
    <2> QED
      BY <1>0, <1>4, <2>2, <2>3, ConvergingQuiet
  <1>7. CASE Outcome(C, c) = "ok" /\ Accepted(mem[k.node], k.change, TRUE)
    <2>r. PICK r : r = [k EXCEPT !.at = "raft"]
      OBVIOUS
    <2>1. calls' = (calls \ {k}) \cup {r}
      BY <1>7, <2>r DEF ApplyLocally
    <2>2. r.at = "raft" /\ r.node = k.node /\ r.change = c
      BY <1>0, <1>c, <2>r DEF Call
    <2>3. \A j \in calls : j.at = "raft" => j \in calls'
      BY <1>0, <2>1
    <2> SUFFICES ASSUME Undisturbed', NEW n \in Node
                 PROVE  Ahead(mem'[n].config, Replay(ChangesOf(log', applied'[n])),
                              InRaft(n)' \cup ToCome(log', applied'[n]))
      BY DEF Converging
    <2>4. Undisturbed /\ IsAdd(c)
      BY <1>0, <1>4, <2>1, <2>2, <2>3 DEF Undisturbed
    <2>5. PICK W : W = InRaft(n) \cup ToCome(log, applied[n])
      OBVIOUS
    <2>6. PICK R : R = Replay(ChangesOf(log, applied[n]))
      OBVIOUS
    <2>7. Ahead(mem[n].config, R, W)
      BY <2>4, <2>5, <2>6 DEF Converging
    <2>8. PICK V : V = InRaft(n)' \cup ToCome(log', applied'[n])
      OBVIOUS
    <2>9. W \subseteq V /\ (n = k.node => c \in V)
      BY <1>0, <2>1, <2>2, <2>3, <2>5, <2>8 DEF InRaft
    <2>10. CASE n # k.node
      BY <1>0, <1>5, <2>6, <2>7, <2>8, <2>9, <2>10, AheadWider
    <2>11. CASE n = k.node
      <3>1. PICK D : D = Changed(C, c)
        OBVIOUS
      <3>2. mem'[n].config = D
        BY <1>0, <1>2, <1>3, <1>c, <1>d, <1>7, <2>11, <3>1 DEF ApplyChange
      <3>3. Added(C, c, D)
        BY <1>0, <1>c, <1>d, <2>4, <3>1, AddedFields
      <3>4. Ahead(C, R, W)
        BY <1>d, <2>7, <2>11
      <3>5. Ahead(D, R, W \cup {c})
        BY <3>3, <3>4, AheadLocally
      <3>6. Ahead(D, R, V)
        BY <2>9, <2>11, <3>5, AheadWider
      <3> QED
        BY <1>0, <2>6, <2>8, <3>2, <3>6
    <2> QED
      BY <2>10, <2>11
  <1>8. CASE Outcome(C, c) = "ok" /\ ~Accepted(mem[k.node], k.change, TRUE)
    <2>1. ~Undisturbed'
      BY <1>4, <1>8 DEF Undisturbed
    <2> QED
      BY <2>1 DEF Converging
  <1> QED
    BY <1>6, <1>7, <1>8

LEMMA ConvergingApplyLog ==
  ASSUME IInv, Converging, NEW k \in calls, ApplyLog(k)
  PROVE  Converging'
  <1> SUFFICES ASSUME Undisturbed', NEW n \in Node
               PROVE  Ahead(mem'[n].config, Replay(ChangesOf(log', applied'[n])),
                            InRaft(n)' \cup ToCome(log', applied'[n]))
    BY DEF Converging
  <1>e. PICK e : e = [id |-> k.id, change |-> k.change]
    OBVIOUS
  <1>0. /\ k \in Call /\ k.at = "raft" /\ calls' = calls \ {k} /\ mem' = mem /\ applied' = applied
        /\ log \in Seq(LogEntry) /\ applied[n] \in 0..Len(log)
    BY DEF ApplyLog, fsmVars, IInv, TypeOK, WithinLog
  <1>1. log' = Append(log, e) /\ lost' = lost
    <2>1. ~lost'
      BY DEF Undisturbed
    <2> QED
      BY <1>e, <2>1 DEF ApplyLog
  <1>2. e \in LogEntry /\ e # Membership /\ e.change = k.change
    <2>1. e \in Command /\ e.change = k.change
      BY <1>0, <1>e DEF Call, Command
    <2> QED
      BY <2>1, EntryKinds DEF LogEntry
  <1>3. /\ Replayable(ChangesOf(log, Len(log))) /\ IsAdd(e.change)
        /\ \A i \in 1..Len(log) : log[i] # Membership => IsAdd(log[i].change)
    BY <1>0, <1>1, <1>2, ShorterLog DEF Undisturbed
  <1>4. Undisturbed
    BY <1>0, <1>1, <1>2, <1>3 DEF Undisturbed
  <1>5. Ahead(mem[n].config, Replay(ChangesOf(log, applied[n])), InRaft(n) \cup ToCome(log, applied[n]))
    BY <1>4 DEF Converging
  <1>6. /\ ToCome(log, applied[n]) \subseteq ToCome(log', applied'[n])
        /\ k.change \in ToCome(log', applied'[n])
        /\ ChangesOf(log', applied'[n]) = ChangesOf(log, applied[n])
    BY <1>0, <1>1, <1>2, LongerToCome, ColumnsKept
  <1>7. InRaft(n) \subseteq InRaft(n)' \cup {k.change}
    BY <1>0 DEF InRaft
  <1>8. InRaft(n) \cup ToCome(log, applied[n]) \subseteq InRaft(n)' \cup ToCome(log', applied'[n])
    BY <1>6, <1>7
  <1> QED
    BY <1>0, <1>5, <1>6, <1>8, AheadWider

LEMMA ConvergingJoin ==
  ASSUME IInv, Converging, NEW m \in Node, Join(m)
  PROVE  Converging'
  <1> SUFFICES ASSUME Undisturbed', NEW n \in Node
               PROVE  Ahead(mem'[n].config, Replay(ChangesOf(log', applied'[n])),
                            InRaft(n)' \cup ToCome(log', applied'[n]))
    BY DEF Converging
  <1>0. /\ log' = Append(log, Membership) /\ calls' = calls /\ mem' = mem /\ applied' = applied
        /\ lost' = lost /\ log \in Seq(LogEntry) /\ applied[n] \in 0..Len(log) /\ Membership \in LogEntry
    BY EntryKinds DEF Join, fsmVars, IInv, TypeOK, WithinLog
  <1>1. /\ Replayable(ChangesOf(log, Len(log)))
        /\ \A i \in 1..Len(log) : log[i] # Membership => IsAdd(log[i].change)
    BY <1>0, ShorterLog DEF Undisturbed
  <1>2. Undisturbed
    BY <1>0, <1>1 DEF Undisturbed
  <1>3. Ahead(mem[n].config, Replay(ChangesOf(log, applied[n])), InRaft(n) \cup ToCome(log, applied[n]))
    BY <1>2 DEF Converging
  <1>4. /\ ToCome(log, applied[n]) \subseteq ToCome(log', applied'[n])
        /\ ChangesOf(log', applied'[n]) = ChangesOf(log, applied[n])
    BY <1>0, LongerToCome, ColumnsKept
  <1>5. InRaft(n) \cup ToCome(log, applied[n]) \subseteq InRaft(n)' \cup ToCome(log', applied'[n])
    BY <1>0, <1>4 DEF InRaft
  <1> QED
    BY <1>0, <1>3, <1>4, <1>5, AheadWider

LEMMA ConvergingReboot ==
  ASSUME IInv, Converging, NEW m \in Node, Reboot(m)
  PROVE  Converging'
  <1> SUFFICES ASSUME Undisturbed', NEW n \in Node
               PROVE  Ahead(mem'[n].config, Replay(ChangesOf(log', applied'[n])),
                            InRaft(n)' \cup ToCome(log', applied'[n]))
    BY DEF Converging
  <1>0. /\ log' = log /\ calls' = {k \in calls : k.node # m} /\ mem' = [mem EXCEPT ![m] = NewMemory]
        /\ applied' = [applied EXCEPT ![m] = 0] /\ mem \in [Node -> Memory] /\ applied \in [Node -> Nat]
    BY DEF Reboot, IInv, TypeOK
  <1>1. ~lost /\ \A k \in calls : ~(k.node = m /\ k.at = "raft")
    <2>1. lost' = (lost \/ \E k \in calls : k.node = m /\ k.at = "raft") /\ ~lost'
      BY DEF Reboot, Undisturbed
    <2> QED
      BY <2>1, Zenon
  <1>2. CASE n = m
    <2>1. mem'[n].config = InitConfig /\ applied'[n] = 0
      BY <1>0, <1>2, NewMemoryType
    <2>2. Replay(ChangesOf(log', applied'[n])) = InitConfig
      BY <2>1, ColumnsNone, ReplayEmpty
    <2> QED
      BY <2>1, <2>2 DEF Ahead
  <1>3. CASE n # m
    <2>1. \A k \in calls : k.at = "raft" => k \in calls'
      BY <1>0, <1>1
    <2>2. Undisturbed
      BY <1>0, <1>1, <2>1 DEF Undisturbed
    <2>3. mem'[n] = mem[n] /\ applied'[n] = applied[n]
      BY <1>0, <1>3
    <2>4. Ahead(mem[n].config, Replay(ChangesOf(log, applied[n])), InRaft(n) \cup ToCome(log, applied[n]))
      BY <2>2 DEF Converging
    <2>5. InRaft(n) \cup ToCome(log, applied[n]) \subseteq InRaft(n)' \cup ToCome(log', applied'[n])
      BY <1>0, <2>1, <2>3 DEF InRaft
    <2> QED
      BY <1>0, <2>3, <2>4, <2>5, AheadWider
  <1> QED
    BY <1>2, <1>3

\* What is to come after one more entry.
LEMMA ToComeNext ==
  ASSUME NEW l \in Seq(LogEntry), NEW a \in Nat, a < Len(l)
  PROVE  /\ l[a + 1] = Membership => ToCome(l, a) \subseteq ToCome(l, a + 1)
         /\ l[a + 1] # Membership => ToCome(l, a) \subseteq ToCome(l, a + 1) \cup {l[a + 1].change}
  <1>1. ASSUME NEW c \in ToCome(l, a)
        PROVE  c \in ToCome(l, a + 1) \/ (l[a + 1] # Membership /\ c = l[a + 1].change)
    <2>1. PICK i \in (a + 1)..Len(l) : l[i] # Membership /\ c = l[i].change
      BY DEF ToCome
    <2>2. CASE i = a + 1
      BY <2>1, <2>2
    <2>3. CASE i # a + 1
      <3>1. i \in ((a + 1) + 1)..Len(l)
        BY <2>3
      <3> QED
        BY <2>1, <3>1 DEF ToCome
    <2> QED
      BY <2>2, <2>3
  <1> QED
    BY <1>1

LEMMA ConvergingApplyBatch ==
  ASSUME IInv, Converging, NEW m \in Node, ApplyBatch(m)
  PROVE  Converging'
  <1> SUFFICES ASSUME Undisturbed', NEW n \in Node
               PROVE  Ahead(mem'[n].config, Replay(ChangesOf(log', applied'[n])),
                            InRaft(n)' \cup ToCome(log', applied'[n]))
    BY DEF Converging
  <1>a. PICK a : a = applied[m]
    OBVIOUS
  <1>0. /\ log' = log /\ calls' = calls /\ lost' = lost
        /\ a \in Nat /\ a < Len(log) /\ log \in Seq(LogEntry) /\ mem \in [Node -> Memory]
        /\ mem[m] \in Memory /\ Len(log) \in Nat /\ a + 1 \in 1..Len(log) /\ a \in 0..Len(log)
        /\ applied \in [Node -> Nat] /\ mem[m].config \in Config
    <2>1. /\ log' = log /\ calls' = calls /\ lost' = lost
          /\ a < Len(log) /\ log \in Seq(LogEntry) /\ mem \in [Node -> Memory]
          /\ applied \in [Node -> Nat]
      BY <1>a DEF ApplyBatch, IInv, TypeOK
    <2>2. a \in Nat /\ mem[m] \in Memory /\ Len(log) \in Nat
      BY <1>a, <2>1
    <2>3. mem[m].config \in Config
      BY <2>2 DEF Memory
    <2>4. a + 1 \in 1..Len(log) /\ a \in 0..Len(log)
      BY <2>1, <2>2
    <2> QED
      BY <2>1, <2>2, <2>3, <2>4
  <1>1. PICK end \in BatchEnds(m) :
          /\ mem' = IF log[a + 1] = Membership THEN mem
                    ELSE [mem EXCEPT ![m] =
                            processChangeLog(@, log[a + 1], shouldReload(m, a + 1, end), TRUE)]
          /\ applied' = [applied EXCEPT ![m] = a + 1]
    BY <1>a DEF ApplyBatch
  <1>2. Undisturbed
    BY <1>0 DEF Undisturbed
  <1>3. PICK W : W = InRaft(n)
    OBVIOUS
  <1>4. InRaft(n)' = W
    BY <1>0, <1>3 DEF InRaft
  <1>5. Ahead(mem[n].config, Replay(ChangesOf(log, applied[n])), W \cup ToCome(log, applied[n]))
    BY <1>2, <1>3 DEF Converging
  <1>6. CASE n # m
    <2>1. mem'[n] = mem[n] /\ applied'[n] = applied[n]
      BY <1>0, <1>1, <1>6
    <2> QED
      BY <1>0, <1>4, <1>5, <2>1
  <1>7. CASE n = m /\ log[a + 1] = Membership
    <2>1. mem'[n] = mem[n] /\ applied'[n] = a + 1
      BY <1>0, <1>1, <1>7
    <2>2. ChangesOf(log, a + 1) = ChangesOf(log, a) /\ ToCome(log, a) \subseteq ToCome(log, a + 1)
      BY <1>0, <1>7, Columns, ToComeNext
    <2>3. Ahead(mem[n].config, Replay(ChangesOf(log, a)), W \cup ToCome(log, a + 1))
      BY <1>a, <1>5, <1>7, <2>2, AheadWider
    <2> QED
      BY <1>0, <1>4, <2>1, <2>2, <2>3
  <1>8. CASE n = m /\ log[a + 1] # Membership
    <2>e. PICK e : e = log[a + 1]
      OBVIOUS
    <2>c. PICK c : c = e.change
      OBVIOUS
    <2>b. PICK reload : reload = shouldReload(m, a + 1, end)
      OBVIOUS
    <2>p. PICK p : p = processChangeLog(mem[m], e, reload, TRUE)
      OBVIOUS
    <2>C. PICK C : C = mem[m].config
      OBVIOUS
    <2>s. PICK cs : cs = ChangesOf(log, a)
      OBVIOUS
    <2>1. mem'[n] = p /\ applied'[n] = a + 1
      BY <1>0, <1>1, <1>8, <2>e, <2>b, <2>p
    <2>2. /\ e \in Command /\ c \in Change
          /\ cs \in Seq(Change) /\ ChangesOf(log, a + 1) = Append(cs, c)
      <3>1. a + 1 <= Len(log)
        BY <1>0
      <3>2. e \in Command /\ cs \in Seq(Change) /\ ChangesOf(log, a + 1) = Append(cs, c)
        BY <1>0, <1>8, <2>e, <2>c, <2>s, <3>1, Columns
      <3> QED
        BY <2>c, <3>2 DEF Command
    <2>3. p.config = ApplyChange(C, c)
      <3>1. e \in Command \cup Call
        BY <2>2
      <3>2. AppliedTo(mem[m], e, processChangeLog(mem[m], e, reload, TRUE))
        BY <1>0, <3>1, ProcessedConfig, Zenon
      <3> QED
        BY <2>c, <2>p, <2>C, <3>2, Zenon DEF AppliedTo
    <2>R. PICK R : R = Replay(cs)
      OBVIOUS
    <2>4. IsAdd(c) /\ Outcome(R, c) = "ok" /\ Replay(Append(cs, c)) = Changed(R, c) /\ R \in Config
      <3>1. IsAdd(c)
        BY <1>0, <1>2, <1>8, <2>e, <2>c DEF Undisturbed
      <3>2. Replayable(ChangesOf(log, Len(log)))
        BY <1>2 DEF Undisturbed
      <3>3. Replayable(Append(cs, c))
        <4>1. a + 1 \in 0..Len(log)
          BY <1>0
        <4> QED
          BY <1>0, <2>2, <3>2, <4>1, ReplayablePrefix
      <3>4. Outcome(R, c) = "ok" /\ Replay(Append(cs, c)) = ApplyChange(R, c)
        BY <2>2, <2>R, <3>3, ReplayAppend
      <3>5. R \in Config
        BY <2>2, <2>R, ReplayType
      <3> QED
        BY <3>1, <3>4, <3>5 DEF ApplyChange
    <2>5. Ahead(C, R, W \cup ToCome(log, a))
      BY <1>a, <1>5, <1>8, <2>C, <2>s, <2>R
    <2>6. Outcome(C, c) = "ok"
      BY <2>4, <2>5, AheadAccepts
    <2>D. PICK D : D = Changed(C, c)
      OBVIOUS
    <2>Q. PICK Q : Q = Changed(R, c)
      OBVIOUS
    <2>7. p.config = D
      BY <2>3, <2>6, <2>D DEF ApplyChange
    <2>8. Added(C, c, D) /\ Added(R, c, Q)
      BY <1>0, <2>2, <2>4, <2>C, <2>D, <2>Q, AddedFields
    <2>V. PICK V : V = W \cup ToCome(log, a + 1)
      OBVIOUS
    <2>9. W \cup ToCome(log, a) \subseteq V \cup {c}
      BY <1>0, <1>8, <2>e, <2>c, <2>V, ToComeNext
    <2>10. Ahead(C, R, V \cup {c})
      BY <2>5, <2>9, AheadWider
    <2>11. Ahead(D, Q, V)
      BY <2>8, <2>10, AheadBoth
    <2> QED
      BY <1>0, <1>4, <2>1, <2>2, <2>4, <2>7, <2>11, <2>Q, <2>V
  <1> QED
    BY <1>6, <1>7, <1>8

LEMMA StepConverging == IInv /\ Converging /\ [Next]_vars => Converging'
  <1> SUFFICES ASSUME IInv, Converging, [Next]_vars PROVE Converging'
    OBVIOUS
  <1>1. ASSUME log' = log, applied' = applied, lost' = lost, calls \subseteq calls', mem' = mem
        PROVE  Converging'
    BY <1>1, ConvergingQuiet
  <1>2. CASE UNCHANGED vars
    BY <1>1, <1>2 DEF vars, raftVars, fsmVars
  <1>3. ASSUME NEW c \in Request, NewCall(c) PROVE Converging'
    BY <1>1, <1>3 DEF NewCall, fsmVars
  <1>4. ASSUME NEW n \in Node, Elect(n) PROVE Converging'
    BY <1>1, <1>4 DEF Elect, fsmVars
  <1>5. ASSUME NEW n \in Node, restartState(n) PROVE Converging'
    <2>1. log' = log /\ applied' = applied /\ lost' = lost /\ calls' = calls
      BY <1>5 DEF restartState, fsmVars
    <2>2. \A m \in Node : mem'[m].config = mem[m].config
      BY <1>5 DEF restartState, IInv, TypeOK, Memory
    <2> QED
      BY <2>1, <2>2, ConvergingQuiet
  <1>6. CASE Next
    BY <1>3, <1>4, <1>5, <1>6, ConvergingApplyLocally, ConvergingApplyLog, ConvergingApplyBatch,
       ConvergingJoin, ConvergingReboot, Zenon DEF Next
  <1> QED
    BY <1>2, <1>6

LEMMA InitConverging == Init => Converging
  <1> SUFFICES ASSUME Init, NEW n \in Node
               PROVE  Ahead(mem[n].config, Replay(ChangesOf(log, applied[n])),
                            InRaft(n) \cup ToCome(log, applied[n]))
    BY DEF Converging
  <1>1. mem[n].config = InitConfig /\ applied[n] = 0
    BY NewMemoryType DEF Init
  <1>2. Replay(ChangesOf(log, applied[n])) = InitConfig
    BY <1>1, ColumnsNone, ReplayEmpty
  <1> QED
    BY <1>1, <1>2 DEF Ahead

\* A node that leads applies its changes ahead of the log and again from it.  Where
\* nothing is deleted or lost and the log can be replayed, it ends with the
\* configuration that the log builds: every addition it is ahead by is still on its
\* way to it, in raft or in the log.
THEOREM LeaderAlwaysConverges == Spec => []LeaderConverges
  <1>1. IInv /\ Converging => LeaderConverges
    <2> SUFFICES ASSUME IInv, Converging, NEW n \in led, n \in Node, calls = {}, ~lost, applied[n] = Len(log),
                        Replayable(CommittedChanges(Len(log))),
                        \A c \in Range(CommittedChanges(Len(log))) :
                           c.cmd \in {"add_namespace", "add_service", "add_domain", "add_route"}
                 PROVE  mem[n].config = Replay(CommittedChanges(Len(log)))
      BY Zenon DEF LeaderConverges, IInv, TypeOK
    <2>1. PICK cs : cs = ChangesOf(log, Len(log))
      OBVIOUS
    <2>2. CommittedChanges(Len(log)) = cs /\ log \in Seq(LogEntry) /\ Len(log) \in 0..Len(log)
      BY <2>1, OfTheLog DEF IInv, TypeOK
    <2>3. cs \in Seq(Change)
      BY <2>1, <2>2, Columns
    <2>4. Undisturbed
      <3>1. \A i \in 1..Len(log) : log[i] # Membership => log[i].change \in Range(cs)
        BY <2>1, <2>2, EntriesInRange
      <3> QED
        BY <2>1, <2>2, <3>1 DEF Undisturbed, IsAdd
    <2>5. InRaft(n) \cup ToCome(log, applied[n]) = {}
      BY <2>2 DEF InRaft, ToCome
    <2>6. Ahead(mem[n].config, Replay(cs), {})
      BY <2>1, <2>4, <2>5 DEF Converging
    <2>7. mem[n].config \in Config /\ Replay(cs) \in Config
      BY <2>3, ReplayType DEF IInv, TypeOK, Memory
    <2> QED
      BY <2>2, <2>6, <2>7, AheadOfNothing
  <1>2. Init => IInv /\ Converging
    BY InitIInv, InitConverging
  <1>3. IInv /\ Converging /\ [Next]_vars => IInv' /\ Converging'
    BY StepIInv, StepConverging
  <1> QED
    BY <1>1, <1>2, <1>3, PTL DEF Spec
=============================================================================
