----------------------------- MODULE Replication -----------------------------
(***************************************************************************)
(* A cluster of gateways: ApplyChangeLog of internal/proxy/proxy_state.go  *)
(* with raft enabled, and the state machine of internal/admin/admin_fsm.go *)
(* on every node.                                                          *)
(*                                                                         *)
(* hashicorp/raft is external: it is the committed log, a leader among the *)
(* members, and the delivery of committed entries to each node's FSM in    *)
(* order and in batches.  The leader applies a change to its own state     *)
(* first and then hands it to raft, from where it meets it again; between  *)
(* the two steps other calls run, and the leadership may be lost.          *)
(***************************************************************************)
EXTENDS Configuration, FiniteSets

CONSTANTS
    Node,
    First,        \* the node that bootstraps the cluster
    Request,      \* bound: the changes that clients ask for
    MaxCalls,     \* bound: calls of ApplyChangeLog
    MaxInFlight,  \* bound: calls at once
    MaxElections, \* bound: changes of the leader
    MaxReboots    \* bound: restarts of a process

\* A delete_service may panic, which is the subject of ProxyState.
ASSUME ReplicationAssumption ==
    /\ First \in Node
    /\ Request \subseteq {c \in Change : c.cmd # "delete_service"}
    /\ {MaxCalls, MaxInFlight, MaxElections, MaxReboots} \subseteq Nat

VARIABLES
    members,  \* the nodes of the raft configuration
    leader,
    log,      \* committed entries
    calls,    \* calls of ApplyChangeLog in flight
    mem,      \* memory of each node's ProxyState
    applied,  \* entries given to each node's FSM
    batch,    \* end of the batch that the FSM works on, or has finished
    saved,    \* localState.AppliedIndex of each FSM, which survives a reboot
    led,      \* history: nodes that have applied a change ahead of raft since boot
    lost,     \* history: a leader has taken a change that is never committed
    clock, elections, reboots

raftVars == <<members, leader, elections>>
fsmVars == <<applied, batch, saved>>
vars == <<raftVars, log, calls, mem, fsmVars, led, lost, clock, reboots>>

Membership == [id |-> 0, change |-> [cmd |-> "membership", ns |-> ""]]

\* The memory of a new process.
NewMemory ==
    [config |-> InitConfig, routers |-> [ns \in Namespace |-> NoRoutes], pending |-> FALSE,
     logs |-> <<>>, hash |-> <<>>, restarts |-> 0, lock |-> "free"]

Init ==
    /\ members = {First} /\ leader = First
    /\ log = <<Membership>>
    /\ calls = {}
    /\ mem = [n \in Node |-> NewMemory]
    /\ applied = [n \in Node |-> 0]
    /\ batch = [n \in Node |-> 0]
    /\ saved = [n \in Node |-> 0]
    /\ led = {} /\ lost = FALSE
    /\ clock = 0 /\ elections = 0 /\ reboots = 0

-----------------------------------------------------------------------------
(* processChangeLog on a node's memory *)

Accepted(m, c, reload) ==
    /\ Outcome(m.config, c) = "ok"
    /\ ~(/\ reload /\ (m.pending \/ IsRelatedToRoutes(c))
         /\ SetupRoutesFails(Changed(m.config, c), c.ns, m.pending))

\* The tables and pendingChanges after the reload, or after going without it.
Reloaded(m, S, c, reload) ==
    IF ~reload THEN [m EXCEPT !.config = S, !.pending = TRUE]
    ELSE IF ~(m.pending \/ IsRelatedToRoutes(c)) THEN [m EXCEPT !.config = S]
    ELSE [m EXCEPT !.config = S,
                   !.routers = SetupRoutes(S, @, c.ns, m.pending),
                   !.pending = m.pending /\ SetupRoutesFails(S, c.ns, m.pending)]

\* With raft nothing is stored; store decides whether the log joins changeLogs,
\* which it does once.
Recorded(m, id, store) ==
    LET known == m.logs # <<>> /\ m.logs[Len(m.logs)] = id
    IN [m EXCEPT !.hash = Append(@, id),
                 !.logs = IF store /\ ~known THEN Append(@, id) ELSE @]

\* A refusal by the manager starts one restart, a refusal by the router two.
processChangeLog(m, l, reload, store) ==
    LET c == l.change
        m2 == Reloaded(m, Changed(m.config, c), c, reload)
    IN IF Outcome(m.config, c) # "ok" THEN [m EXCEPT !.restarts = @ + 1]
       ELSE IF Accepted(m, c, reload) THEN Recorded(m2, l.id, store)
       ELSE [m2 EXCEPT !.restarts = @ + 2]

-----------------------------------------------------------------------------
(* Calls *)

\* A handler stamps its change log and calls ApplyChangeLog, which goes on where
\* the node is the leader and returns ErrNotLeader elsewhere.
NewCall(c) ==
    /\ clock < MaxCalls /\ Cardinality(calls) < MaxInFlight
    /\ clock' = clock + 1
    /\ calls' = calls \cup {[node |-> leader, id |-> clock + 1, change |-> c, at |-> "local"]}
    /\ UNCHANGED <<raftVars, log, mem, fsmVars, led, lost, reboots>>

\* The leader applies the change to its own state, without changeLogs.  What its
\* router refuses stays in its configuration.
ApplyLocally(k) ==
    /\ k.at = "local" /\ mem[k.node].lock = "free"
    /\ mem' = [mem EXCEPT ![k.node] = processChangeLog(@, k, TRUE, FALSE)]
    /\ calls' = (calls \ {k}) \cup
                (IF Accepted(mem[k.node], k.change, TRUE) THEN {[k EXCEPT !.at = "raft"]} ELSE {})
    /\ led' = led \cup {k.node}
    /\ lost' = (lost \/ (/\ Outcome(mem[k.node].config, k.change) = "ok"
                         /\ ~Accepted(mem[k.node], k.change, TRUE)))
    /\ UNCHANGED <<raftVars, log, fsmVars, clock, reboots>>

\* ApplyLog: committed, also by the next leader if this one had the entry out in
\* time; or refused, or never committed, because the node has lost the lead.
ApplyLog(k) ==
    /\ k.at = "raft"
    /\ calls' = calls \ {k}
    /\ \/ /\ log' = Append(log, [id |-> k.id, change |-> k.change])
          /\ UNCHANGED lost
       \/ /\ k.node # leader
          /\ lost' = TRUE
          /\ UNCHANGED log
    /\ UNCHANGED <<raftVars, mem, fsmVars, led, clock, reboots>>

-----------------------------------------------------------------------------
(* The FSM of a node *)

\* The ends a batch may have: it is fixed when its first entry is applied.
BatchEnds(n) == IF batch[n] > applied[n] THEN {batch[n]} ELSE (applied[n] + 1)..Len(log)

\* Mutant of shouldReload: the entry at the saved index is left out too.
shouldReloadAfter(n, i, end) == i = end /\ i > saved[n]

\* Only the last entry of a batch reloads, and no entry before the saved index.
shouldReload(n, i, end) == i = end /\ i >= saved[n]

\* The end of a batch is saved, unless raft's own AppliedIndex, which it moves on
\* as it hands batches over, is still 0 or already beyond it.
saveFSMState(n, i, end) ==
    \/ UNCHANGED saved
    \/ i = end /\ saved' = [saved EXCEPT ![n] = end]

\* Mutant of ApplyBatch: only what reloads is applied.
ApplyBatchReloading(n) ==
    /\ n \in members /\ applied[n] < Len(log) /\ mem[n].lock = "free"
    /\ \E end \in BatchEnds(n) :
        LET i == applied[n] + 1
        IN /\ mem' = IF log[i] = Membership \/ ~shouldReload(n, i, end) THEN mem
                     ELSE [mem EXCEPT ![n] = processChangeLog(@, log[i], TRUE, TRUE)]
           /\ applied' = [applied EXCEPT ![n] = i]
           /\ batch' = [batch EXCEPT ![n] = end]
           /\ saveFSMState(n, i, end)
    /\ UNCHANGED <<raftVars, log, calls, led, lost, clock, reboots>>

\* Mutant of ApplyBatch: a node that applied changes ahead skips the entries.
ApplyBatchSkippingOwn(n) ==
    /\ n \in members /\ applied[n] < Len(log) /\ mem[n].lock = "free"
    /\ \E end \in BatchEnds(n) :
        LET i == applied[n] + 1
        IN /\ mem' = IF log[i] = Membership \/ n \in led THEN mem
                     ELSE [mem EXCEPT ![n] =
                             processChangeLog(@, log[i], shouldReload(n, i, end), TRUE)]
           /\ applied' = [applied EXCEPT ![n] = i]
           /\ batch' = [batch EXCEPT ![n] = end]
           /\ saveFSMState(n, i, end)
    /\ UNCHANGED <<raftVars, log, calls, led, lost, clock, reboots>>

\* One entry of ApplyBatch: proxyLock is taken for each.  A membership entry
\* only logs, also as the last of its batch.
ApplyBatch(n) ==
    /\ n \in members /\ applied[n] < Len(log) /\ mem[n].lock = "free"
    /\ \E end \in BatchEnds(n) :
        LET i == applied[n] + 1
        IN /\ mem' = IF log[i] = Membership THEN mem
                     ELSE [mem EXCEPT ![n] =
                             processChangeLog(@, log[i], shouldReload(n, i, end), TRUE)]
           /\ applied' = [applied EXCEPT ![n] = i]
           /\ batch' = [batch EXCEPT ![n] = end]
           /\ saveFSMState(n, i, end)
    /\ UNCHANGED <<raftVars, log, calls, led, lost, clock, reboots>>

\* restartState with raft: without change logs it returns, and the tables stay
\* empty; with change logs it waits for the lock it holds.
restartState(n) ==
    /\ mem[n].restarts > 0 /\ mem[n].lock = "free"
    /\ mem' = [mem EXCEPT ![n].restarts = @ - 1, ![n].hash = <<>>, ![n].pending = FALSE,
                          ![n].routers = NewMemory.routers,
                          ![n].lock = IF mem[n].logs = <<>> THEN "free" ELSE "restarting"]
    /\ UNCHANGED <<raftVars, log, calls, fsmVars, led, lost, clock, reboots>>

-----------------------------------------------------------------------------
(* The cluster *)

\* setupRaft of a node without a configuration: it finds the leader and asks it
\* for AddVoter or AddNonvoter.
Join(n) ==
    /\ n \notin members
    /\ members' = members \cup {n}
    /\ log' = Append(log, Membership)
    /\ UNCHANGED <<leader, elections, calls, mem, fsmVars, led, lost, clock, reboots>>

Elect(n) ==
    /\ n \in members \ {leader} /\ elections < MaxElections
    /\ leader' = n
    /\ elections' = elections + 1
    /\ UNCHANGED <<members, log, calls, mem, fsmVars, led, lost, clock, reboots>>

\* A process dies and starts again: there are no snapshots and with raft Start
\* restores nothing, so the FSM is given the log from its beginning.
Reboot(n) ==
    /\ n \in members /\ reboots < MaxReboots
    /\ reboots' = reboots + 1
    /\ mem' = [mem EXCEPT ![n] = NewMemory]
    /\ calls' = {k \in calls : k.node # n}
    /\ lost' = (lost \/ \E k \in calls : k.node = n /\ k.at = "raft")
    /\ applied' = [applied EXCEPT ![n] = 0]
    /\ batch' = [batch EXCEPT ![n] = 0]
    /\ led' = led \ {n}
    /\ UNCHANGED <<raftVars, log, saved, clock>>

Next ==
    \/ \E c \in Request : NewCall(c)
    \/ \E k \in calls : ApplyLocally(k) \/ ApplyLog(k)
    \/ \E n \in Node : \/ ApplyBatch(n) \/ restartState(n)
                       \/ Join(n) \/ Elect(n) \/ Reboot(n)

Spec == Init /\ [][Next]_vars

-----------------------------------------------------------------------------
(* Properties *)

\* The changes among the first i entries, and their IDs.
Commands(i) ==
    LET upTo[j \in 0..i] ==
          IF j = 0 THEN <<>>
          ELSE IF log[j] = Membership THEN upTo[j - 1] ELSE Append(upTo[j - 1], log[j])
    IN upTo[i]
CommittedChanges(i) == [j \in DOMAIN Commands(i) |-> Commands(i)[j].change]
CommittedIDs(i) == [j \in DOMAIN Commands(i) |-> Commands(i)[j].id]

Settled(n) == mem[n].lock = "free" /\ mem[n].restarts = 0

\* State machine safety: a node that only follows the log has the configuration
\* that the log builds, and when nothing was refused on it also the log's IDs and
\* hash, whatever batches the entries came in and however often it was rebooted.
FollowersReplay ==
    \A n \in Node \ led :
        LET changes == CommittedChanges(applied[n])
        IN /\ mem[n].config = Replay(changes)
           /\ (Replayable(changes) /\ \A c \in Range(changes) : ~AsksRefused(c))
                => (mem[n].logs = CommittedIDs(applied[n]) /\ mem[n].hash = mem[n].logs)

\* The leader applies changes twice, in the order of its calls and in that of the
\* log; where nothing is deleted, no call failed in between and the log can be
\* replayed, it ends with what the log builds, as its followers do.
LeaderConverges ==
    \A n \in led :
        (/\ Settled(n) /\ calls = {} /\ ~lost /\ applied[n] = Len(log)
         /\ Replayable(CommittedChanges(Len(log)))
         /\ \A c \in Range(CommittedChanges(Len(log))) :
               c.cmd \in {"add_namespace", "add_service", "add_domain", "add_route"})
        => mem[n].config = Replay(CommittedChanges(Len(log)))

\* A node that follows has the log's routes in its tables once it has applied the
\* latest entry, however the entries were cut into batches and also when a reboot
\* has it replay them below the saved index; but the entry must be a change, since
\* a membership entry at the end of a batch reloads nothing.
CaughtUpServes ==
    \A n \in members \ led :
        LET changes == CommittedChanges(Len(log))
        IN (/\ Settled(n) /\ applied[n] = Len(log) /\ log[Len(log)] # Membership
            /\ Replayable(changes) /\ \A c \in Range(changes) : ~AsksRefused(c))
           => \A ns \in Namespace :
                RoutesOf(mem[n].config, ns) # {} => mem[n].routers[ns] = mem[n].config.routes[ns]
=============================================================================
