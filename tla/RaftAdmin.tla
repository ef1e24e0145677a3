------------------------------ MODULE RaftAdmin ------------------------------
(***************************************************************************)
(* Administration of the raft cluster over HTTP: the server and the client *)
(* of pkg/raftadmin, and the goroutine of setupRaft in which a new node    *)
(* asks the cluster to add it.  Commands are taken by what the code tells  *)
(* apart: with a body or without, for the leader or for any node, answered *)
(* by a future or at once.                                                 *)
(***************************************************************************)
EXTENDS RaftTransport, Sequences

CONSTANTS
    WatchOnly,      \* the new node asks for a membership without a vote
    Discovered,     \* what the discovery domain stands for, as nodes; empty without one
    ClusterAddrs,   \* the configured addresses, as nodes
    OpsCommand,     \* what another client may ask for
    JoinRetries     \* after how many retries the joining node skips an address

VARIABLES
    operations,   \* the tokens of the server's map of futures
    member,       \* the suffrage of the joining node in the configuration
    adds,         \* history: committed entries that add the node
    join          \* the goroutine of the joining node

adminVars == <<operations, member, adds, join>>
vars == <<transportVars, adminVars>>

\* The commands, by what the server does with them; of the rest of the commands
\* none is modelled.
Body == {"AddVoter", "AddNonvoter"}               \* change the configuration
Empty == {"VerifyLeader", "LeadershipTransfer"}   \* the server reads no body
Read == {"GetConfiguration"}                      \* answered at once, by any node

\* setupRaft adds the configured addresses to the discovered ones, twice.
Addresses == Discovered \o (ClusterAddrs \o ClusterAddrs)

\* Somebody can be asked: without an address the goroutine ends at once.  The
\* other client adds no nodes.
ASSUME JoinAssumption ==
    /\ WatchOnly \in BOOLEAN
    /\ {Discovered, ClusterAddrs} \subseteq Seq(Node) /\ Addresses # <<>>
    /\ JoinRetries \in Nat /\ OpsCommand \cap Body = {}
    /\ {"join", "ops", Peer} \subseteq Caller

JoinStart == [at |-> "verify", i |-> 1, retries |-> 0]

Init ==
    /\ TransportInit
    /\ operations = {} /\ member = "none" /\ adds = 0
    /\ join = JoinStart

Token(h) == <<h.caller, h.id>>

-----------------------------------------------------------------------------
(* The server *)

cmdRequiresLeader(cmd) == cmd \notin Read

\* ServeHTTP up to the future.
ServeHTTP(h) ==
    /\ h.caller # Peer /\ h.at = "new"
    /\ \/ /\ cmdRequiresLeader(h.cmd) /\ known[h.node] # h.node
          /\ serving' = IF known[h.node] = NoNode THEN Answered(h, 503, NoNode)
                        ELSE Answered(h, Redirect, known[h.node])
          /\ UNCHANGED operations
       \/ /\ ~cmdRequiresLeader(h.cmd) \/ known[h.node] = h.node
          /\ h.cmd \notin Body \cup Empty
          /\ serving' = Answered(h, IF h.cmd \in Read THEN 200 ELSE 400, NoNode)
          /\ UNCHANGED operations
       \/ /\ known[h.node] = h.node /\ h.cmd \in Body \cup Empty
          /\ serving' = (serving \ {h}) \cup {[h EXCEPT !.at = "await", !.future = "pending"]}
          /\ operations' = operations \cup {Token(h)}
    /\ UNCHANGED <<call, faults, lost, raftVars, sent, ran, member, adds, join>>

\* Await and genericResponse: the future is done, or the client has gone.
Await(h) ==
    /\ h.at = "await"
    /\ \/ /\ h.future \in {"ok", "error"}
          /\ serving' = Answered(h, IF h.future = "ok" THEN 202 ELSE 400, NoNode)
       \/ /\ h.gone
          /\ serving' = Answered(h, 500, NoNode)
    /\ operations' = operations \ {Token(h)}
    /\ UNCHANGED <<call, faults, lost, raftVars, sent, ran, member, adds, join>>

-----------------------------------------------------------------------------
(* Raft *)

Resolve(h, result) == serving' = (serving \ {h}) \cup {[h EXCEPT !.future = result]}

\* The leader has its lead confirmed, or takes up a configuration change when
\* none is in progress; a node that has lost the lead refuses.  A transfer ends
\* with the lead, or when it takes too long.
RaftTakes(h) ==
    /\ h.at = "await" /\ h.future = "pending"
    /\ \/ leader # h.node /\ h.cmd # "LeadershipTransfer" /\ Resolve(h, "error") /\ UNCHANGED entry
       \/ leader = h.node /\ h.cmd = "VerifyLeader" /\ Resolve(h, "ok") /\ UNCHANGED entry
       \/ /\ leader = h.node /\ h.cmd \in Body /\ entry = NoEntry
          /\ Resolve(h, "proposed")
          /\ entry' = [op |-> h.cmd, by |-> h.node, caller |-> h.caller, id |-> h.id,
                       at |-> {h.node}, acks |-> {h.node}]
       \/ h.cmd = "LeadershipTransfer" /\ leader # h.node /\ Resolve(h, "ok") /\ UNCHANGED entry
       \/ h.cmd = "LeadershipTransfer" /\ leader = h.node /\ Resolve(h, "error") /\ UNCHANGED entry
    /\ UNCHANGED <<call, faults, lost, leader, known, elections, sent, ran, adminVars>>

\* A majority has acknowledged the entry.
Commit ==
    /\ entry # NoEntry /\ leader = entry.by
    /\ 2 * Cardinality(entry.acks) > Cardinality(Node)
    /\ entry' = NoEntry
    /\ member' = IF entry.op = "AddVoter" THEN "voter" ELSE "nonvoter"
    /\ adds' = adds + 1
    /\ serving' = {IF Token(h) = <<entry.caller, entry.id>> /\ h.future = "proposed"
                   THEN [h EXCEPT !.future = "ok"] ELSE h : h \in serving}
    /\ UNCHANGED <<call, faults, lost, leader, known, elections, sent, ran, operations, join>>

-----------------------------------------------------------------------------
(* Clients *)

\* The discovery domain cannot be resolved: setupRaft panics before any call.
LookupFails ==
    /\ join = JoinStart /\ Discovered # <<>> /\ faults < MaxFaults
    /\ faults' = faults + 1
    /\ join' = [join EXCEPT !.at = "panic"]
    /\ UNCHANGED <<call, serving, lost, raftVars, sent, ran, operations, member, adds>>

\* VerifyLeader of the client.
Verify ==
    /\ join.at = "verify" /\ call["join"].at = "idle"
    /\ call' = [call EXCEPT !["join"] = Begun(Addresses[join.i], "VerifyLeader", "none")]
    /\ join' = [join EXCEPT !.at = "verifying"]
    /\ UNCHANGED <<serving, faults, lost, raftVars, sent, ran, operations, member, adds>>

\* The leader was verified: AddVoter or AddNonvoter through the same address.
Verified ==
    /\ join.at = "verifying" /\ call["join"].at = "ended" /\ call["join"].status \in {200, 202}
    /\ call' = [call EXCEPT !["join"] =
                  Begun(Addresses[join.i], IF WatchOnly THEN "AddNonvoter" ELSE "AddVoter", "full")]
    /\ join' = [join EXCEPT !.at = "adding"]
    /\ UNCHANGED <<serving, faults, lost, raftVars, sent, ran, operations, member, adds>>

\* Mutant of NextAddress: the first error ends the search.
NextAddressNone == [join EXCEPT !.at = "panic"]

\* Mutant of NextAddress: the retries are not counted.
NextAddressForever == [join EXCEPT !.at = "verify", !.i = 1]

\* An error: from the first address again, or, when there were too many, on to
\* the next, of which the last ends in a panic.  The client never reports
\* ErrNotLeader, as net/http follows the redirect.
NextAddress ==
    IF join.retries <= JoinRetries
    THEN [at |-> "verify", i |-> 1, retries |-> join.retries + 1]
    ELSE IF join.i = Len(Addresses) THEN [join EXCEPT !.at = "panic"]
    ELSE [join EXCEPT !.at = "verify", !.i = @ + 1]

NotVerified ==
    /\ join.at = "verifying" /\ call["join"].at = "ended" /\ call["join"].status \notin {200, 202}
    /\ call' = [call EXCEPT !["join"] = Idle]
    /\ join' = NextAddress
    /\ UNCHANGED <<serving, faults, lost, raftVars, sent, ran, operations, member, adds>>

\* Mutant of Added: any answer counts.
AddedAnyway ==
    /\ join.at = "adding" /\ call["join"].at = "ended"
    /\ call' = [call EXCEPT !["join"] = Idle]
    /\ join' = [join EXCEPT !.at = IF call["join"].status # 0 THEN "joined" ELSE "panic"]
    /\ UNCHANGED <<serving, faults, lost, raftVars, sent, ran, operations, member, adds>>

\* Mutant of Added: after an error the node starts over.
AddedRetrying ==
    /\ join.at = "adding" /\ call["join"].at = "ended"
    /\ call' = [call EXCEPT !["join"] = Idle]
    /\ join' = IF call["join"].status = 202 THEN [join EXCEPT !.at = "joined"] ELSE NextAddress
    /\ UNCHANGED <<serving, faults, lost, raftVars, sent, ran, operations, member, adds>>

Added ==
    /\ join.at = "adding" /\ call["join"].at = "ended"
    /\ call' = [call EXCEPT !["join"] = Idle]
    /\ join' = [join EXCEPT !.at = IF call["join"].status = 202 THEN "joined" ELSE "panic"]
    /\ UNCHANGED <<serving, faults, lost, raftVars, sent, ran, operations, member, adds>>

\* Another client's one command, to the first address.  For a transfer of the
\* lead the client sends a body, which the server leaves alone.
OpsCall(cmd) ==
    /\ call["ops"] = Idle
    /\ call' = [call EXCEPT !["ops"] =
                  Begun(Addresses[1], cmd, IF cmd = "LeadershipTransfer" THEN "full" ELSE "none")]
    /\ UNCHANGED <<serving, faults, lost, raftVars, sent, ran, adminVars>>

\* The client returns the answer.
OpsReturns ==
    /\ call["ops"].at = "ended" /\ call["ops"].target # NoNode
    /\ call' = [call EXCEPT !["ops"] = [Idle EXCEPT !.at = "ended", !.cmd = call["ops"].cmd]]
    /\ UNCHANGED <<serving, faults, lost, raftVars, sent, ran, adminVars>>

-----------------------------------------------------------------------------
AdminSteps ==
    \/ \E h \in serving : ServeHTTP(h) \/ Await(h) \/ RaftTakes(h)
    \/ Commit
    \/ Verify \/ Verified \/ NotVerified \/ Added \/ OpsReturns

Steps ==
    \/ AdminSteps
    \/ \E c \in Caller : HttpSteps(c) /\ UNCHANGED <<raftVars, sent, ran, adminVars>>
    \/ TransportSteps /\ UNCHANGED adminVars

Next ==
    \/ Steps
    \/ \E cmd \in OpsCommand : OpsCall(cmd)
    \/ \E c \in Caller : HttpFaults(c) /\ UNCHANGED <<raftVars, sent, ran, adminVars>>
    \/ LookupFails
    \/ TransportFaults /\ UNCHANGED adminVars

\* Requests are delivered and answered, raft keeps replicating: every step that
\* is not a fault or a new command is taken in the end.
Spec == Init /\ [][Next]_vars /\ WF_vars(Steps)

-----------------------------------------------------------------------------
(* Properties *)

\* Every variable has its type.
TypeOK ==
    /\ leader \in Node /\ known \in [Node -> Node \cup {NoNode}]
    /\ \A c \in Caller : /\ call[c].at \in {"idle", "send", "wait", "ended"}
                         /\ call[c].body \in {"none", "full", "read"}
                         /\ call[c].tries <= Retries[c] + 1 /\ call[c].hops <= MaxHops
    /\ \A h \in serving : h.at \in {"new", "await", "done"} /\ h.node \in Node
    /\ join.at \in {"verify", "verifying", "adding", "joined", "panic"}
    /\ join.i \in 1..Len(Addresses) /\ join.retries \in 0..(JoinRetries + 1)
    /\ member \in {"none", "voter", "nonvoter"} /\ ran \in Nat /\ adds \in Nat

\* Tokens of futures do not pile up in the server's map: each belongs to a
\* handler that still waits, also after its client has gone (server.go:73).
TokensAwaited == operations = {Token(h) : h \in {g \in serving : g.at = "await"}}

\* A command that is tried again takes effect twice only when an answer was lost:
\* over redirects, failed connections, retries with a new copy of the body and
\* changes of the lead, the node is added by one entry, and a peer executes what
\* the leader sends it once (client.go:443, rafthttp.go:74).
TwiceOnlyIfLost == /\ "join" \notin lost => adds <= 1
                   /\ Peer \notin lost => ran <= 1

\* The variables have their types, and commands take effect once, unless an answer
\* was lost, and leave nothing behind in the server.
CommandsAccounted == TypeOK /\ TokensAwaited /\ TwiceOnlyIfLost

\* A node that reports that it has joined was added, with the suffrage it asked
\* for, however the lead changed in the meantime and however often its request
\* was executed.
JoinedIsMember ==
    join.at = "joined" =>
        adds >= 1 /\ member = IF WatchOnly THEN "nonvoter" ELSE "voter"

\* In a cluster that keeps its leader and a network that loses nothing the new
\* node does not panic, also while a node it asks does not know the leader yet.
HealthyClusterAdmits == (faults = 0 /\ elections = 0) => join.at # "panic"

\* The joining goroutine comes to an end, through retries, redirects, elections
\* and answers that never come.
JoinEnds == <>(join.at \in {"joined", "panic"})

\* Every command of the other client is answered or given up.
OpsAnswered == [](call["ops"].at = "send" => <>(call["ops"].at = "ended"))

\* The joining node and the other client come to an end.
CallersEnd == JoinEnds /\ OpsAnswered
=============================================================================
