---------------------------- MODULE RaftTransport ----------------------------
(***************************************************************************)
(* The transport of pkg/rafthttp: the leader's calls to its peers and the  *)
(* handler that hands them to raft.  hashicorp/raft is external: a leader  *)
(* and what each node knows of it, and one configuration entry at a time   *)
(* that is committed when a majority has acknowledged it.                  *)
(***************************************************************************)
EXTENDS HttpCall

CONSTANTS
    First,         \* the leader at the start
    MaxElections   \* bound: changes of the leader, of which those not asked for are faults

ASSUME TransportAssumption == First \in Node /\ MaxElections \in Nat

VARIABLES
    leader,     \* the latest elected
    known,      \* what each node takes for the leader
    entry,      \* the uncommitted configuration entry, or NoEntry
    sent,       \* what the call in flight carries
    ran,        \* history: how often the call in flight has been executed
    elections

raftVars == <<leader, known, entry, elections>>
transportVars == <<httpVars, raftVars, sent, ran>>

Peer == "peer"   \* the caller that stands for the leader's calls to its peers

NoEntry == [op |-> "none", by |-> NoNode, caller |-> "", id |-> 0, at |-> {}, acks |-> {}]

TransportInit ==
    /\ HttpInit
    /\ leader = First
    /\ known \in {[n \in Node |-> IF n = First \/ n \in S THEN First ELSE NoNode] :
                    S \in SUBSET Node}
    /\ entry = NoEntry
    /\ sent = [from |-> NoNode, entry |-> FALSE]
    /\ ran = 0 /\ elections = 0

Free(c) == call[c].at = "idle" /\ ~\E h \in serving : h.caller = c

\* AppendEntries, when the peer does not know the leader or lacks the entry.
AppendEntries(n, m) ==
    /\ known[n] = n /\ m # n /\ Free(Peer)
    /\ (leader = n /\ known[m] # n) \/ (entry.by = n /\ m \notin entry.acks)
    /\ call' = [call EXCEPT ![Peer] = Begun(m, "AppendEntries", "full")]
    /\ sent' = [from |-> n, entry |-> entry.by = n]
    /\ ran' = 0
    /\ UNCHANGED <<serving, faults, lost, raftVars>>

\* The leader asks a peer to take over.
TimeoutNow(h, m) ==
    /\ h.cmd = "LeadershipTransfer" /\ h.at = "await" /\ h.future = "pending"
    /\ leader = h.node /\ m # h.node /\ Free(Peer) /\ elections < MaxElections
    /\ call' = [call EXCEPT ![Peer] = Begun(m, "TimeoutNow", "full")]
    /\ sent' = [from |-> h.node, entry |-> FALSE]
    /\ ran' = 0
    /\ UNCHANGED <<serving, faults, lost, raftVars>>

\* The call has ended; an acknowledgement counts for the entry it carried.
SendReturns ==
    /\ call[Peer].at = "ended"
    /\ call' = [call EXCEPT ![Peer] = Idle]
    /\ entry' = IF call[Peer].status = 200 /\ sent.entry /\ entry.by = sent.from
                THEN [entry EXCEPT !.acks = @ \cup {call[Peer].target}] ELSE entry
    /\ UNCHANGED <<serving, faults, lost, leader, known, elections, sent, ran>>

\* A new leader keeps an entry it has; the future of the old one fails.
Elected(n, handlers) ==
    /\ leader' = n
    /\ known' = [known EXCEPT ![n] = n]
    /\ elections' = elections + 1
    /\ entry' = IF n \in entry.at THEN [entry EXCEPT !.by = n, !.acks = {n}] ELSE NoEntry
    /\ serving' = {IF h.future = "proposed" THEN [h EXCEPT !.future = "error"] ELSE h :
                     h \in handlers}

\* handle gives the request to raft's channel, which is not buffered; raft
\* executes it and answers, and the handler passes the answer on.
handle(h) ==
    /\ h.caller = Peer /\ h.at = "new"
    /\ ran' = ran + 1
    /\ UNCHANGED <<call, faults, lost, sent>>
    /\ IF h.cmd = "TimeoutNow" /\ leader = sent.from /\ elections < MaxElections
       THEN Elected(h.node, Answered(h, 200, NoNode))
       ELSE /\ serving' = Answered(h, 200, NoNode)
            /\ UNCHANGED <<leader, elections>>
            /\ IF h.cmd = "AppendEntries" /\ leader = sent.from
               THEN /\ known' = [known EXCEPT ![h.node] = sent.from]
                    /\ entry' = IF sent.entry /\ entry.by = sent.from
                                THEN [entry EXCEPT !.at = @ \cup {h.node}] ELSE entry
               ELSE UNCHANGED <<known, entry>>

\* Raft answers with an error.
handleFails(h) ==
    /\ h.caller = Peer /\ h.at = "new" /\ faults < MaxFaults
    /\ faults' = faults + 1
    /\ serving' = Answered(h, 400, NoNode)
    /\ UNCHANGED <<call, lost, raftVars, sent, ran>>

\* A peer misses the leader and wins an election.
Elect(n) ==
    /\ n # leader /\ elections < MaxElections /\ faults < MaxFaults
    /\ faults' = faults + 1
    /\ Elected(n, serving)
    /\ UNCHANGED <<call, lost, sent, ran>>

\* A leader that was replaced notices.
StepDown(n) ==
    /\ known[n] = n /\ leader # n
    /\ known' = [known EXCEPT ![n] = NoNode]
    /\ UNCHANGED <<httpVars, leader, entry, elections, sent, ran>>

\* A follower misses the leader for a while.
LoseContact(n) ==
    /\ known[n] \notin {n, NoNode} /\ faults < MaxFaults
    /\ faults' = faults + 1
    /\ known' = [known EXCEPT ![n] = NoNode]
    /\ UNCHANGED <<call, serving, lost, leader, entry, elections, sent, ran>>

TransportSteps ==
    \/ \E n, m \in Node : AppendEntries(n, m)
    \/ \E h \in serving : handle(h) \/ \E m \in Node : TimeoutNow(h, m)
    \/ SendReturns
    \/ \E n \in Node : StepDown(n)

TransportFaults ==
    \/ \E h \in serving : handleFails(h)
    \/ \E n \in Node : Elect(n) \/ LoseContact(n)
=============================================================================
