----------------------------- MODULE AdminProofs -----------------------------
(***************************************************************************)
(* Proofs about the admin API: RaftAdmin, for any cluster, any commands    *)
(* and any number of faults, retries and elections; and AdminHandlers, for *)
(* any documents, any number of requests, of changes by another leader and *)
(* of changes of the lead.                                                 *)
(*                                                                         *)
(* In RaftAdmin a command's way is followed through three records: the     *)
(* call at its caller, the handler at a node and the token of its effect.  *)
(* Base says how the three go together, Effects that a command of which no *)
(* answer is lost takes effect once, and Healthy what is never seen        *)
(* without faults.  In                                                     *)
(* AdminHandlers a call is followed from the handler's check through the   *)
(* log to the store (HandlersInv).                                         *)
(***************************************************************************)
EXTENDS RaftAdmin, AdminHandlers, FiniteSetTheorems, SequenceTheorems, WellFoundedInduction, TLAPS

-----------------------------------------------------------------------------
(* RaftAdmin *)


Command ==
    Body \cup Empty \cup Read \cup OpsCommand \cup {"", "none", "AppendEntries", "TimeoutNow"}

MaybeNode == Node \cup {NoNode}
CallAt == {"idle", "send", "wait", "ended"}
BodyAt == {"none", "full", "read"}
ServedAt == {"new", "await", "done"}
Future == {"none", "pending", "proposed", "ok", "error"}

CallRecord ==
    [at : CallAt, cmd : Command, target : MaybeNode, to : MaybeNode, hops : Nat, tries : Nat,
     id : Nat, body : BodyAt, status : Nat]

Request ==
    [caller : Caller, id : Nat, node : Node, cmd : Command, at : ServedAt, future : Future,
     status : Nat, hint : MaybeNode, gone : BOOLEAN]

Entry ==
    [op : Command, by : MaybeNode, caller : Caller \cup {""}, id : Nat, at : SUBSET Node,
     acks : SUBSET Node]

Joining ==
    [at : {"verify", "verifying", "adding", "joined", "panic"}, i : 1..Len(Addresses),
     retries : 0..(JoinRetries + 1)]

\* A call under way has its targets and keeps within its limits.
CallTyped(c, k) ==
    /\ k \in CallRecord
    /\ k.at \in {"send", "wait"} => k.target \in Node /\ k.to \in Node
    /\ k.at = "ended" /\ c # "ops" => k.target \in Node
    /\ k.at = "wait" => k.body # "full"
    /\ k.tries <= Retries[c] + 1 /\ k.hops <= MaxHops

RaftTyped ==
    /\ leader \in Node /\ known \in [Node -> Node \cup {NoNode}]
    /\ entry \in Entry /\ elections \in Nat /\ faults \in Nat
    /\ sent \in [from : Node \cup {NoNode}, entry : BOOLEAN] /\ ran \in Nat
    /\ sent.entry => sent.from \in Node

AdminTyped == member \in {"none", "voter", "nonvoter"} /\ adds \in Nat /\ join \in Joining

CallsTyped == call \in [Caller -> CallRecord] /\ \A c \in Caller : CallTyped(c, call[c])

\* The handler h and the call k of its caller: the caller waits for it unless it
\* has gone, and who is gone gets no answer.
Attended(h, k) ==
    /\ ~h.gone => k.at = "wait" /\ k.id = h.id /\ k.cmd = h.cmd /\ k.to = h.node
    /\ h.at = "done" => ~h.gone
    /\ h.at # "await" => h.future = "none"
    /\ (h.at = "done" /\ h.status = Redirect) => h.hint \in Node
    /\ h.caller = Peer => h.at # "await" /\ h.status # Redirect

\* The handlers S, the calls C and the tokens T go together.
Together(S, C, T) ==
    /\ S \subseteq Request /\ IsFiniteSet(S)
    /\ \A h \in S : Attended(h, C[h.caller])
    /\ \A g, h \in S : Token(g) = Token(h) => g = h
    /\ T = {Token(h) : h \in {g \in S : g.at = "await"}}

Base == RaftTyped /\ AdminTyped /\ CallsTyped /\ Together(serving, call, operations)

-----------------------------------------------------------------------------
JoinCmd == IF WatchOnly THEN "AddNonvoter" ELSE "AddVoter"

\* Only the joining node sends a command with a body, in its last call.
BodyCalls ==
    /\ \A c \in Caller : call[c].cmd \in Body =>
          c = "join" /\ join.at = "adding" /\ call[c].body # "none" /\ call[c].cmd = JoinCmd
    /\ join.at = "adding" => call["join"].cmd = JoinCmd

\* The command that adds the node has still to be delivered.
ToCome ==
    \/ join.at \in {"verify", "verifying"}
    \/ join.at = "adding" /\ call["join"].at = "send"

\* A handler that may still propose the entry, or has sent its caller on.
MayAdd(h) ==
    /\ h.cmd \in Body
    /\ \/ h.at = "new"
       \/ h.at = "await" /\ h.future = "pending"
       \/ h.at = "done" /\ h.status = Redirect

\* While no answer to the joining node was lost.
NodeOnce ==
    /\ ToCome => (\A h \in serving : h.cmd \notin Body) /\ entry = NoEntry /\ adds = 0
    /\ \A g, h \in serving : g.cmd \in Body /\ h.cmd \in Body => g = h
    /\ \A h \in serving : MayAdd(h) => entry = NoEntry /\ adds = 0
    /\ entry # NoEntry => adds = 0
    /\ adds <= 1

AddedOnce ==
    /\ "join" \notin lost => NodeOnce
    /\ \A h \in serving : h.cmd \in Body => h.cmd = JoinCmd
    /\ entry # NoEntry => entry.op = JoinCmd
    /\ adds >= 1 => member = IF WatchOnly THEN "nonvoter" ELSE "voter"

Succeeded(h) == h.future = "ok" \/ (h.at = "done" /\ h.status = 202)

\* Success is reported of an entry that was committed.
Reported ==
    /\ \A h \in serving : (h.cmd \in Body /\ Succeeded(h)) => adds >= 1
    /\ join.at = "adding" /\ call["join"].at = "ended" /\ call["join"].status = 202 => adds >= 1
    /\ join.at = "joined" => adds >= 1

\* What a peer executes it was sent once, while no answer of a peer was lost.
RanOnce ==
    /\ call[Peer].at = "send" => ran = 0 /\ \A h \in serving : h.caller # Peer
    /\ \A h \in serving : h.caller = Peer /\ h.at = "new" => ran = 0
    /\ \A g, h \in serving : g.caller = Peer /\ h.caller = Peer => g = h
    /\ ran <= 1

PeerOnce == Peer \notin lost => RanOnce

Effects == BodyCalls /\ AddedOnce /\ Reported /\ PeerOnce
-----------------------------------------------------------------------------
\* While nothing fails and nobody else is elected.
LeaderKept ==
    /\ leader = First /\ known[First] = First
    /\ \A n \in Node : known[n] \in {First, NoNode}

\* The handler h, with the leaders K that the nodes know and the joining node at a.
Served(h, K, a) ==
    /\ ~h.gone
    /\ h.at = "await" => h.node = First
    /\ h.future = "error" => h.cmd = "LeadershipTransfer"
    /\ h.caller = "join" =>
        /\ h.cmd \in Body \cup {"VerifyLeader"}
        /\ h.at = "done" =>
            \/ h.status = 202 /\ h.node = First
            \/ h.status = Redirect /\ h.hint = First /\ K[h.node] = First /\ h.node # First
            \/ h.status = 503 /\ h.node # First /\ a = "verifying"

\* The call k of the joining node j: to its target and from there to the leader.
Led(k, K, j) ==
    /\ k.at \in {"send", "wait"} =>
        /\ k.hops = 0 => k.to = k.target
        /\ k.hops > 0 => k.to = First /\ K[k.target] = First
    /\ k.at = "send" => k.body # "read"
    /\ j.at \in {"verify", "joined"} => k.at = "idle"
    /\ j.at = "adding" => K[k.target] = First
    /\ j.at \in {"verifying", "adding"} =>
        /\ k.at # "idle" /\ k.target = Addresses[j.i]
        /\ k.cmd = IF j.at = "adding" THEN JoinCmd ELSE "VerifyLeader"
    /\ k.at = "ended" =>
        \/ k.status = 202 /\ K[k.target] = First
        \/ k.status = 503 /\ k.target # First /\ j.at = "verifying"

\* The addresses before that of the joining node j are not the leader's.
NotPast(j) == j.at # "panic" /\ \A i \in 1..(j.i - 1) : Addresses[i] # First

Sound ==
    /\ LeaderKept /\ \A h \in serving : Served(h, known, join.at)
    /\ Led(call["join"], known, join) /\ NotPast(join)

Healthy == faults = 0 /\ elections = 0 => Sound
-----------------------------------------------------------------------------
\* The lemmas below follow the shapes of the actions.  A handler ends.
LEMMA HandlerRemoved ==
    ASSUME NEW S, NEW C, NEW T, Together(S, C, T), NEW h \in S
    PROVE  /\ Together(S \ {h}, C, IF h.at = "await" THEN T \ {Token(h)} ELSE T)
           /\ \A g \in S \ {h} : Token(g) # Token(h)
<1>1. /\ S \subseteq Request /\ IsFiniteSet(S) /\ \A g \in S : Attended(g, C[g.caller])
      /\ \A g, k \in S : Token(g) = Token(k) => g = k
      /\ T = {Token(g) : g \in {k \in S : k.at = "await"}}
    BY DEF Together
<1>2. IsFiniteSet(S \ {h})  BY <1>1, FS_RemoveElement
<1>3. (IF h.at = "await" THEN T \ {Token(h)} ELSE T)
        = {Token(g) : g \in {k \in S \ {h} : k.at = "await"}}
    BY <1>1, Zenon
<1> QED  BY <1>1, <1>2, <1>3, Zenon DEF Together

\* A handler begins, under a token of its own.
LEMMA HandlerAdded ==
    ASSUME NEW S, NEW C, NEW T, Together(S, C, T), NEW g \in Request,
           \A k \in S : Token(k) # Token(g), Attended(g, C[g.caller])
    PROVE  Together(S \cup {g}, C, IF g.at = "await" THEN T \cup {Token(g)} ELSE T)
<1>1. /\ S \subseteq Request /\ IsFiniteSet(S) /\ \A k \in S : Attended(k, C[k.caller])
      /\ \A h, k \in S : Token(h) = Token(k) => h = k
      /\ T = {Token(h) : h \in {k \in S : k.at = "await"}}
    BY DEF Together
<1>2. IsFiniteSet(S \cup {g})  BY <1>1, FS_AddElement
<1>3. (IF g.at = "await" THEN T \cup {Token(g)} ELSE T)
        = {Token(h) : h \in {k \in S \cup {g} : k.at = "await"}}
    BY <1>1, Zenon
<1>4. S \cup {g} \subseteq Request  BY <1>1
<1>5. \A k \in S \cup {g} : Attended(k, C[k.caller])  BY <1>1, Zenon
<1>6. \A h, k \in S \cup {g} : Token(h) = Token(k) => h = k  BY <1>1, Zenon
<1> QED  BY <1>2, <1>3, <1>4, <1>5, <1>6, Zenon DEF Together

\* A handler goes on.
LEMMA HandlerReplaced ==
    ASSUME NEW S, NEW C, NEW T, Together(S, C, T), NEW h \in S, NEW g \in Request,
           Token(g) = Token(h), Attended(g, C[g.caller])
    PROVE  /\ h.at = "await" /\ g.at = "await" => Together((S \ {h}) \cup {g}, C, T)
           /\ h.at = "await" /\ g.at # "await" =>
                Together((S \ {h}) \cup {g}, C, T \ {Token(h)})
           /\ h.at # "await" /\ g.at = "await" =>
                Together((S \ {h}) \cup {g}, C, T \cup {Token(h)})
           /\ h.at # "await" /\ g.at # "await" => Together((S \ {h}) \cup {g}, C, T)
<1>1. PICK U : U = IF h.at = "await" THEN T \ {Token(h)} ELSE T  OBVIOUS
<1>2. Together(S \ {h}, C, U) /\ \A k \in S \ {h} : Token(k) # Token(g)
    BY <1>1, HandlerRemoved, Zenon
<1>3. Together((S \ {h}) \cup {g}, C, IF g.at = "await" THEN U \cup {Token(g)} ELSE U)
    BY <1>2, HandlerAdded, Zenon
<1>4. h.at = "await" => Token(h) \in T  BY Zenon DEF Together
<1>5. CASE h.at = "await" /\ g.at = "await"
    <2>1. U \cup {Token(g)} = T  BY <1>1, <1>4, <1>5, Zenon
    <2> QED  BY <1>3, <1>5, <2>1, Zenon
<1>6. CASE h.at = "await" /\ g.at # "await"  BY <1>1, <1>3, <1>6, Zenon
<1>7. CASE h.at # "await" /\ g.at = "await"
    <2>1. U \cup {Token(g)} = T \cup {Token(h)}  BY <1>1, <1>7, Zenon
    <2> QED  BY <1>3, <1>7, <2>1, Zenon
<1>8. CASE h.at # "await" /\ g.at # "await"  BY <1>1, <1>3, <1>8, Zenon
<1> QED  BY <1>5, <1>6, <1>7, <1>8, Zenon

\* The futures of several handlers end at once.
LEMMA HandlersMapped ==
    ASSUME NEW S, NEW C, NEW T, Together(S, C, T), NEW f, DOMAIN f = S,
           \A h \in S : /\ f[h] \in Request /\ Token(f[h]) = Token(h) /\ f[h].at = h.at
                        /\ Attended(f[h], C[f[h].caller])
    PROVE  Together({f[h] : h \in S}, C, T)
<1> DEFINE R == {f[h] : h \in S}
<1>1. /\ S \subseteq Request /\ IsFiniteSet(S) /\ \A g \in S : Attended(g, C[g.caller])
      /\ \A g, k \in S : Token(g) = Token(k) => g = k
      /\ T = {Token(g) : g \in {k \in S : k.at = "await"}}
    BY DEF Together
<1>2. R \subseteq Request  OBVIOUS
<1>3. IsFiniteSet(R)
    <2>1. PICK F : F = [h \in S |-> f[h]]  OBVIOUS
    <2>2. F \in Surjection(S, R)  BY <2>1 DEF Surjection
    <2> QED  BY <2>2, <1>1, FS_Surjection
<1>4. \A g \in R : Attended(g, C[g.caller])  BY Zenon
<1>5. \A g, k \in R : Token(g) = Token(k) => g = k
    <2> SUFFICES ASSUME NEW g \in R, NEW k \in R, Token(g) = Token(k) PROVE g = k
        BY Zenon
    <2>1. PICK a \in S : g = f[a]  BY Zenon
    <2>2. PICK b \in S : k = f[b]  BY Zenon
    <2>3. Token(a) = Token(b)  BY <2>1, <2>2, Zenon
    <2> QED  BY <1>1, <2>1, <2>2, <2>3, Zenon
<1>6. T = {Token(g) : g \in {k \in R : k.at = "await"}}
    <2>1. ASSUME NEW x \in T PROVE x \in {Token(g) : g \in {k \in R : k.at = "await"}}
        <3>1. PICK g \in S : g.at = "await" /\ x = Token(g)  BY <1>1, ZenonT(60)
        <3>2. f[g] \in R /\ f[g].at = "await" /\ x = Token(f[g])  BY <3>1, Zenon
        <3> QED  BY <3>2, Zenon
    <2>2. ASSUME NEW x \in {Token(g) : g \in {k \in R : k.at = "await"}} PROVE x \in T
        <3>1. PICK g \in R : g.at = "await" /\ x = Token(g)  BY Zenon
        <3>2. PICK k \in S : g = f[k]  BY <3>1, Zenon
        <3>3. k \in {j \in S : j.at = "await"} /\ x = Token(k)  BY <3>1, <3>2, Zenon
        <3> QED  BY <1>1, <3>3, Zenon
    <2>3. PICK U : U = {Token(g) : g \in {k \in R : k.at = "await"}}  OBVIOUS
    <2>4. \A x : x \in T <=> x \in U  BY <2>1, <2>2, <2>3, Zenon
    <2>5. T = U  BY <2>4, Zenon
    <2> QED  BY <2>3, <2>5, Zenon
<1> QED  BY <1>2, <1>3, <1>4, <1>5, <1>6, Zenon DEF Together

\* The call of a caller whose handlers are all gone changes.
LEMMA CallChanged ==
    ASSUME NEW S, NEW C, NEW T, Together(S, C, T), DOMAIN C = Caller, NEW c \in Caller, NEW k,
           \A h \in S : h.caller = c => h.gone
    PROVE  Together(S, [C EXCEPT ![c] = k], T)
<1>1. PICK D : D = [C EXCEPT ![c] = k]  OBVIOUS
<1>2. ASSUME NEW h \in S PROVE Attended(h, D[h.caller])
    <2>1. h \in Request /\ Attended(h, C[h.caller])  BY DEF Together
    <2>2. CASE h.caller # c
        <3>1. D[h.caller] = C[h.caller]  BY <1>1, <2>1, <2>2 DEF Request
        <3> QED  BY <2>1, <3>1, Zenon
    <2>3. CASE h.caller = c  BY <2>1, <2>3 DEF Attended
    <2> QED  BY <2>2, <2>3
<1>3. Together(S, D, T)  BY <1>2, Zenon DEF Together
<1> QED  BY <1>1, <1>3, Zenon

\* The ID of a new handler is not in use.
LEMMA FreshIdIsNew ==
    ASSUME NEW c \in Caller, IsFiniteSet(serving), serving \subseteq Request
    PROVE  FreshId(c) \in Nat /\ \A h \in serving : h.caller = c => h.id # FreshId(c)
<1>1. PICK n : n = Cardinality(serving)  OBVIOUS
<1>2. n \in Nat  BY <1>1, FS_CardinalityType
<1>3. \E i \in 1..(n + 1) : \A h \in serving : h.caller = c => h.id # i
    <2> SUFFICES ASSUME \A i \in 1..(n + 1) : \E h \in serving : h.caller = c /\ h.id = i PROVE FALSE
        OBVIOUS
    <2>1. PICK f : f = [i \in 1..(n + 1) |-> CHOOSE h \in serving : h.caller = c /\ h.id = i]
        OBVIOUS
    <2>2. f \in [1..(n + 1) -> serving] /\ \A i \in 1..(n + 1) : f[i].id = i  BY <2>1
    <2>3. IsFiniteSet(1..(n + 1)) /\ Cardinality(1..(n + 1)) = n + 1
        <3>1. 1 \in Int /\ n + 1 \in Int /\ ~(1 > n + 1) /\ (n + 1) - 1 + 1 = n + 1  BY <1>2
        <3> QED  BY <3>1, FS_Interval
    <2>4. Cardinality(serving) < Cardinality(1..(n + 1))  BY <1>1, <1>2, <2>3
    <2>5. \E x, y \in 1..(n + 1) : x # y /\ f[x] = f[y]
        <3>1. PICK D : D = 1..(n + 1)  OBVIOUS
        <3>2. f \in [D -> serving] /\ IsFiniteSet(D) /\ IsFiniteSet(serving) /\ Cardinality(serving) < Cardinality(D)
            BY <2>2, <2>3, <2>4, <3>1
        <3>3. \E x, y \in D : x # y /\ f[x] = f[y]  BY <3>2, FS_PigeonHole, SMTT(30)
        <3> QED  BY <3>1, <3>3
    <2> QED  BY <2>2, <2>5
<1>4. PICK i : i = FreshId(c)  OBVIOUS
<1>5. i \in 1..(n + 1) /\ \A h \in serving : h.caller = c => h.id # i
    BY <1>1, <1>3, <1>4, Zenon DEF FreshId
<1> QED  BY <1>2, <1>4, <1>5

-----------------------------------------------------------------------------
(* Types, handlers and calls *)

LEMMA Members ==
    /\ {"idle", "send", "wait", "ended"} \subseteq CallAt
    /\ {"none", "full", "read"} \subseteq BodyAt
    /\ {"new", "await", "done"} \subseteq ServedAt
    /\ {"none", "pending", "proposed", "ok", "error"} \subseteq Future
    /\ NoNode \in MaybeNode /\ Node \subseteq MaybeNode
    /\ {"", "none", "VerifyLeader", "AddVoter", "AddNonvoter", "AppendEntries", "TimeoutNow"}
          \subseteq Command
    /\ OpsCommand \subseteq Command
BY DEF CallAt, BodyAt, ServedAt, Future, MaybeNode, Command, Body, Empty

\* A further attempt, at another node and with another number of tries.
LEMMA Redone ==
    ASSUME NEW c \in Caller, NEW k, CallTyped(c, k), k.at \in {"send", "wait"}, NEW to \in Node,
           NEW n \in Nat, n <= MaxHops, NEW b \in BodyAt, NEW t \in Nat, t <= Retries[c] + 1, NEW r,
           r = [k EXCEPT !.at = "send", !.tries = t, !.to = to, !.hops = n, !.body = b]
    PROVE  CallTyped(c, r)
<1>1. k \in CallRecord /\ k.target \in Node  BY DEF CallTyped
<1>2. "send" \in CallAt /\ to \in MaybeNode  BY Members
<1>3. r \in CallRecord  BY <1>1, <1>2 DEF CallRecord
<1>4. r.target = k.target /\ r.to = to /\ r.tries = t /\ r.hops = n /\ r.at = "send"
    BY <1>1 DEF CallRecord
<1> QED  BY <1>1, <1>3, <1>4 DEF CallTyped

LEMMA FailedTyped ==
    ASSUME NEW c \in Caller, NEW k, CallTyped(c, k), k.at \in {"send", "wait"}
    PROVE  CallTyped(c, Failed(k, c))
<1>1. Retries[c] \in Nat /\ MaxHops \in Nat  BY HttpAssumption
<1>2. CASE k.tries > Retries[c]  BY <1>1, <1>2, Members DEF CallTyped, CallRecord, Failed
<1>3. CASE ~(k.tries > Retries[c])
    <2>1. PICK b : b = IF k.body = "none" \/ (k.body = "full" /\ k.hops = 0) THEN k.body ELSE "read"
        OBVIOUS
    <2>2. b \in BodyAt
        <3>1. k.body \in BodyAt  BY DEF CallTyped, CallRecord
        <3> QED  BY <2>1, <3>1, Members
    <2>0. PICK t : t = k.tries + 1  OBVIOUS
    <2>3. Failed(k, c) = [k EXCEPT !.at = "send", !.tries = t, !.to = k.target, !.hops = 0, !.body = b]
        BY <1>3, <2>0, <2>1 DEF Failed, CallTyped, CallRecord
    <2>4. PICK r : r = Failed(k, c)  OBVIOUS
    <2>7. t \in Nat /\ t <= Retries[c] + 1 /\ k.target \in Node
        BY <1>1, <1>3, <2>0 DEF CallTyped, CallRecord
    <2>6. 0 <= MaxHops  BY <1>1
    <2>5. PICK n, to : n = 0 /\ to = k.target  OBVIOUS
    <2>9. r = [k EXCEPT !.at = "send", !.tries = t, !.to = to, !.hops = n, !.body = b]
        BY <2>3, <2>4, <2>5
    <2>10. n \in Nat /\ n <= MaxHops /\ to \in Node  BY <2>5, <2>6, <2>7
    <2>8. CallTyped(c, r)  BY <2>2, <2>7, <2>9, <2>10, Redone
    <2> QED  BY <2>4, <2>8, Zenon
<1> QED  BY <1>2, <1>3

LEMMA ReceivedTyped ==
    ASSUME NEW c \in Caller, NEW k, CallTyped(c, k), k.at = "wait", NEW h \in Request,
           h.at = "done", Attended(h, k)
    PROVE  CallTyped(c, Received(k, c, h))
<1>1. PICK r : r = Received(k, c, h)  OBVIOUS
<1>2. CallTyped(c, Failed(k, c))  BY FailedTyped
<1>3. MaxHops \in Nat  BY HttpAssumption
<1>4. CASE h.status # Redirect
    BY <1>4, Members DEF CallTyped, CallRecord, Request, Received
<1>5. CASE h.status = Redirect /\ k.hops = MaxHops  BY <1>2, <1>5 DEF Received
<1>6. CASE h.status = Redirect /\ k.hops # MaxHops
    <2>1. h.hint \in Node  BY <1>6 DEF Attended
    <2>2. PICK n, b : n = k.hops + 1 /\ b = IF k.body = "none" THEN "none" ELSE "full"  OBVIOUS
    <2>3. k.target \in Node /\ n \in Nat /\ n <= MaxHops /\ b \in {"none", "full", "read"}
        BY <1>3, <1>6, <2>2 DEF CallTyped, CallRecord
    <2>4. r = [k EXCEPT !.at = "send", !.tries = k.tries, !.to = h.hint, !.hops = n, !.body = b]
        BY <1>1, <1>6, <2>2 DEF Received, CallTyped, CallRecord
    <2>5. b \in BodyAt /\ k.tries \in Nat /\ k.tries <= Retries[c] + 1
        BY <2>3, Members DEF CallTyped, CallRecord
    <2>6. CallTyped(c, r)  BY <2>1, <2>3, <2>4, <2>5, Redone
    <2> QED  BY <1>1, <2>6, Zenon
<1> QED  BY <1>4, <1>5, <1>6

LEMMA BegunTyped ==
    ASSUME NEW c \in Caller, NEW n \in Node, NEW cmd \in Command, NEW body \in {"none", "full"}
    PROVE  CallTyped(c, Begun(n, cmd, body)) /\ CallTyped(c, Idle)
<1>1. Retries[c] \in Nat /\ MaxHops \in Nat  BY HttpAssumption
<1>2. PICK r : r = Begun(n, cmd, body)  OBVIOUS
<1>3. /\ r \in CallRecord /\ r.target \in Node /\ r.to \in Node /\ r.tries = 0 /\ r.hops = 0
      /\ r.at = "send"
    BY <1>2, Members DEF Begun, Idle, CallRecord
<1>4. Idle \in CallRecord  BY Members DEF Idle, CallRecord
<1>5. Idle.at = "idle" /\ Idle.tries = 0 /\ Idle.hops = 0  BY DEF Idle
<1>6. CallTyped(c, r) /\ CallTyped(c, Idle)  BY <1>1, <1>3, <1>4, <1>5 DEF CallTyped
<1> QED  BY <1>2, <1>6, Zenon

LEMMA CallTypedAfter ==
    ASSUME CallsTyped, NEW c \in Caller, NEW k, CallTyped(c, k), call' = [call EXCEPT ![c] = k]
    PROVE  CallsTyped'
<1>1. k \in CallRecord  BY DEF CallTyped
<1>2. call' \in [Caller -> CallRecord]  BY <1>1 DEF CallsTyped
<1>3. ASSUME NEW d \in Caller PROVE CallTyped(d, call'[d])
    <2>1. call'[d] = IF d = c THEN k ELSE call[d]  BY DEF CallsTyped
    <2> QED  BY <2>1 DEF CallsTyped
<1> QED  BY <1>2, <1>3, Zenon DEF CallsTyped

\* The caller of a call that does not wait has no handler that is not gone.
LEMMA NobodyAttends ==
    ASSUME Together(serving, call, operations), NEW c \in Caller, call[c].at # "wait"
    PROVE  \A h \in serving : h.caller = c => h.gone
BY DEF Together, Attended, Request

LEMMA AddressesTyped == /\ Addresses \in Seq(Node) /\ Len(Addresses) \in Nat \ {0}
                        /\ \A i \in 1..Len(Addresses) : Addresses[i] \in Node
<1>1. Discovered \in Seq(Node) /\ ClusterAddrs \in Seq(Node)  BY JoinAssumption
<1>2. ClusterAddrs \o ClusterAddrs \in Seq(Node)  BY <1>1, ConcatProperties
<1>3. Addresses \in Seq(Node)  BY <1>1, <1>2, ConcatProperties DEF Addresses
<1>4. Len(Addresses) \in Nat /\ Len(Addresses) # 0  BY <1>3, JoinAssumption, EmptySeq, LenProperties
<1> QED  BY <1>3, <1>4

LEMMA BaseInit == Init => Base
<1> SUFFICES ASSUME Init PROVE Base  OBVIOUS
<1> USE DEF Init, TransportInit, HttpInit
<1>1. RaftTyped
    <2>1. NoEntry \in Entry  BY Members DEF NoEntry, Entry
    <2>2. First \in Node  BY TransportAssumption
    <2>3. known \in [Node -> Node \cup {NoNode}]  BY <2>2
    <2> QED  BY <2>1, <2>2, <2>3 DEF RaftTyped
<1>2. AdminTyped
    <2>1. 1 \in 1..Len(Addresses)  BY AddressesTyped
    <2>2. 0 \in 0..(JoinRetries + 1)  BY JoinAssumption
    <2> QED  BY <2>1, <2>2 DEF AdminTyped, Joining, JoinStart
<1>3. CallsTyped
    <2>1. \A c \in Caller : CallTyped(c, Idle)
        <3>1. First \in Node /\ "" \in Command  BY TransportAssumption DEF Command
        <3> QED  BY <3>1, BegunTyped
    <2> QED  BY <2>1 DEF CallsTyped, CallTyped
<1>4. Together(serving, call, operations)
    <2>1. IsFiniteSet({})  BY FS_EmptySet
    <2> QED  BY <2>1 DEF Together
<1> QED  BY <1>1, <1>2, <1>3, <1>4 DEF Base

Elsewhere == UNCHANGED <<raftVars, sent, ran, adminVars>>

LEMMA ElsewhereTyped ==
    ASSUME Base, Elsewhere, faults' \in Nat
    PROVE  RaftTyped' /\ AdminTyped' /\ operations' = operations
BY DEF Base, Elsewhere, raftVars, adminVars, RaftTyped, AdminTyped, Joining

LEMMA BaseDeliver ==
    ASSUME Base, NEW c \in Caller, Deliver(c), Elsewhere
    PROVE  Base'
<1>1. RaftTyped' /\ AdminTyped' /\ operations' = operations
    BY ElsewhereTyped DEF Deliver, Base, RaftTyped
<1>2. PICK i : i = FreshId(c)  OBVIOUS
<1>3. i \in Nat /\ \A h \in serving : h.caller = c => h.id # i
    BY <1>2, FreshIdIsNew DEF Base, Together
<1>4. PICK k : k = [call[c] EXCEPT !.at = "wait", !.id = i, !.body = IF @ = "full" THEN "read" ELSE @]
    OBVIOUS
<1>5. CallTyped(c, call[c]) /\ call[c].at = "send"  BY DEF Base, CallsTyped, Deliver
<1>6. CallTyped(c, k)
    BY <1>3, <1>4, <1>5, Members DEF CallTyped, CallRecord
<1>7. call' = [call EXCEPT ![c] = k]
    BY <1>2, <1>4 DEF Deliver, Base, CallsTyped
<1>8. CallsTyped'  BY <1>6, <1>7, CallTypedAfter DEF Base
<1>9. PICK g : g = [caller |-> c, id |-> i, node |-> call[c].to, cmd |-> call[c].cmd, at |-> "new",
                    future |-> "none", status |-> 0, hint |-> NoNode, gone |-> FALSE]
    OBVIOUS
<1>10. g \in Request  BY <1>3, <1>5, <1>9, Members DEF CallTyped, CallRecord, Request
<1>11. Together(serving, call', operations)
    <2>1. \A h \in serving : h.caller = c => h.gone
        BY <1>5, NobodyAttends DEF Base
    <2> QED  BY <1>7, <2>1, CallChanged DEF Base, CallsTyped
<1>12. \A h \in serving : Token(h) # Token(g)  BY <1>3, <1>9 DEF Token
<1>13. Attended(g, call'[g.caller])
    <2>1. call'[g.caller] = k  BY <1>7, <1>9 DEF Base, CallsTyped
    <2>2. k.at = "wait" /\ k.id = i /\ k.cmd = call[c].cmd /\ k.to = call[c].to
        BY <1>4, <1>5 DEF CallTyped, CallRecord
    <2> QED  BY <1>9, <2>1, <2>2 DEF Attended, Redirect
<1>14. serving' = serving \cup {g}  BY <1>2, <1>9 DEF Deliver
<1>15. g.at # "await"  BY <1>9
<1>16. Together(serving', call', operations')
    BY <1>1, <1>10, <1>11, <1>12, <1>13, <1>14, <1>15, HandlerAdded
<1> QED  BY <1>1, <1>8, <1>16 DEF Base

\* The call of c fails and the handlers stay.
LEMMA BaseFailed ==
    ASSUME Base, NEW c \in Caller, DialFails(c) \/ BodyConsumed(c), Elsewhere
    PROVE  Base'
<1>1. RaftTyped' /\ AdminTyped' /\ operations' = operations
    BY ElsewhereTyped DEF DialFails, BodyConsumed, Base, RaftTyped
<1>2. call[c].at = "send" /\ serving' = serving /\ call' = [call EXCEPT ![c] = Failed(call[c], c)]
    BY DEF DialFails, BodyConsumed
<1>3. CallTyped(c, Failed(call[c], c))
    BY <1>2, FailedTyped DEF Base, CallsTyped
<1>4. CallsTyped'  BY <1>2, <1>3, CallTypedAfter DEF Base
<1>5. \A h \in serving : h.caller = c => h.gone  BY <1>2, NobodyAttends DEF Base
<1>6. Together(serving', call', operations')
    BY <1>1, <1>2, <1>5, CallChanged DEF Base, CallsTyped
<1> QED  BY <1>1, <1>4, <1>6 DEF Base

LEMMA BaseReceive ==
    ASSUME Base, NEW c \in Caller, Receive(c), Elsewhere
    PROVE  Base'
<1>1. RaftTyped' /\ AdminTyped' /\ operations' = operations
    BY ElsewhereTyped DEF Receive, Base, RaftTyped
<1>2. PICK h \in HandlerOf(c) :
        /\ call[c].at = "wait" /\ h.at = "done"
        /\ serving' = serving \ {h}
        /\ call' = [call EXCEPT ![c] = Received(call[c], c, h)]
    BY DEF Receive
<1>3. h \in serving /\ h.caller = c /\ h.id = call[c].id  BY DEF HandlerOf
<1>4. h \in Request /\ Attended(h, call[c])  BY <1>3 DEF Base, Together
<1>5. PICK k : k = Received(call[c], c, h)  OBVIOUS
<1>6. call' = [call EXCEPT ![c] = k]  BY <1>2, <1>5, Zenon
<1>7. CallTyped(c, call[c])  BY DEF Base, CallsTyped
<1>8. CallTyped(c, k)  BY <1>2, <1>4, <1>5, <1>7, ReceivedTyped
<1>9. CallsTyped'  BY <1>6, <1>8, CallTypedAfter DEF Base
<1>10. Together(serving', call, operations)
    BY <1>2, <1>3, HandlerRemoved DEF Base
<1>11. \A g \in serving' : g.caller = c => g.gone
    <2> SUFFICES ASSUME NEW g \in serving, g # h, g.caller = c, ~g.gone PROVE FALSE
        BY <1>2, Zenon
    <2>1. g.id = call[c].id  BY DEF Base, Together, Attended
    <2>2. Token(g) = Token(h)  BY <1>3, <2>1 DEF Token
    <2> QED  BY <1>3, <2>2 DEF Base, Together
<1>12. Together(serving', call', operations')
    BY <1>1, <1>6, <1>10, <1>11, CallChanged DEF Base, CallsTyped
<1> QED  BY <1>1, <1>9, <1>12 DEF Base

LEMMA BaseLose ==
    ASSUME Base, NEW c \in Caller, Lose(c), Elsewhere
    PROVE  Base'
<1>1. RaftTyped' /\ AdminTyped' /\ operations' = operations
    BY ElsewhereTyped DEF Lose, Base, RaftTyped
<1>2. /\ call[c].at = "wait" /\ call' = [call EXCEPT ![c] = Failed(call[c], c)]
      /\ serving' = (serving \ HandlerOf(c)) \cup
                    {[h EXCEPT !.gone = TRUE] : h \in {g \in HandlerOf(c) : g.at # "done"}}
    BY DEF Lose
<1>3. CallTyped(c, Failed(call[c], c))  BY <1>2, FailedTyped DEF Base, CallsTyped
<1>4. CallsTyped'  BY <1>2, <1>3, CallTypedAfter DEF Base
<1>5. \A g \in serving : g.caller = c => g.gone \/ g \in HandlerOf(c)
    BY DEF Base, Together, Attended, HandlerOf
<1>6. CASE HandlerOf(c) = {}
    <2>1. serving' = serving  BY <1>2, <1>6
    <2> QED  BY <1>1, <1>2, <1>4, <1>5, <1>6, <2>1, CallChanged DEF Base, CallsTyped
<1>7. CASE HandlerOf(c) # {}
    <2>1. PICK h : h \in HandlerOf(c)  BY <1>7
    <2>2. h \in serving /\ h.caller = c /\ h.id = call[c].id  BY <2>1 DEF HandlerOf
    <2>3. HandlerOf(c) = {h}
        <3>1. ASSUME NEW g \in HandlerOf(c) PROVE g = h
            <4>1. g \in serving /\ Token(g) = Token(h)  BY <2>2 DEF HandlerOf, Token
            <4> QED  BY <2>2, <4>1 DEF Base, Together
        <3> QED  BY <2>1, <3>1, Zenon
    <2>4. \A g \in serving \ {h} : g.caller = c => g.gone  BY <1>5, <2>3
    <2>5. PICK g : g = [h EXCEPT !.gone = TRUE]  OBVIOUS
    <2>6. h \in Request /\ Attended(h, call[c])  BY <2>2 DEF Base, Together
    <2>7. CASE h.at = "done"
        <3>1. serving' = serving \ {h}  BY <1>2, <2>3, <2>7
        <3>2. Together(serving', call, operations)  BY <2>2, <2>7, <3>1, HandlerRemoved DEF Base
        <3>3. Together(serving', call', operations')
            BY <1>1, <1>2, <2>4, <3>1, <3>2, CallChanged DEF Base, CallsTyped
        <3> QED  BY <1>1, <1>4, <3>3 DEF Base
    <2>8. CASE h.at # "done"
        <3>1. serving' = (serving \ {h}) \cup {g}  BY <1>2, <2>3, <2>5, <2>8
        <3>2. g \in Request /\ g.at = h.at /\ g.gone /\ g.caller = c /\ Token(g) = Token(h)
            BY <2>2, <2>5, <2>6 DEF Request, Token
        <3>3. Attended(g, call[g.caller])
            BY <2>5, <2>6, <2>8, <3>2 DEF Attended, Request
        <3>4. Together(serving', call, operations)
            BY <2>2, <3>1, <3>2, <3>3, HandlerReplaced DEF Base
        <3>5. \A j \in serving' : j.caller = c => j.gone  BY <2>4, <3>1, <3>2, Zenon
        <3>6. Together(serving', call', operations')
            BY <1>1, <1>2, <3>4, <3>5, CallChanged DEF Base, CallsTyped
        <3> QED  BY <1>1, <1>4, <3>6 DEF Base
    <2> QED  BY <2>7, <2>8
<1> QED  BY <1>6, <1>7
\* A call begins or ends while nobody attends it.
LEMMA CallSet ==
    ASSUME Base, NEW c \in Caller, NEW k, CallTyped(c, k), call[c].at # "wait",
           call' = [call EXCEPT ![c] = k], serving' = serving, operations' = operations
    PROVE  CallsTyped' /\ Together(serving', call', operations')
<1>1. CallsTyped'  BY CallTypedAfter DEF Base
<1>2. \A h \in serving : h.caller = c => h.gone  BY NobodyAttends DEF Base
<1>3. Together(serving', call', operations')  BY <1>2, CallChanged DEF Base, CallsTyped
<1> QED  BY <1>1, <1>3

\* A handler answers.
LEMMA HandlerAnswers ==
    ASSUME Base, NEW h \in serving, NEW s \in Nat, NEW n \in MaybeNode,
           s = Redirect => n \in Node /\ h.caller # Peer, h.at # "done"
    PROVE  /\ h.at = "await" => Together(Answered(h, s, n), call, operations \ {Token(h)})
           /\ h.at # "await" => Together(Answered(h, s, n), call, operations)
<1>1. h \in Request /\ Attended(h, call[h.caller]) /\ Together(serving, call, operations)
    BY DEF Base, Together
<1>2. CASE h.gone
    <2>1. Answered(h, s, n) = serving \ {h}  BY <1>2 DEF Answered
    <2>2. PICK T : T = IF h.at = "await" THEN operations \ {Token(h)} ELSE operations  OBVIOUS
    <2>3. Together(serving \ {h}, call, T)  BY <1>1, <2>2, HandlerRemoved, Zenon
    <2> QED  BY <2>1, <2>2, <2>3, Zenon
<1>3. CASE ~h.gone
    <2>1. PICK g : g = [h EXCEPT !.at = "done", !.status = s, !.hint = n, !.future = "none"]
        OBVIOUS
    <2>2. Answered(h, s, n) = (serving \ {h}) \cup {g}  BY <1>3, <2>1 DEF Answered
    <2>3. g \in Request  BY <1>1, <2>1, Members DEF Request
    <2>4. /\ g.caller = h.caller /\ g.id = h.id /\ g.at = "done" /\ g.status = s /\ g.hint = n
          /\ g.future = "none" /\ g.gone = h.gone /\ g.cmd = h.cmd /\ g.node = h.node
        BY <1>1, <2>1 DEF Request
    <2>5. Token(g) = Token(h)  BY <2>4 DEF Token
    <2>6. Attended(g, call[g.caller])  BY <1>1, <1>3, <2>4 DEF Attended
    <2>7. g.at # "await"  BY <2>4
    <2>8. /\ h.at = "await" => Together((serving \ {h}) \cup {g}, call, operations \ {Token(h)})
          /\ h.at # "await" => Together((serving \ {h}) \cup {g}, call, operations)
        BY <1>1, <2>3, <2>5, <2>6, <2>7, HandlerReplaced, Zenon
    <2> QED  BY <2>2, <2>8, Zenon
<1> QED  BY <1>2, <1>3

\* A future is resolved.
LEMMA HandlerResolves ==
    ASSUME Base, NEW h \in serving, NEW r \in Future, h.at = "await"
    PROVE  Together((serving \ {h}) \cup {[h EXCEPT !.future = r]}, call, operations)
<1>1. h \in Request /\ Attended(h, call[h.caller]) /\ Together(serving, call, operations)
    BY DEF Base, Together
<1>2. PICK g : g = [h EXCEPT !.future = r]  OBVIOUS
<1>3. g \in Request  BY <1>1, <1>2 DEF Request
<1>4. /\ g.caller = h.caller /\ g.id = h.id /\ g.at = h.at /\ g.status = h.status /\ g.hint = h.hint
      /\ g.gone = h.gone /\ g.cmd = h.cmd /\ g.node = h.node
    BY <1>1, <1>2 DEF Request
<1>5. Token(g) = Token(h)  BY <1>4 DEF Token
<1>6. Attended(g, call[g.caller])  BY <1>1, <1>4 DEF Attended
<1> QED  BY <1>1, <1>2, <1>3, <1>4, <1>5, <1>6, HandlerReplaced, Zenon


LEMMA HandlersFail ==
    ASSUME NEW S, NEW T, Together(S, call, T)
    PROVE  Together({IF h.future = "proposed" THEN [h EXCEPT !.future = "error"] ELSE h : h \in S},
                    call, T)
<1>1. PICK f : f = [h \in S |-> IF h.future = "proposed" THEN [h EXCEPT !.future = "error"] ELSE h]
    OBVIOUS
<1>2. DOMAIN f = S  BY <1>1
<1>3. ASSUME NEW h \in S
      PROVE  /\ f[h] \in Request /\ Token(f[h]) = Token(h) /\ f[h].at = h.at
             /\ Attended(f[h], call[f[h].caller])
    <2>1. h \in Request /\ Attended(h, call[h.caller])  BY DEF Together
    <2>2. CASE h.future # "proposed"
        <3>1. f[h] = h  BY <1>1, <2>2
        <3> QED  BY <2>1, <3>1, Zenon
    <2>3. CASE h.future = "proposed"
        <3>1. PICK g : g = [h EXCEPT !.future = "error"]  OBVIOUS
        <3>2. f[h] = g  BY <1>1, <2>3, <3>1
        <3>3. g \in Request  BY <2>1, <3>1, Members DEF Request
        <3>4. /\ g.caller = h.caller /\ g.id = h.id /\ g.at = h.at /\ g.status = h.status
              /\ g.hint = h.hint /\ g.gone = h.gone /\ g.cmd = h.cmd /\ g.node = h.node
            BY <2>1, <3>1 DEF Request
        <3>5. Token(g) = Token(h)  BY <3>4 DEF Token
        <3>6. Attended(g, call[g.caller])  BY <2>1, <2>3, <3>4 DEF Attended
        <3> QED  BY <3>2, <3>3, <3>4, <3>5, <3>6, Zenon
    <2> QED  BY <2>2, <2>3
<1>4. {f[h] : h \in S} =
        {IF h.future = "proposed" THEN [h EXCEPT !.future = "error"] ELSE h : h \in S}
    BY <1>1
<1>5. Together({f[h] : h \in S}, call, T)  BY <1>2, <1>3, HandlersMapped
<1> QED  BY <1>4, <1>5, Zenon

LEMMA HandlerSucceeds ==
    ASSUME NEW S, NEW T, Together(S, call, T), NEW x
    PROVE  Together({IF Token(h) = x /\ h.future = "proposed"
                     THEN [h EXCEPT !.future = "ok"] ELSE h : h \in S}, call, T)
<1>1. PICK f : f = [h \in S |-> IF Token(h) = x /\ h.future = "proposed"
                                THEN [h EXCEPT !.future = "ok"] ELSE h]
    OBVIOUS
<1>2. DOMAIN f = S  BY <1>1
<1>3. ASSUME NEW h \in S
      PROVE  /\ f[h] \in Request /\ Token(f[h]) = Token(h) /\ f[h].at = h.at
             /\ Attended(f[h], call[f[h].caller])
    <2>1. h \in Request /\ Attended(h, call[h.caller])  BY DEF Together
    <2>2. CASE ~(Token(h) = x /\ h.future = "proposed")
        <3>1. f[h] = h  BY <1>1, <2>2
        <3> QED  BY <2>1, <3>1, Zenon
    <2>3. CASE Token(h) = x /\ h.future = "proposed"
        <3>1. PICK g : g = [h EXCEPT !.future = "ok"]  OBVIOUS
        <3>2. f[h] = g  BY <1>1, <2>3, <3>1
        <3>3. g \in Request  BY <2>1, <3>1, Members DEF Request
        <3>4. /\ g.caller = h.caller /\ g.id = h.id /\ g.at = h.at /\ g.status = h.status
              /\ g.hint = h.hint /\ g.gone = h.gone /\ g.cmd = h.cmd /\ g.node = h.node
            BY <2>1, <3>1 DEF Request
        <3>5. Token(g) = Token(h)  BY <3>4 DEF Token
        <3>6. Attended(g, call[g.caller])  BY <2>1, <2>3, <3>4 DEF Attended
        <3> QED  BY <3>2, <3>3, <3>4, <3>5, <3>6, Zenon
    <2> QED  BY <2>2, <2>3
<1>4. {f[h] : h \in S} = {IF Token(h) = x /\ h.future = "proposed"
                          THEN [h EXCEPT !.future = "ok"] ELSE h : h \in S}
    BY <1>1
<1>5. Together({f[h] : h \in S}, call, T)  BY <1>2, <1>3, HandlersMapped
<1> QED  BY <1>4, <1>5, Zenon

\* Calls of the leader to its peers.
LEMMA BaseSends ==
    ASSUME Base, NEW n \in Node, NEW m \in Node, NEW h \in serving \cup {NoNode},
           AppendEntries(n, m) \/ (h \in serving /\ TimeoutNow(h, m)), UNCHANGED adminVars
    PROVE  Base'
<1>1. PICK cmd \in {"AppendEntries", "TimeoutNow"} :
        call' = [call EXCEPT ![Peer] = Begun(m, cmd, "full")]
    BY DEF AppendEntries, TimeoutNow
<1>2. Peer \in Caller /\ cmd \in Command  BY JoinAssumption, Members
<1>3. CallTyped(Peer, Begun(m, cmd, "full"))  BY <1>2, BegunTyped
<1>4. call[Peer].at # "wait" /\ serving' = serving /\ operations' = operations
    BY DEF AppendEntries, TimeoutNow, Free, adminVars
<1>5. CallsTyped' /\ Together(serving', call', operations')
    BY <1>1, <1>2, <1>3, <1>4, CallSet
<1>6. sent' \in [from : MaybeNode, entry : BOOLEAN] /\ (sent'.entry => sent'.from \in Node)
    <2>1. CASE AppendEntries(n, m)
        <3>1. n \in MaybeNode /\ (entry.by = n) \in BOOLEAN  BY Members
        <3> QED  BY <2>1, <3>1 DEF AppendEntries
    <2>2. CASE h \in serving /\ TimeoutNow(h, m)
        <3>1. h.node \in MaybeNode  BY <2>2, Members DEF Base, Together, Request
        <3> QED  BY <2>2, <3>1 DEF TimeoutNow
    <2> QED  BY <2>1, <2>2
<1>7. RaftTyped'
    <2>1. /\ leader' = leader /\ known' = known /\ entry' = entry /\ elections' = elections
          /\ faults' = faults /\ ran' = 0
        BY DEF AppendEntries, TimeoutNow, raftVars
    <2> QED  BY <1>6, <2>1 DEF Base, RaftTyped, MaybeNode
<1>8. AdminTyped'  BY DEF Base, AdminTyped, adminVars, Joining
<1> QED  BY <1>5, <1>7, <1>8 DEF Base

LEMMA AdminKept == ASSUME AdminTyped, UNCHANGED adminVars PROVE AdminTyped' /\ operations' = operations
BY DEF AdminTyped, adminVars, Joining

LEMMA BaseSendReturns ==
    ASSUME Base, SendReturns, UNCHANGED adminVars
    PROVE  Base'
<1>1. Peer \in Caller  BY JoinAssumption
<1>2. CallTyped(Peer, Idle)
    <2>1. First \in Node /\ "" \in Command  BY TransportAssumption, Members
    <2> QED  BY <1>1, <2>1, BegunTyped
<1>3. call' = [call EXCEPT ![Peer] = Idle] /\ call[Peer].at = "ended" /\ serving' = serving
    BY DEF SendReturns
<1>4. AdminTyped' /\ operations' = operations  BY AdminKept DEF Base
<1>5. CallsTyped' /\ Together(serving', call', operations')
    BY <1>1, <1>2, <1>3, <1>4, CallSet
<1>6. entry' \in Entry
    <2>1. entry \in Entry  BY DEF Base, RaftTyped
    <2>2. CASE entry' = entry  BY <2>1, <2>2
    <2>3. CASE entry' # entry
        <3>1. entry' = [entry EXCEPT !.acks = @ \cup {call[Peer].target}] /\ entry.by = sent.from
            /\ call[Peer].status = 200
            BY <2>3 DEF SendReturns
        <3>2. call[Peer].target \in Node  BY <1>1, <1>3, <3>1 DEF Base, CallsTyped, CallTyped, Peer
        <3>3. PICK A : A = entry.acks \cup {call[Peer].target}  OBVIOUS
        <3>4. A \in SUBSET Node  BY <2>1, <3>2, <3>3 DEF Entry
        <3>5. entry' = [entry EXCEPT !.acks = A]  BY <3>1, <3>3
        <3> QED  BY <2>1, <3>4, <3>5 DEF Entry
    <2> QED  BY <2>2, <2>3
<1>7. RaftTyped'  BY <1>6 DEF Base, RaftTyped, SendReturns
<1> QED  BY <1>4, <1>5, <1>7 DEF Base

\* Raft after an election.
LEMMA ElectedTyped ==
    ASSUME RaftTyped, NEW n \in Node, NEW S, Elected(n, S), ran' \in Nat, faults' \in Nat,
           sent' = sent
    PROVE  RaftTyped'
<1>1. entry \in Entry /\ n \in MaybeNode /\ {n} \in SUBSET Node  BY Members DEF RaftTyped
<1>2. entry' \in Entry
    <2>1. NoEntry \in Entry  BY Members DEF NoEntry, Entry
    <2>2. CASE n \in entry.at
        <3>1. entry' = [entry EXCEPT !.by = n, !.acks = {n}]  BY <2>2 DEF Elected
        <3> QED  BY <1>1, <3>1 DEF Entry
    <2>3. CASE n \notin entry.at  BY <2>1, <2>3 DEF Elected
    <2> QED  BY <2>2, <2>3
<1>3. known' \in [Node -> Node \cup {NoNode}]  BY DEF RaftTyped, Elected
<1> QED  BY <1>2, <1>3 DEF RaftTyped, Elected

LEMMA BaseHandle ==
    ASSUME Base, NEW h \in serving, handle(h), UNCHANGED adminVars
    PROVE  Base'
<1>1. h \in Request /\ h.at = "new" /\ h.caller = Peer  BY DEF Base, Together, handle
<1>2. AdminTyped' /\ operations' = operations  BY AdminKept DEF Base
<1>3. CallsTyped' /\ call' = call  BY DEF Base, CallsTyped, CallTyped, handle
<1>4. Together(Answered(h, 200, NoNode), call, operations)
    <2>1. 200 \in Nat /\ 200 # Redirect  BY DEF Redirect
    <2>2. NoNode \in MaybeNode  BY Members
    <2> QED  BY <1>1, <2>1, <2>2, HandlerAnswers
<1>5. ran' \in Nat /\ faults' \in Nat /\ sent' = sent /\ h.node \in Node
    BY <1>1 DEF handle, Base, RaftTyped, Request
<1>6. CASE h.cmd = "TimeoutNow" /\ leader = sent.from /\ elections < MaxElections
    <2>1. Elected(h.node, Answered(h, 200, NoNode))  BY <1>6 DEF handle
    <2>2. RaftTyped'  BY <1>5, <2>1, ElectedTyped DEF Base
    <2>3. Together(serving', call', operations')
        BY <1>2, <1>3, <1>4, <2>1, HandlersFail DEF Elected
    <2> QED  BY <1>2, <1>3, <2>2, <2>3 DEF Base
<1>7. CASE ~(h.cmd = "TimeoutNow" /\ leader = sent.from /\ elections < MaxElections)
    <2>1. serving' = Answered(h, 200, NoNode) /\ leader' = leader /\ elections' = elections
        BY <1>7 DEF handle
    <2>2. Together(serving', call', operations')  BY <1>2, <1>3, <1>4, <2>1
    <2>3. known' \in [Node -> Node \cup {NoNode}]  BY <1>5, <1>7 DEF handle, Base, RaftTyped
    <2>4. entry' \in Entry
        <3>1. entry \in Entry  BY DEF Base, RaftTyped
        <3>2. CASE entry' = entry  BY <3>1, <3>2
        <3>3. CASE entry' # entry
            <4>1. PICK A : A = entry.at \cup {h.node}  OBVIOUS
            <4>2. entry' = [entry EXCEPT !.at = A]  BY <1>7, <3>3, <4>1 DEF handle
            <4>3. A \in SUBSET Node  BY <1>5, <3>1, <4>1 DEF Entry
            <4> QED  BY <3>1, <4>2, <4>3 DEF Entry
        <3> QED  BY <3>2, <3>3
    <2>5. RaftTyped'  BY <1>5, <2>1, <2>3, <2>4 DEF Base, RaftTyped
    <2> QED  BY <1>2, <1>3, <2>2, <2>5 DEF Base
<1> QED  BY <1>6, <1>7

LEMMA BaseHandleFails ==
    ASSUME Base, NEW h \in serving, handleFails(h), UNCHANGED adminVars
    PROVE  Base'
<1>1. h \in Request /\ h.at = "new" /\ h.caller = Peer  BY DEF Base, Together, handleFails
<1>2. AdminTyped' /\ operations' = operations  BY AdminKept DEF Base
<1>3. CallsTyped' /\ call' = call  BY DEF Base, CallsTyped, CallTyped, handleFails
<1>4. Together(Answered(h, 400, NoNode), call, operations)
    <2>1. 400 \in Nat /\ 400 # Redirect  BY DEF Redirect
    <2>2. NoNode \in MaybeNode  BY Members
    <2> QED  BY <1>1, <2>1, <2>2, HandlerAnswers, ZenonT(60)
<1>5. Together(serving', call', operations')  BY <1>2, <1>3, <1>4 DEF handleFails
<1>6. RaftTyped'  BY DEF handleFails, Base, RaftTyped, raftVars
<1> QED  BY <1>2, <1>3, <1>5, <1>6 DEF Base

LEMMA BaseElect ==
    ASSUME Base, NEW n \in Node, Elect(n), UNCHANGED adminVars
    PROVE  Base'
<1>1. AdminTyped' /\ operations' = operations  BY AdminKept DEF Base
<1>2. CallsTyped' /\ call' = call  BY DEF Base, CallsTyped, CallTyped, Elect
<1>3. ran' \in Nat /\ faults' \in Nat /\ sent' = sent  BY DEF Elect, Base, RaftTyped
<1>4. RaftTyped'  BY <1>3, ElectedTyped DEF Base, Elect
<1>5. Together(serving', call', operations')  BY <1>1, <1>2, HandlersFail DEF Base, Elect, Elected
<1> QED  BY <1>1, <1>2, <1>4, <1>5 DEF Base

LEMMA BaseKnown ==
    ASSUME Base, NEW n \in Node, StepDown(n) \/ LoseContact(n), UNCHANGED adminVars
    PROVE  Base'
<1>1. AdminTyped' /\ operations' = operations  BY AdminKept DEF Base
<1>2. call' = call /\ serving' = serving  BY DEF StepDown, LoseContact, httpVars
<1>3. CallsTyped'  BY <1>2 DEF Base, CallsTyped, CallTyped
<1>4. RaftTyped'  BY DEF Base, RaftTyped, StepDown, LoseContact, httpVars
<1> QED  BY <1>1, <1>2, <1>3, <1>4 DEF Base

LEMMA RaftKept ==
    ASSUME RaftTyped, UNCHANGED <<faults, raftVars, sent, ran>>
    PROVE  RaftTyped'
BY DEF RaftTyped, raftVars

LEMMA BaseServe ==
    ASSUME Base, NEW h \in serving, ServeHTTP(h)
    PROVE  Base'
<1>1. /\ h \in Request /\ h.at = "new" /\ h.caller # Peer /\ Attended(h, call[h.caller])
      /\ Together(serving, call, operations)
    BY DEF Base, Together, ServeHTTP
<1>2. RaftTyped'  BY RaftKept DEF Base, ServeHTTP
<1>3. AdminTyped'  BY DEF Base, AdminTyped, Joining, ServeHTTP
<1>4. CallsTyped' /\ call' = call  BY DEF Base, CallsTyped, CallTyped, ServeHTTP
<1>5. known[h.node] \in MaybeNode  BY <1>1 DEF Base, RaftTyped, Request, MaybeNode
<1>6. Together(serving', call, operations')
    <2>1. ASSUME NEW s \in Nat, NEW n \in MaybeNode, s = Redirect => n \in Node,
                 serving' = Answered(h, s, n), operations' = operations
          PROVE  Together(serving', call, operations')
        BY <1>1, <2>1, HandlerAnswers
    <2>2. {200, 400, 503, Redirect} \subseteq Nat /\ Redirect \notin {200, 400, 503}
        BY DEF Redirect
    <2>3. NoNode \in MaybeNode  BY Members
    <2>4. CASE known[h.node] # h.node /\ known[h.node] = NoNode /\ operations' = operations
               /\ serving' = Answered(h, 503, NoNode)
        BY <2>1, <2>2, <2>3, <2>4
    <2>5. CASE known[h.node] # NoNode /\ operations' = operations
               /\ serving' = Answered(h, Redirect, known[h.node])
        <3>1. known[h.node] \in Node  BY <1>5, <2>5 DEF MaybeNode
        <3> QED  BY <1>5, <2>1, <2>2, <2>5, <3>1
    <2>6. CASE operations' = operations
               /\ serving' = Answered(h, IF h.cmd \in Read THEN 200 ELSE 400, NoNode)
        <3>1. PICK s : s = IF h.cmd \in Read THEN 200 ELSE 400  OBVIOUS
        <3>2. s \in Nat /\ s # Redirect  BY <2>2, <3>1
        <3> QED  BY <2>1, <2>3, <2>6, <3>1, <3>2
    <2>7. CASE /\ serving' = (serving \ {h}) \cup {[h EXCEPT !.at = "await", !.future = "pending"]}
               /\ operations' = operations \cup {Token(h)}
        <3>1. PICK g : g = [h EXCEPT !.at = "await", !.future = "pending"]  OBVIOUS
        <3>2. g \in Request  BY <1>1, <3>1, Members DEF Request
        <3>3. /\ g.caller = h.caller /\ g.id = h.id /\ g.at = "await" /\ g.status = h.status
              /\ g.hint = h.hint /\ g.gone = h.gone /\ g.cmd = h.cmd /\ g.node = h.node
            BY <1>1, <3>1 DEF Request
        <3>4. Token(g) = Token(h)  BY <3>3 DEF Token
        <3>5. Attended(g, call[g.caller])  BY <1>1, <3>3 DEF Attended
        <3>6. h.at # "await"  BY <1>1
        <3>7. Together((serving \ {h}) \cup {g}, call, operations \cup {Token(h)})
            BY <1>1, <3>2, <3>3, <3>4, <3>5, <3>6, HandlerReplaced, Zenon
        <3> QED  BY <2>7, <3>1, <3>7, Zenon
    <2> QED  BY <2>4, <2>5, <2>6, <2>7 DEF ServeHTTP
<1> QED  BY <1>2, <1>3, <1>4, <1>6 DEF Base

LEMMA BaseAwait ==
    ASSUME Base, NEW h \in serving, Await(h)
    PROVE  Base'
<1>1. h \in Request /\ h.at = "await"  BY DEF Base, Together, Await
<1>2. RaftTyped'  BY RaftKept DEF Base, Await
<1>3. AdminTyped'  BY DEF Base, AdminTyped, Joining, Await
<1>4. CallsTyped' /\ call' = call  BY DEF Base, CallsTyped, CallTyped, Await
<1>5. PICK s \in {202, 400, 500} : serving' = Answered(h, s, NoNode)  BY DEF Await
<1>6. s \in Nat /\ s # Redirect  BY DEF Redirect
<1>7. NoNode \in MaybeNode /\ operations' = operations \ {Token(h)}  BY Members DEF Await
<1>8. Together(Answered(h, s, NoNode), call, operations \ {Token(h)})
    BY <1>1, <1>6, <1>7, HandlerAnswers
<1>9. Together(serving', call', operations')  BY <1>4, <1>5, <1>7, <1>8
<1> QED  BY <1>2, <1>3, <1>4, <1>9 DEF Base

LEMMA BaseTakes ==
    ASSUME Base, NEW h \in serving, RaftTakes(h)
    PROVE  Base'
<1>1. h \in Request /\ h.at = "await"  BY DEF Base, Together, RaftTakes
<1>2. AdminTyped' /\ operations' = operations  BY AdminKept DEF Base, RaftTakes
<1>3. CallsTyped' /\ call' = call  BY DEF Base, CallsTyped, CallTyped, RaftTakes
<1>4. PICK r \in {"ok", "error", "proposed"} :
        serving' = (serving \ {h}) \cup {[h EXCEPT !.future = r]}
    BY DEF RaftTakes, Resolve
<1>5. r \in Future  BY Members
<1>6. Together(serving', call', operations')  BY <1>1, <1>2, <1>3, <1>4, <1>5, HandlerResolves
<1>7. entry' \in Entry
    <2>1. CASE entry' = entry  BY <2>1 DEF Base, RaftTyped
    <2>2. CASE entry' # entry
        <3>1. /\ entry' = [op |-> h.cmd, by |-> h.node, caller |-> h.caller, id |-> h.id,
                           at |-> {h.node}, acks |-> {h.node}]
              /\ h.cmd \in Body
            BY <2>2 DEF RaftTakes
        <3>2. h.cmd \in Command /\ h.node \in Node /\ h.node \in MaybeNode /\ h.caller \in Caller
              /\ h.id \in Nat /\ {h.node} \in SUBSET Node
            BY <1>1, Members DEF Request
        <3> QED  BY <3>1, <3>2 DEF Entry
    <2> QED  BY <2>1, <2>2
<1>8. RaftTyped'  BY <1>7 DEF Base, RaftTyped, RaftTakes
<1> QED  BY <1>2, <1>3, <1>6, <1>8 DEF Base

LEMMA BaseCommit ==
    ASSUME Base, Commit
    PROVE  Base'
<1>1. NoEntry \in Entry  BY Members DEF NoEntry, Entry
<1>2. RaftTyped'  BY <1>1 DEF Base, RaftTyped, Commit
<1>3. AdminTyped' /\ operations' = operations  BY DEF Base, AdminTyped, Joining, Commit
<1>4. CallsTyped' /\ call' = call  BY DEF Base, CallsTyped, CallTyped, Commit
<1>5. PICK x : x = <<entry.caller, entry.id>>  OBVIOUS
<1>6. serving' = {IF Token(h) = x /\ h.future = "proposed"
                  THEN [h EXCEPT !.future = "ok"] ELSE h : h \in serving}
    BY <1>5, Zenon DEF Commit
<1>7. Together(serving, call, operations)  BY DEF Base
<1>8. Together({IF Token(h) = x /\ h.future = "proposed"
                THEN [h EXCEPT !.future = "ok"] ELSE h : h \in serving}, call, operations)
    BY <1>7, HandlerSucceeds, Zenon
<1>9. Together(serving', call', operations')  BY <1>3, <1>4, <1>6, <1>8, Zenon
<1> QED  BY <1>2, <1>3, <1>4, <1>9 DEF Base

\* The steps of the joining node and of the other client.
Clients == Verify \/ Verified \/ NotVerified \/ Added \/ OpsReturns \/ \E cmd \in OpsCommand : OpsCall(cmd)

LEMMA NextAddressTyped == ASSUME AdminTyped PROVE NextAddress \in Joining
<1>1. join.retries \in 0..(JoinRetries + 1) /\ JoinRetries \in Nat /\ Len(Addresses) \in Nat \ {0}
      /\ join.i \in 1..Len(Addresses)
    BY JoinAssumption, AddressesTyped DEF AdminTyped, Joining
<1>2. CASE join.retries <= JoinRetries
    <2>1. join.retries + 1 \in 0..(JoinRetries + 1) /\ 1 \in 1..Len(Addresses)  BY <1>1, <1>2
    <2> QED  BY <1>2, <2>1 DEF NextAddress, Joining
<1>3. CASE ~(join.retries <= JoinRetries)
    <2>1. CASE join.i = Len(Addresses)  BY <1>3, <2>1 DEF NextAddress, AdminTyped, Joining
    <2>2. CASE join.i # Len(Addresses)
        <3>1. PICK i : i = join.i + 1  OBVIOUS
        <3>2. i \in 1..Len(Addresses)  BY <1>1, <2>2, <3>1
        <3>3. NextAddress = [join EXCEPT !.at = "verify", !.i = i]
            BY <1>3, <2>2, <3>1 DEF NextAddress, AdminTyped, Joining
        <3> QED  BY <3>2, <3>3 DEF AdminTyped, Joining
    <2> QED  BY <2>1, <2>2
<1> QED  BY <1>2, <1>3

LEMMA BaseClients ==
    ASSUME Base, Clients
    PROVE  Base'
<1>1. RaftTyped'
    BY RaftKept DEF Base, Clients, Verify, Verified, NotVerified, Added, OpsReturns, OpsCall
<1>2. serving' = serving /\ operations' = operations /\ member' = member /\ adds' = adds
    BY DEF Clients, Verify, Verified, NotVerified, Added, OpsReturns, OpsCall, adminVars
<1>3. {"join", "ops"} \subseteq Caller  BY JoinAssumption
<1>4. join' \in Joining
    <2>1. NextAddress \in Joining  BY NextAddressTyped DEF Base
    <2>2. join \in Joining  BY DEF Base, AdminTyped
    <2>3. join' = join \/ join' = NextAddress
          \/ \E a \in {"verifying", "adding", "joined", "panic"} : join' = [join EXCEPT !.at = a]
        BY DEF Clients, Verify, Verified, NotVerified, Added, OpsReturns, OpsCall, adminVars
    <2> QED  BY <2>1, <2>2, <2>3 DEF Joining
<1>5. AdminTyped'  BY <1>2, <1>4 DEF Base, AdminTyped
<1>6. \E c \in {"join", "ops"} : \E k : /\ call[c].at # "wait" /\ CallTyped(c, k)
                                         /\ call' = [call EXCEPT ![c] = k]
    <2>1. join.i \in 1..Len(Addresses) /\ 1 \in 1..Len(Addresses)
        BY AddressesTyped DEF Base, AdminTyped, Joining
    <2>2. Addresses[join.i] \in Node /\ Addresses[1] \in Node  BY <2>1, AddressesTyped
    <2>3. \A cmd \in Command, body \in {"none", "full"} :
            /\ CallTyped("join", Begun(Addresses[join.i], cmd, body))
            /\ CallTyped("ops", Begun(Addresses[1], cmd, body))
        BY <1>3, <2>2, BegunTyped
    <2>4. CallTyped("join", Idle) /\ CallTyped("ops", Idle)
        <3>1. "" \in Command  BY Members
        <3> QED  BY <1>3, <2>2, <3>1, BegunTyped
    <2>5. CASE Verify
        <3>1. "VerifyLeader" \in Command  BY Members
        <3> QED  BY <2>3, <2>5, <3>1 DEF Verify
    <2>6. CASE Verified
        <3>1. PICK cmd : cmd = IF WatchOnly THEN "AddNonvoter" ELSE "AddVoter"  OBVIOUS
        <3>2. cmd \in Command  BY <3>1, Members
        <3> QED  BY <2>3, <2>6, <3>1, <3>2 DEF Verified
    <2>7. CASE NotVerified \/ Added  BY <2>4, <2>7 DEF NotVerified, Added
    <2>8. CASE OpsReturns
        <3>1. call["ops"] \in CallRecord  BY <1>3 DEF Base, CallsTyped
        <3>2. PICK cmd : cmd = call["ops"].cmd  OBVIOUS
        <3>3. PICK k : k = [Idle EXCEPT !.at = "ended", !.cmd = cmd]  OBVIOUS
        <3>4. Idle \in CallRecord /\ Idle.tries <= Retries["ops"] + 1 /\ Idle.hops <= MaxHops
            BY <2>4 DEF CallTyped
        <3>5. cmd \in Command /\ "ended" \in CallAt  BY <3>1, <3>2, Members DEF CallRecord
        <3>6. k \in CallRecord /\ k.at = "ended" /\ k.tries = Idle.tries /\ k.hops = Idle.hops
            BY <3>3, <3>4, <3>5 DEF CallRecord
        <3>7. CallTyped("ops", k)  BY <3>4, <3>6 DEF CallTyped
        <3> QED  BY <2>8, <3>2, <3>3, <3>7 DEF OpsReturns
    <2>9. CASE \E cmd \in OpsCommand : OpsCall(cmd)
        <3>1. PICK cmd \in OpsCommand : OpsCall(cmd)  BY <2>9
        <3>2. cmd \in Command  BY Members
        <3>6. PICK body \in {"none", "full"} : body = IF cmd = "LeadershipTransfer" THEN "full" ELSE "none"
            OBVIOUS
        <3>3. CallTyped("ops", Begun(Addresses[1], cmd, body))  BY <2>3, <3>2
        <3>4. call["ops"].at # "wait"
            <4>1. Idle.at = "idle"  BY DEF Idle
            <4> QED  BY <3>1, <4>1 DEF OpsCall
        <3>5. call' = [call EXCEPT !["ops"] = Begun(Addresses[1], cmd, body)]
            BY <3>1, <3>6 DEF OpsCall
        <3> QED  BY <3>3, <3>4, <3>5
    <2> QED  BY <2>5, <2>6, <2>7, <2>8, <2>9 DEF Clients
<1>7. CallsTyped' /\ Together(serving', call', operations')
    BY <1>2, <1>3, <1>6, CallSet
<1> QED  BY <1>1, <1>5, <1>7 DEF Base

LEMMA BaseLookup == ASSUME Base, LookupFails PROVE Base'
<1>1. RaftTyped'  BY DEF LookupFails, raftVars, Base, RaftTyped
<1>2. join' = [join EXCEPT !.at = "panic"] /\ join \in Joining  BY DEF LookupFails, Base, AdminTyped
<1>3. join' \in Joining  BY <1>2 DEF Joining
<1>4. AdminTyped'  BY <1>3 DEF LookupFails, Base, AdminTyped
<1>5. call' = call /\ serving' = serving /\ operations' = operations  BY DEF LookupFails
<1>6. CallsTyped'  BY <1>5 DEF Base, CallsTyped, CallTyped
<1> QED  BY <1>1, <1>4, <1>5, <1>6 DEF Base

LEMMA BaseStutters == ASSUME Base, UNCHANGED vars PROVE Base'
<1>1. RaftTyped'  BY RaftKept DEF Base, vars, transportVars, httpVars
<1>2. AdminTyped'  BY AdminKept DEF Base, vars
<1>3. call' = call /\ serving' = serving /\ operations' = operations
    BY DEF vars, transportVars, httpVars, adminVars
<1>4. CallsTyped'  BY <1>3 DEF Base, CallsTyped, CallTyped
<1> QED  BY <1>1, <1>2, <1>3, <1>4 DEF Base

\* Every step of the system is one of these.
LEMMA StepCases ==
    ASSUME Next, NEW Q,
           ASSUME NEW c \in Caller, Deliver(c), Elsewhere PROVE Q,
           ASSUME NEW c \in Caller, DialFails(c) \/ BodyConsumed(c), Elsewhere PROVE Q,
           ASSUME NEW c \in Caller, Receive(c), Elsewhere PROVE Q,
           ASSUME NEW c \in Caller, Lose(c), Elsewhere PROVE Q,
           ASSUME NEW n \in Node, NEW m \in Node, AppendEntries(n, m), UNCHANGED adminVars PROVE Q,
           ASSUME NEW h \in serving, NEW m \in Node, TimeoutNow(h, m), UNCHANGED adminVars PROVE Q,
           ASSUME SendReturns, UNCHANGED adminVars PROVE Q,
           ASSUME NEW h \in serving, handle(h), UNCHANGED adminVars PROVE Q,
           ASSUME NEW h \in serving, handleFails(h), UNCHANGED adminVars PROVE Q,
           ASSUME NEW n \in Node, Elect(n), UNCHANGED adminVars PROVE Q,
           ASSUME NEW n \in Node, StepDown(n) \/ LoseContact(n), UNCHANGED adminVars PROVE Q,
           ASSUME NEW h \in serving, ServeHTTP(h) PROVE Q,
           ASSUME NEW h \in serving, Await(h) PROVE Q,
           ASSUME NEW h \in serving, RaftTakes(h) PROVE Q,
           ASSUME Commit PROVE Q,
           ASSUME LookupFails PROVE Q,
           ASSUME Clients PROVE Q
    PROVE  Q
<1>1. CASE AdminSteps  BY <1>1, Zenon DEF AdminSteps, Clients
<1>2. CASE \E c \in Caller : HttpSteps(c) /\ UNCHANGED <<raftVars, sent, ran, adminVars>>
    BY <1>2, Zenon DEF HttpSteps, Elsewhere
<1>3. CASE TransportSteps /\ UNCHANGED adminVars  BY <1>3, Zenon DEF TransportSteps
<1>4. CASE \E cmd \in OpsCommand : OpsCall(cmd)  BY <1>4, Zenon DEF Clients
<1>5. CASE \E c \in Caller : HttpFaults(c) /\ UNCHANGED <<raftVars, sent, ran, adminVars>>
    BY <1>5, Zenon DEF HttpFaults, Elsewhere
<1>6. CASE TransportFaults /\ UNCHANGED adminVars  BY <1>6, Zenon DEF TransportFaults
<1> QED  BY <1>1, <1>2, <1>3, <1>4, <1>5, <1>6, Zenon DEF Next, Steps

LEMMA BaseStep == Base /\ [Next]_vars => Base'
<1> SUFFICES ASSUME Base, Next \/ UNCHANGED vars PROVE Base'  OBVIOUS
<1>1. CASE UNCHANGED vars  BY <1>1, BaseStutters
<1>2. CASE Next
    <2>1. ASSUME NEW n \in Node, NEW m \in Node, AppendEntries(n, m), UNCHANGED adminVars PROVE Base'
        <3>1. NoNode \in serving \cup {NoNode}  OBVIOUS
        <3> QED  BY <2>1, <3>1, BaseSends
    <2>2. ASSUME NEW h \in serving, NEW m \in Node, TimeoutNow(h, m), UNCHANGED adminVars PROVE Base'
        <3>1. h \in serving \cup {NoNode}  OBVIOUS
        <3> QED  BY <2>2, <3>1, BaseSends
    <2> QED  BY <1>2, <2>1, <2>2, StepCases, BaseDeliver, BaseFailed, BaseReceive, BaseLose,
                BaseSendReturns, BaseHandle, BaseHandleFails, BaseElect, BaseKnown, BaseServe,
                BaseAwait, BaseTakes, BaseCommit, BaseLookup, BaseClients, Zenon
<1> QED  BY <1>1, <1>2

-----------------------------------------------------------------------------
(* Commands take effect once *)

LEMMA BodyCommands ==
    /\ JoinCmd \in Body
    /\ \A x \in {"", "none", "VerifyLeader", "LeadershipTransfer", "AppendEntries", "TimeoutNow"} :
          x \notin Body
    /\ \A x \in OpsCommand : x \notin Body
<1>1. \A x \in OpsCommand : x \notin Body  BY JoinAssumption
<1>2. JoinCmd \in Body  BY DEF JoinCmd, Body
<1>3. \A x \in {"", "none", "VerifyLeader", "LeadershipTransfer", "AppendEntries", "TimeoutNow"} :
          x \notin Body
    BY DEF Body
<1> QED  BY <1>1, <1>2, <1>3

\* The handler g continues h: it is as far as h or farther.
Continues(g, h) ==
    /\ g.caller = h.caller /\ g.id = h.id /\ g.cmd = h.cmd
    /\ g.at = "new" => h.at = "new"
    /\ MayAdd(g) => MayAdd(h)

Comes(g, h) == Continues(g, h) /\ ((g.cmd \in Body /\ Succeeded(g)) => Succeeded(h))

LEMMA ComesSame == ASSUME NEW h PROVE Comes(h, h)
BY DEF Comes, Continues

LEMMA AnsweredComes ==
    ASSUME Base, NEW h \in serving, NEW s, NEW n, s = Redirect => h.at = "new",
           s = 202 => h.future = "ok"
    PROVE  \A g \in Answered(h, s, n) : \E k \in serving : Comes(g, k)
<1> SUFFICES ASSUME NEW g \in Answered(h, s, n) PROVE \E k \in serving : Comes(g, k)  OBVIOUS
<1>1. h \in Request  BY DEF Base, Together
<1>2. CASE g \in serving  BY <1>2, ComesSame
<1>3. CASE g \notin serving
    <2>1. g = [h EXCEPT !.at = "done", !.status = s, !.hint = n, !.future = "none"]
        BY <1>3 DEF Answered
    <2>2. /\ g.caller = h.caller /\ g.id = h.id /\ g.cmd = h.cmd /\ g.at = "done" /\ g.status = s
          /\ g.future = "none"
        BY <1>1, <2>1 DEF Request
    <2>3. Comes(g, h)  BY <2>2 DEF Comes, Continues, MayAdd, Succeeded
    <2> QED  BY <2>3
<1> QED  BY <1>2, <1>3

\* Proposed futures that fail.
LEMMA FailedComes ==
    ASSUME NEW S, S \subseteq Request,
           \A g \in S : \E k \in serving : Comes(g, k)
    PROVE  \A g \in {IF h.future = "proposed" THEN [h EXCEPT !.future = "error"] ELSE h : h \in S} :
              \E k \in serving : Comes(g, k)
<1> SUFFICES ASSUME NEW h \in S, NEW g,
                    g = IF h.future = "proposed" THEN [h EXCEPT !.future = "error"] ELSE h
             PROVE  \E k \in serving : Comes(g, k)
    OBVIOUS
<1>1. PICK k \in serving : Comes(h, k)  OBVIOUS
<1>2. CASE h.future # "proposed"  BY <1>1, <1>2
<1>3. CASE h.future = "proposed"
    <2>1. g = [h EXCEPT !.future = "error"] /\ h \in Request  BY <1>3
    <2>2. /\ g.caller = h.caller /\ g.id = h.id /\ g.cmd = h.cmd /\ g.at = h.at
          /\ g.status = h.status /\ g.future = "error"
        BY <2>1 DEF Request
    <2>3. Comes(g, k)  BY <1>1, <2>2 DEF Comes, Continues, MayAdd, Succeeded
    <2> QED  BY <2>3
<1> QED  BY <1>2, <1>3

\* What holds of the handlers holds of those that continue them.
LEMMA ContinuedOnce ==
    ASSUME Base, Base', AddedOnce, PeerOnce,
           \A g \in serving' : \E k \in serving : Continues(g, k)
    PROVE  /\ "join" \notin lost =>
                /\ \A g, h \in serving' : g.cmd \in Body /\ h.cmd \in Body => g = h
                /\ \A h \in serving' : MayAdd(h) => entry = NoEntry /\ adds = 0
                /\ ToCome => \A h \in serving' : h.cmd \notin Body
           /\ \A h \in serving' : h.cmd \in Body => h.cmd = JoinCmd
           /\ Peer \notin lost =>
                /\ \A g, h \in serving' : g.caller = Peer /\ h.caller = Peer => g = h
                /\ \A h \in serving' : h.caller = Peer /\ h.at = "new" => ran = 0
           /\ (\A h \in serving : h.caller # Peer) => \A h \in serving' : h.caller # Peer
<1>1. \A g, h \in serving' : Token(g) = Token(h) => g = h  BY DEF Base, Together
<1>2. ASSUME "join" \notin lost, NEW g \in serving', NEW h \in serving', g.cmd \in Body, h.cmd \in Body
      PROVE  g = h
    <2>1. PICK j \in serving : Continues(g, j)  OBVIOUS
    <2>2. PICK k \in serving : Continues(h, k)  OBVIOUS
    <2>3. j = k  BY <1>2, <2>1, <2>2 DEF Continues, AddedOnce, NodeOnce
    <2>4. Token(g) = Token(h)  BY <2>1, <2>2, <2>3 DEF Continues, Token
    <2> QED  BY <1>1, <2>4
<1>3. ASSUME Peer \notin lost, NEW g \in serving', NEW h \in serving', g.caller = Peer, h.caller = Peer
      PROVE  g = h
    <2>1. PICK j \in serving : Continues(g, j)  OBVIOUS
    <2>2. PICK k \in serving : Continues(h, k)  OBVIOUS
    <2>3. j = k  BY <1>3, <2>1, <2>2 DEF Continues, PeerOnce, RanOnce
    <2>4. Token(g) = Token(h)  BY <2>1, <2>2, <2>3 DEF Continues, Token
    <2> QED  BY <1>1, <2>4
<1>4. \A h \in serving' : h.cmd \in Body => h.cmd = JoinCmd  BY DEF AddedOnce, Continues
<1>5. "join" \notin lost => \A h \in serving' : MayAdd(h) => entry = NoEntry /\ adds = 0
    BY DEF AddedOnce, NodeOnce, Continues
<1>6. "join" \notin lost => (ToCome => \A h \in serving' : h.cmd \notin Body)
    BY DEF AddedOnce, NodeOnce, Continues
<1>7. Peer \notin lost => \A h \in serving' : h.caller = Peer /\ h.at = "new" => ran = 0
    BY DEF PeerOnce, RanOnce, Continues
<1>8. (\A h \in serving : h.caller # Peer) => \A h \in serving' : h.caller # Peer
    BY DEF Continues
<1> QED  BY <1>2, <1>3, <1>4, <1>5, <1>6, <1>7, <1>8

\* A step of the handlers alone: calls and the joining node stay, raft adds nothing.
LEMMA EffectsOfHandlers ==
    ASSUME Base, Base', Effects, \A g \in serving' : \E k \in serving : Comes(g, k),
           call' = call, join' = join, adds' = adds, member' = member, lost' = lost,
           entry' = entry \/ (entry' = NoEntry) \/ (entry # NoEntry /\ entry'.op = entry.op),
           ran' = ran \/ PeerOnce'
    PROVE  Effects'
<1>1. BodyCalls'  BY DEF Effects, BodyCalls
<1>2. \A g \in serving' : \E k \in serving : Continues(g, k)  BY DEF Comes
<1>3. /\ "join" \notin lost =>
           /\ \A g, h \in serving' : g.cmd \in Body /\ h.cmd \in Body => g = h
           /\ \A h \in serving' : MayAdd(h) => entry = NoEntry /\ adds = 0
           /\ ToCome => \A h \in serving' : h.cmd \notin Body
      /\ \A h \in serving' : h.cmd \in Body => h.cmd = JoinCmd
      /\ Peer \notin lost =>
           /\ \A g, h \in serving' : g.caller = Peer /\ h.caller = Peer => g = h
           /\ \A h \in serving' : h.caller = Peer /\ h.at = "new" => ran = 0
      /\ (\A h \in serving : h.caller # Peer) => \A h \in serving' : h.caller # Peer
    BY <1>2, ContinuedOnce DEF Effects
<1>4. ToCome' = ToCome  BY DEF ToCome
<1>5. entry = NoEntry => entry' = NoEntry  OBVIOUS
<1>6. AddedOnce'
    <2>1. "join" \notin lost => NodeOnce'  BY <1>3, <1>4, <1>5 DEF Effects, AddedOnce, NodeOnce
    <2> QED  BY <1>3, <1>5, <2>1 DEF Effects, AddedOnce
<1>7. Reported'
    <2>1. ASSUME NEW g \in serving', g.cmd \in Body, Succeeded(g) PROVE adds' >= 1
        <3>1. PICK k \in serving : Comes(g, k)  OBVIOUS
        <3> QED  BY <2>1, <3>1 DEF Comes, Continues, Effects, Reported
    <2> QED  BY <2>1 DEF Effects, Reported
<1>8. PeerOnce'  BY <1>3 DEF Effects, PeerOnce, RanOnce
<1> QED  BY <1>1, <1>6, <1>7, <1>8 DEF Effects

LEMMA EffectsServe ==
    ASSUME Base, Base', Effects, NEW h \in serving, ServeHTTP(h)
    PROVE  Effects'
<1>1. h \in Request /\ h.at = "new"  BY DEF Base, Together, ServeHTTP
<1>2. \A g \in serving' : \E k \in serving : Comes(g, k)
    <2>1. ASSUME NEW s, NEW n, s # 202, serving' = Answered(h, s, n)
          PROVE  \A g \in serving' : \E k \in serving : Comes(g, k)
        BY <1>1, <2>1, AnsweredComes
    <2>2. PICK s : s = IF h.cmd \in Read THEN 200 ELSE 400  OBVIOUS
    <2>3. 503 # 202 /\ Redirect # 202 /\ s # 202  BY <2>2 DEF Redirect
    <2>5. CASE serving' = Answered(h, 503, NoNode)  BY <2>1, <2>3, <2>5
    <2>6. CASE serving' = Answered(h, Redirect, known[h.node])  BY <2>1, <2>3, <2>6
    <2>7. CASE serving' = Answered(h, IF h.cmd \in Read THEN 200 ELSE 400, NoNode)
        BY <2>1, <2>2, <2>3, <2>7
    <2>4. CASE serving' = (serving \ {h}) \cup {[h EXCEPT !.at = "await", !.future = "pending"]}
        <3>1. PICK f : f = [h EXCEPT !.at = "await", !.future = "pending"]  OBVIOUS
        <3>2. f.caller = h.caller /\ f.id = h.id /\ f.cmd = h.cmd /\ f.at = "await" /\ f.future = "pending"
            BY <1>1, <3>1 DEF Request
        <3>3. Comes(f, h)  BY <1>1, <3>2 DEF Comes, Continues, MayAdd, Succeeded
        <3> QED  BY <2>4, <3>1, <3>3, ComesSame
    <2> QED  BY <2>4, <2>5, <2>6, <2>7 DEF ServeHTTP
<1> QED  BY <1>2, EffectsOfHandlers DEF ServeHTTP, raftVars

LEMMA EffectsAwait ==
    ASSUME Base, Base', Effects, NEW h \in serving, Await(h)
    PROVE  Effects'
<1>1. \A g \in serving' : \E k \in serving : Comes(g, k)
    <2>1. CASE h.future \in {"ok", "error"}
               /\ serving' = Answered(h, IF h.future = "ok" THEN 202 ELSE 400, NoNode)
        <3>1. PICK s : s = IF h.future = "ok" THEN 202 ELSE 400  OBVIOUS
        <3>2. s # Redirect /\ (s = 202 => h.future = "ok")  BY <3>1 DEF Redirect
        <3> QED  BY <2>1, <3>1, <3>2, AnsweredComes
    <2>2. CASE serving' = Answered(h, 500, NoNode)
        <3>1. 500 # Redirect /\ 500 # 202  BY DEF Redirect
        <3> QED  BY <2>2, <3>1, AnsweredComes
    <2> QED  BY <2>1, <2>2 DEF Await
<1> QED  BY <1>1, EffectsOfHandlers DEF Await, raftVars

\* A future is resolved; success is only for commands without a body.
LEMMA ResolvedComes ==
    ASSUME Base, NEW h \in serving, NEW r, r \in {"error", "proposed"} \/ (r = "ok" /\ h.cmd \notin Body)
    PROVE  \A g \in (serving \ {h}) \cup {[h EXCEPT !.future = r]} : \E k \in serving : Comes(g, k)
<1>1. h \in Request /\ Attended(h, call[h.caller])  BY DEF Base, Together
<1>2. PICK f : f = [h EXCEPT !.future = r]  OBVIOUS
<1>3. f.caller = h.caller /\ f.id = h.id /\ f.cmd = h.cmd /\ f.at = h.at /\ f.future = r
      /\ f.status = h.status
    BY <1>1, <1>2 DEF Request
<1>4. Comes(f, h)  BY <1>3 DEF Comes, Continues, MayAdd, Succeeded
<1> QED  BY <1>2, <1>4, ComesSame

LEMMA EffectsTakes ==
    ASSUME Base, Base', Effects, NEW h \in serving, RaftTakes(h)
    PROVE  Effects'
<1>1. h \in Request /\ h.at = "await" /\ h.future = "pending"  BY DEF Base, Together, RaftTakes
<1>2. call' = call /\ join' = join /\ adds' = adds /\ member' = member /\ ran' = ran /\ lost' = lost
    BY DEF RaftTakes, adminVars
<1>3. CASE entry' = entry /\ (Resolve(h, "error") \/ (Resolve(h, "ok") /\ h.cmd \notin Body))
    <2>1. \A g \in serving' : \E k \in serving : Comes(g, k)
        BY <1>3, ResolvedComes DEF Resolve
    <2> QED  BY <1>2, <1>3, <2>1, EffectsOfHandlers
<1>4. CASE /\ h.cmd \in Body /\ entry = NoEntry /\ Resolve(h, "proposed")
           /\ entry' = [op |-> h.cmd, by |-> h.node, caller |-> h.caller, id |-> h.id,
                        at |-> {h.node}, acks |-> {h.node}]
    <2>1. \A g \in serving' : \E k \in serving : Comes(g, k)
        BY <1>4, ResolvedComes DEF Resolve
    <2>2. /\ MayAdd(h) /\ h.cmd = JoinCmd
          /\ "join" \notin lost => adds = 0 /\ ~ToCome
        BY <1>1, <1>4 DEF MayAdd, Effects, AddedOnce, NodeOnce
    <2>3. entry'.op = JoinCmd  BY <1>4, <2>2
    <2>4. \A g \in serving' : \E k \in serving : Continues(g, k)  BY <2>1 DEF Comes
    <2>5. /\ "join" \notin lost => \A g, k \in serving' : g.cmd \in Body /\ k.cmd \in Body => g = k
          /\ \A g \in serving' : g.cmd \in Body => g.cmd = JoinCmd
          /\ Peer \notin lost =>
               /\ \A g, k \in serving' : g.caller = Peer /\ k.caller = Peer => g = k
               /\ \A k \in serving' : k.caller = Peer /\ k.at = "new" => ran = 0
          /\ (\A k \in serving : k.caller # Peer) => \A k \in serving' : k.caller # Peer
        BY <2>4, ContinuedOnce DEF Effects
    <2>6. ASSUME "join" \notin lost PROVE \A g \in serving' : ~MayAdd(g)
        <3>1. PICK f : f = [h EXCEPT !.future = "proposed"]  OBVIOUS
        <3>2. f \in serving' /\ f.cmd = h.cmd /\ f.at = "await" /\ f.future = "proposed"
            BY <1>1, <1>4, <3>1 DEF Resolve, Request
        <3>3. ~MayAdd(f)  BY <3>2 DEF MayAdd
        <3>4. ASSUME NEW g \in serving', MayAdd(g) PROVE FALSE
            <4>1. g = f  BY <1>4, <2>5, <2>6, <3>2, <3>4 DEF MayAdd
            <4> QED  BY <3>3, <3>4, <4>1
        <3> QED  BY <3>4
    <2>7. "join" \notin lost => ~ToCome'  BY <1>2, <2>2 DEF ToCome
    <2>8. BodyCalls'  BY <1>2 DEF Effects, BodyCalls
    <2>9. AddedOnce'
        <3>1. "join" \notin lost => NodeOnce'  BY <1>2, <2>2, <2>5, <2>6, <2>7 DEF NodeOnce
        <3> QED  BY <1>2, <2>3, <2>5, <3>1 DEF Effects, AddedOnce
    <2>10. Reported'
        <3>1. ASSUME NEW g \in serving', g.cmd \in Body, Succeeded(g) PROVE adds' >= 1
            <4>1. PICK k \in serving : Comes(g, k)  BY <2>1
            <4> QED  BY <1>2, <3>1, <4>1 DEF Comes, Continues, Effects, Reported
        <3> QED  BY <1>2, <3>1 DEF Effects, Reported
    <2>11. PeerOnce'  BY <1>2, <2>5 DEF Effects, PeerOnce, RanOnce
    <2> QED  BY <2>8, <2>9, <2>10, <2>11 DEF Effects
<1>5. "VerifyLeader" \notin Body /\ "LeadershipTransfer" \notin Body  BY BodyCommands
<1> QED  BY <1>3, <1>4, <1>5 DEF RaftTakes

LEMMA EffectsHandle ==
    ASSUME Base, Base', Effects, NEW h \in serving, handle(h), UNCHANGED adminVars
    PROVE  Effects'
<1>1. h \in Request /\ h.at = "new" /\ h.caller = Peer  BY DEF Base, Together, handle
<1>2. \A g \in Answered(h, 200, NoNode) : \E k \in serving : Comes(g, k)
    <2>1. 200 # Redirect /\ 200 # 202  BY DEF Redirect
    <2> QED  BY <2>1, AnsweredComes
<1>3. \A g \in serving' : \E k \in serving : Comes(g, k)
    <2>1. CASE serving' = Answered(h, 200, NoNode)  BY <1>2, <2>1
    <2>2. CASE Elected(h.node, Answered(h, 200, NoNode))
        <3>1. Answered(h, 200, NoNode) \subseteq Request
            <4>1. 200 \in Nat /\ 200 # Redirect  BY DEF Redirect
            <4>2. NoNode \in MaybeNode /\ h.at # "await" /\ h.at # "done"  BY <1>1, Members
            <4>3. Together(Answered(h, 200, NoNode), call, operations)
                BY <4>1, <4>2, HandlerAnswers
            <4> QED  BY <4>3 DEF Together
        <3> QED  BY <1>2, <2>2, <3>1, FailedComes DEF Elected
    <2> QED  BY <2>1, <2>2 DEF handle
<1>4. entry' = entry \/ (entry' = NoEntry) \/ (entry # NoEntry /\ entry'.op = entry.op)
    <2>1. entry \in Entry /\ NoEntry.by = NoNode /\ NoEntry.at = {}  BY DEF Base, RaftTyped, NoEntry
    <2>2. leader # NoNode  BY HttpAssumption DEF Base, RaftTyped
    <2>3. CASE h.cmd = "TimeoutNow" /\ leader = sent.from /\ elections < MaxElections
        <3>1. entry' = IF h.node \in entry.at THEN [entry EXCEPT !.by = h.node, !.acks = {h.node}]
                       ELSE NoEntry
            BY <2>3 DEF handle, Elected
        <3> QED  BY <2>1, <3>1 DEF Entry
    <2>4. CASE ~(h.cmd = "TimeoutNow" /\ leader = sent.from /\ elections < MaxElections)
        <3>1. entry' = entry \/ (/\ leader = sent.from /\ entry.by = sent.from
                                 /\ entry' = [entry EXCEPT !.at = @ \cup {h.node}])
            BY <2>4 DEF handle
        <3> QED  BY <2>1, <2>2, <3>1 DEF Entry
    <2> QED  BY <2>3, <2>4
<1>5. PeerOnce'
    <2> SUFFICES ASSUME Peer \notin lost, lost' = lost PROVE RanOnce'  BY DEF PeerOnce, handle
    <2>0. RanOnce  BY DEF Effects, PeerOnce
    <2>1. ran = 0 /\ ran' = 1 /\ call' = call  BY <1>1, <2>0 DEF RanOnce, handle
    <2>2. call[Peer].at # "send"  BY <1>1, <2>0 DEF RanOnce
    <2>3. \A g \in serving' : \E k \in serving : Continues(g, k)  BY <1>3 DEF Comes
    <2>4. \A g, k \in serving' : g.caller = Peer /\ k.caller = Peer => g = k
        BY <2>3, ContinuedOnce DEF Effects
    <2>5. ASSUME NEW g \in serving', g.caller = Peer, g.at = "new" PROVE FALSE
        <3>1. PICK S : S = Answered(h, 200, NoNode)  OBVIOUS
        <3>2. \A k \in S : k.caller = Peer /\ k.at = "new" => FALSE
            <4> SUFFICES ASSUME NEW k \in S, k.caller = Peer, k.at = "new" PROVE FALSE  OBVIOUS
            <4>1. CASE k \in serving \ {h}  BY <1>1, <2>0, <4>1 DEF RanOnce
            <4>2. CASE k = [h EXCEPT !.at = "done", !.status = 200, !.hint = NoNode, !.future = "none"]
                BY <1>1, <4>2 DEF Request
            <4> QED  BY <3>1, <4>1, <4>2 DEF Answered
        <3>3. CASE g \in S  BY <2>5, <3>2, <3>3
        <3>4. CASE \E k \in S : k.future = "proposed" /\ g = [k EXCEPT !.future = "error"]
            <4>1. PICK k \in S : k.future = "proposed" /\ g = [k EXCEPT !.future = "error"]  BY <3>4
            <4>2. k \in Request
                <5>1. 200 \in Nat /\ 200 # Redirect  BY DEF Redirect
                <5>2. NoNode \in MaybeNode /\ h.at # "await" /\ h.at # "done"  BY <1>1, Members
                <5>3. Together(S, call, operations)  BY <3>1, <5>1, <5>2, HandlerAnswers
                <5> QED  BY <5>3 DEF Together
            <4>3. k.caller = g.caller /\ k.at = g.at  BY <4>1, <4>2 DEF Request
            <4> QED  BY <2>5, <3>2, <4>3
        <3> QED  BY <3>1, <3>3, <3>4 DEF handle, Elected
    <2> QED  BY <2>1, <2>2, <2>4, <2>5 DEF RanOnce
<1>6. call' = call /\ join' = join /\ adds' = adds /\ member' = member /\ lost' = lost
    BY DEF handle, adminVars
<1> QED  BY <1>3, <1>4, <1>5, <1>6, EffectsOfHandlers

LEMMA EffectsHandleFails ==
    ASSUME Base, Base', Effects, NEW h \in serving, handleFails(h), UNCHANGED adminVars
    PROVE  Effects'
<1>1. 400 # Redirect /\ 400 # 202  BY DEF Redirect
<1>2. \A g \in serving' : \E k \in serving : Comes(g, k)
    BY <1>1, AnsweredComes DEF handleFails
<1> QED  BY <1>2, EffectsOfHandlers DEF handleFails, raftVars, adminVars

LEMMA EffectsElect ==
    ASSUME Base, Base', Effects, NEW n \in Node, Elect(n), UNCHANGED adminVars
    PROVE  Effects'
<1>1. \A g \in serving' : \E k \in serving : Comes(g, k)
    <2>1. serving \subseteq Request /\ \A g \in serving : \E k \in serving : Comes(g, k)
        BY ComesSame DEF Base, Together
    <2> QED  BY <2>1, FailedComes DEF Elect, Elected
<1>2. entry' = entry \/ (entry' = NoEntry) \/ (entry # NoEntry /\ entry'.op = entry.op)
    <2>1. entry \in Entry /\ NoEntry.at = {}  BY DEF Base, RaftTyped, NoEntry
    <2>2. entry' = IF n \in entry.at THEN [entry EXCEPT !.by = n, !.acks = {n}] ELSE NoEntry
        BY DEF Elect, Elected
    <2> QED  BY <2>1, <2>2 DEF Entry
<1> QED  BY <1>1, <1>2, EffectsOfHandlers DEF Elect, adminVars

LEMMA EffectsKnown ==
    ASSUME Base, Base', Effects, NEW n \in Node, StepDown(n) \/ LoseContact(n), UNCHANGED adminVars
    PROVE  Effects'
<1>1. /\ serving' = serving /\ call' = call /\ join' = join /\ adds' = adds /\ member' = member
      /\ entry' = entry /\ ran' = ran /\ lost' = lost
    BY DEF StepDown, LoseContact, httpVars, adminVars
<1>2. \A g \in serving' : \E k \in serving : Comes(g, k)  BY <1>1, ComesSame
<1> QED  BY <1>1, <1>2, EffectsOfHandlers

LEMMA EffectsCommit ==
    ASSUME Base, Base', Effects, Commit
    PROVE  Effects'
<1>1. /\ entry.op = JoinCmd
      /\ "join" \notin lost => adds = 0 /\ ~ToCome /\ \A h \in serving : ~MayAdd(h)
    BY DEF Commit, Effects, AddedOnce, NodeOnce
<1>2. /\ adds' = adds + 1 /\ entry' = NoEntry /\ call' = call /\ join' = join /\ ran' = ran
      /\ lost' = lost
    BY <1>1 DEF Commit
<1>12. adds' >= 1  BY <1>2 DEF Base, AdminTyped
<1>3. member' = IF WatchOnly THEN "nonvoter" ELSE "voter"
    BY <1>1, JoinAssumption DEF Commit, JoinCmd
<1>4. \A g \in serving' : \E k \in serving : Continues(g, k)
    <2> SUFFICES ASSUME NEW h \in serving, NEW g, g = h \/ g = [h EXCEPT !.future = "ok"]
                 PROVE  Continues(g, h)
        BY DEF Commit
    <2>1. CASE g = h  BY <2>1 DEF Continues
    <2>2. CASE g = [h EXCEPT !.future = "ok"]
        <3>1. h \in Request  BY DEF Base, Together
        <3>2. g.caller = h.caller /\ g.id = h.id /\ g.cmd = h.cmd /\ g.at = h.at /\ g.status = h.status
              /\ g.future = "ok"
            BY <2>2, <3>1 DEF Request
        <3> QED  BY <3>2 DEF Continues, MayAdd
    <2> QED  BY <2>1, <2>2
<1>5. /\ "join" \notin lost => \A g, k \in serving' : g.cmd \in Body /\ k.cmd \in Body => g = k
      /\ \A g \in serving' : g.cmd \in Body => g.cmd = JoinCmd
      /\ Peer \notin lost =>
           /\ \A g, k \in serving' : g.caller = Peer /\ k.caller = Peer => g = k
           /\ \A k \in serving' : k.caller = Peer /\ k.at = "new" => ran = 0
      /\ (\A k \in serving : k.caller # Peer) => \A k \in serving' : k.caller # Peer
    BY <1>4, ContinuedOnce DEF Effects
<1>6. "join" \notin lost => \A g \in serving' : ~MayAdd(g)  BY <1>1, <1>4 DEF Continues
<1>7. "join" \notin lost => ~ToCome'  BY <1>1, <1>2 DEF ToCome
<1>8. BodyCalls'  BY <1>2 DEF Effects, BodyCalls
<1>9. AddedOnce'
    <2>1. "join" \notin lost => NodeOnce'  BY <1>1, <1>2, <1>5, <1>6, <1>7 DEF NodeOnce
    <2> QED  BY <1>2, <1>3, <1>5, <2>1 DEF AddedOnce
<1>10. Reported'  BY <1>12 DEF Reported
<1>11. PeerOnce'  BY <1>2, <1>5 DEF Effects, PeerOnce, RanOnce
<1> QED  BY <1>8, <1>9, <1>10, <1>11 DEF Effects

\* The call c goes on with the same command: k is what becomes of it.
Onward(k, j) ==
    /\ j.cmd = k.cmd /\ (j.body = "none" <=> k.body = "none")

LEMMA FailedOnward ==
    ASSUME NEW c \in Caller, NEW k, CallTyped(c, k), k.at \in {"send", "wait"}
    PROVE  /\ Onward(k, Failed(k, c)) /\ Failed(k, c).at \in {"send", "ended"}
           /\ Failed(k, c).at = "ended" => Failed(k, c).status = 0
<1>1. k \in CallRecord /\ (k.at = "wait" => k.body # "full")  BY DEF CallTyped
<1>2. PICK j : j = Failed(k, c)  OBVIOUS
<1>3. CASE k.tries > Retries[c]
    <2>1. j.at = "ended" /\ j.cmd = k.cmd /\ j.body = k.body /\ j.status = 0
        BY <1>1, <1>2, <1>3 DEF Failed, CallRecord
    <2> QED  BY <1>2, <2>1 DEF Onward
<1>4. CASE ~(k.tries > Retries[c])
    <2>1. j.at = "send" /\ j.cmd = k.cmd
          /\ j.body = IF k.body = "none" \/ (k.body = "full" /\ k.hops = 0) THEN k.body ELSE "read"
        BY <1>1, <1>2, <1>4 DEF Failed, CallRecord
    <2> QED  BY <1>1, <1>2, <2>1 DEF Onward
<1> QED  BY <1>3, <1>4

\* A command goes on: the call of c, without handlers that are new.
LEMMA EffectsOfCalls ==
    ASSUME Base, Base', Effects, NEW c \in Caller, NEW j, call' = [call EXCEPT ![c] = j],
           Onward(call[c], j), Elsewhere, \A g \in serving' : \E k \in serving : Comes(g, k),
           j.at \in {"send", "ended"},
           lost' = lost \/ lost' = lost \cup {c},
           c \notin lost' /\ j.at = "send" /\ c = Peer => call[c].at = "send",
           c \notin lost' /\ j.at = "send" /\ c = "join" /\ join.at = "adding" =>
              ToCome \/ (entry = NoEntry /\ adds = 0 /\ \A h \in serving' : h.cmd \notin Body),
           j.at = "ended" /\ j.status = 202 /\ c = "join" /\ join.at = "adding" => adds >= 1
    PROVE  Effects'
<1>1. /\ join' = join /\ adds' = adds /\ member' = member /\ entry' = entry /\ ran' = ran
    BY DEF Elsewhere, raftVars, adminVars
<1>2. call'[c] = j /\ \A d \in Caller : d # c => call'[d] = call[d]  BY DEF Base, CallsTyped
<1>3. {"join", Peer} \subseteq Caller  BY JoinAssumption
<1>4. BodyCalls'
    <2>1. ASSUME NEW d \in Caller, call'[d].cmd \in Body
          PROVE  d = "join" /\ join.at = "adding" /\ call'[d].body # "none" /\ call'[d].cmd = JoinCmd
        BY <1>2, <2>1 DEF Onward, Effects, BodyCalls
    <2>2. join.at = "adding" => call'["join"].cmd = JoinCmd
        BY <1>2, <1>3 DEF Onward, Effects, BodyCalls
    <2> QED  BY <1>1, <2>1, <2>2 DEF BodyCalls
<1>5. \A g \in serving' : \E k \in serving : Continues(g, k)  BY DEF Comes
<1>6. /\ "join" \notin lost =>
           /\ \A g, h \in serving' : g.cmd \in Body /\ h.cmd \in Body => g = h
           /\ \A h \in serving' : MayAdd(h) => entry = NoEntry /\ adds = 0
           /\ ToCome => \A h \in serving' : h.cmd \notin Body
      /\ \A h \in serving' : h.cmd \in Body => h.cmd = JoinCmd
      /\ Peer \notin lost =>
           /\ \A g, h \in serving' : g.caller = Peer /\ h.caller = Peer => g = h
           /\ \A h \in serving' : h.caller = Peer /\ h.at = "new" => ran = 0
      /\ (\A h \in serving : h.caller # Peer) => \A h \in serving' : h.caller # Peer
    BY <1>5, ContinuedOnce DEF Effects
<1>7. "join" \notin lost' /\ ToCome' =>
        ToCome \/ (entry = NoEntry /\ adds = 0 /\ \A h \in serving' : h.cmd \notin Body)
    <2>1. CASE c = "join"  BY <1>1, <1>2, <2>1 DEF ToCome
    <2>2. CASE c # "join"
        <3>1. call'["join"] = call["join"]  BY <1>2, <1>3, <2>2
        <3> QED  BY <1>1, <3>1 DEF ToCome
    <2> QED  BY <2>1, <2>2
<1>8. AddedOnce'
    <2>1. "join" \notin lost' => NodeOnce'  BY <1>1, <1>6, <1>7 DEF Effects, AddedOnce, NodeOnce
    <2> QED  BY <1>1, <1>6, <2>1 DEF Effects, AddedOnce
<1>9. Reported'
    <2>1. ASSUME NEW g \in serving', g.cmd \in Body, Succeeded(g) PROVE adds' >= 1
        <3>1. PICK k \in serving : Comes(g, k)  OBVIOUS
        <3> QED  BY <1>1, <2>1, <3>1 DEF Comes, Continues, Effects, Reported
    <2>2. join'.at = "adding" /\ call'["join"].at = "ended" /\ call'["join"].status = 202 => adds' >= 1
        <3>1. CASE c = "join"  BY <1>1, <1>2, <3>1
        <3>2. CASE c # "join"
            <4>1. call'["join"] = call["join"]  BY <1>2, <1>3, <3>2
            <4> QED  BY <1>1, <4>1 DEF Effects, Reported
        <3> QED  BY <3>1, <3>2
    <2> QED  BY <1>1, <2>1, <2>2 DEF Effects, Reported
<1>10. PeerOnce'
    <2>1. CASE c = Peer  BY <1>1, <1>2, <1>6, <2>1 DEF Effects, PeerOnce, RanOnce
    <2>2. CASE c # Peer
        <3>1. call'[Peer] = call[Peer]  BY <1>2, <1>3, <2>2
        <3> QED  BY <1>1, <1>6, <3>1 DEF Effects, PeerOnce, RanOnce
    <2> QED  BY <2>1, <2>2
<1> QED  BY <1>4, <1>8, <1>9, <1>10 DEF Effects

LEMMA EffectsFailed ==
    ASSUME Base, Base', Effects, NEW c \in Caller, DialFails(c) \/ BodyConsumed(c), Elsewhere
    PROVE  Effects'
<1>1. /\ call[c].at = "send" /\ serving' = serving /\ lost' = lost
      /\ call' = [call EXCEPT ![c] = Failed(call[c], c)]
    BY DEF DialFails, BodyConsumed
<1>2. PICK k, j : k = call[c] /\ j = Failed(k, c)  OBVIOUS
<1>3. /\ Onward(k, j) /\ j.at \in {"send", "ended"} /\ (j.at = "ended" => j.status = 0)
    BY <1>1, <1>2, FailedOnward DEF Base, CallsTyped
<1>4. \A g \in serving' : \E h \in serving : Comes(g, h)  BY <1>1, ComesSame
<1>5. c = "join" /\ join.at = "adding" => ToCome  BY <1>1 DEF ToCome
<1>6. ~(j.at = "ended" /\ j.status = 202)  BY <1>3
<1>7. call' = [call EXCEPT ![c] = j] /\ Onward(call[c], j)  BY <1>1, <1>2, <1>3
<1> QED  BY <1>1, <1>2, <1>3, <1>4, <1>5, <1>6, <1>7, EffectsOfCalls

LEMMA EffectsLose ==
    ASSUME Base, Base', Effects, NEW c \in Caller, Lose(c), Elsewhere
    PROVE  Effects'
<1>1. /\ call[c].at = "wait" /\ lost' = lost \cup {c}
      /\ call' = [call EXCEPT ![c] = Failed(call[c], c)]
      /\ serving' = (serving \ HandlerOf(c)) \cup
                    {[h EXCEPT !.gone = TRUE] : h \in {g \in HandlerOf(c) : g.at # "done"}}
    BY DEF Lose
<1>2. PICK k, j : k = call[c] /\ j = Failed(k, c)  OBVIOUS
<1>3. /\ Onward(k, j) /\ j.at \in {"send", "ended"} /\ (j.at = "ended" => j.status = 0)
    BY <1>1, <1>2, FailedOnward DEF Base, CallsTyped
<1>4. \A g \in serving' : \E h \in serving : Comes(g, h)
    <2> SUFFICES ASSUME NEW g \in serving' PROVE \E h \in serving : Comes(g, h)  OBVIOUS
    <2>1. CASE g \in serving  BY <2>1, ComesSame
    <2>2. CASE g \notin serving
        <3>1. PICK h \in serving : g = [h EXCEPT !.gone = TRUE]  BY <1>1, <2>2 DEF HandlerOf
        <3>2. h \in Request  BY DEF Base, Together
        <3>3. g.caller = h.caller /\ g.id = h.id /\ g.cmd = h.cmd /\ g.at = h.at /\ g.status = h.status
              /\ g.future = h.future
            BY <3>1, <3>2 DEF Request
        <3>4. Comes(g, h)  BY <3>3 DEF Comes, Continues, MayAdd, Succeeded
        <3> QED  BY <3>4
    <2> QED  BY <2>1, <2>2
<1>5. ~(j.at = "ended" /\ j.status = 202)  BY <1>3
<1>6. call' = [call EXCEPT ![c] = j] /\ Onward(call[c], j)  BY <1>1, <1>2, <1>3
<1> QED  BY <1>1, <1>2, <1>3, <1>4, <1>5, <1>6, EffectsOfCalls

LEMMA EffectsReceive ==
    ASSUME Base, Base', Effects, NEW c \in Caller, Receive(c), Elsewhere
    PROVE  Effects'
<1>1. PICK h \in HandlerOf(c) :
        /\ call[c].at = "wait" /\ h.at = "done" /\ serving' = serving \ {h}
        /\ call' = [call EXCEPT ![c] = Received(call[c], c, h)] /\ lost' = lost
    BY DEF Receive
<1>2. h \in serving /\ h.caller = c  BY DEF HandlerOf
<1>3. h \in Request /\ Attended(h, call[c])  BY <1>2 DEF Base, Together
<1>4. PICK k, j : k = call[c] /\ j = Received(k, c, h)  OBVIOUS
<1>5. call' = [call EXCEPT ![c] = j]  BY <1>1, <1>4
<1>6. k \in CallRecord /\ CallTyped(c, k) /\ k.cmd = h.cmd
    BY <1>1, <1>3, <1>4 DEF Base, CallsTyped, CallTyped, Attended
<1>7. /\ Onward(k, Failed(k, c)) /\ Failed(k, c).at \in {"send", "ended"}
      /\ Failed(k, c).at = "ended" => Failed(k, c).status = 0
    BY <1>1, <1>4, <1>6, FailedOnward
<1>8. /\ Onward(k, j) /\ j.at \in {"send", "ended"}
      /\ j.at = "ended" /\ j.status = 202 => h.status = 202
      /\ j.at = "send" => h.status = Redirect
    <2>1. CASE h.status # Redirect
        <3>1. j.at = "ended" /\ j.status = h.status /\ j.cmd = k.cmd /\ j.body = k.body
            BY <1>4, <1>6, <2>1 DEF Received, CallRecord
        <3> QED  BY <2>1, <3>1 DEF Onward
    <2>2. CASE h.status = Redirect /\ k.hops = MaxHops
        <3>1. j = Failed(k, c)  BY <1>4, <2>2 DEF Received
        <3> QED  BY <1>7, <2>2, <3>1
    <2>3. CASE h.status = Redirect /\ k.hops # MaxHops
        <3>1. j.at = "send" /\ j.cmd = k.cmd /\ j.body = IF k.body = "none" THEN "none" ELSE "full"
            BY <1>4, <1>6, <2>3 DEF Received, CallRecord
        <3> QED  BY <2>3, <3>1 DEF Onward
    <2> QED  BY <2>1, <2>2, <2>3
<1>9. \A g \in serving' : \E f \in serving : Comes(g, f)  BY <1>1, ComesSame
<1>10. c = Peer => j.at # "send"  BY <1>2, <1>3, <1>8 DEF Attended
<1>11. "join" \notin lost /\ j.at = "send" /\ c = "join" /\ join.at = "adding" =>
          entry = NoEntry /\ adds = 0 /\ \A g \in serving' : g.cmd \notin Body
    <2> SUFFICES ASSUME "join" \notin lost, j.at = "send", c = "join", join.at = "adding"
                 PROVE  entry = NoEntry /\ adds = 0 /\ \A g \in serving' : g.cmd \notin Body
        OBVIOUS
    <2>1. h.cmd = JoinCmd /\ h.cmd \in Body  BY <1>4, <1>6, BodyCommands DEF Effects, BodyCalls
    <2>2. MayAdd(h)  BY <1>1, <1>8, <2>1 DEF MayAdd
    <2> QED  BY <1>1, <1>2, <2>1, <2>2 DEF Effects, AddedOnce, NodeOnce
<1>12. j.at = "ended" /\ j.status = 202 /\ c = "join" /\ join.at = "adding" => adds >= 1
    <2> SUFFICES ASSUME j.at = "ended", j.status = 202, c = "join", join.at = "adding" PROVE adds >= 1
        OBVIOUS
    <2>1. h.cmd \in Body
        <3>1. k.cmd = JoinCmd  BY <1>4 DEF Effects, BodyCalls
        <3> QED  BY <1>6, <3>1, BodyCommands
    <2> QED  BY <1>1, <1>2, <1>8, <2>1 DEF Effects, Reported, Succeeded
<1>13. Onward(call[c], j)  BY <1>4, <1>8
<1>14. /\ j.at = "send" /\ c = Peer => call[c].at = "send"
       /\ c \notin lost' /\ j.at = "send" /\ c = "join" /\ join.at = "adding" =>
             ToCome \/ (entry = NoEntry /\ adds = 0 /\ \A g \in serving' : g.cmd \notin Body)
    BY <1>1, <1>10, <1>11
<1>15. j.at \in {"send", "ended"}  BY <1>8
<1> QED  BY <1>1, <1>5, <1>9, <1>12, <1>13, <1>14, <1>15, EffectsOfCalls

LEMMA EffectsDeliver ==
    ASSUME Base, Base', Effects, NEW c \in Caller, Deliver(c), Elsewhere
    PROVE  Effects'
<1>1. PICK i, k : i = FreshId(c) /\ k = call[c]  OBVIOUS
<1>2. k \in CallRecord /\ k.at = "send"
    BY <1>1 DEF Base, CallsTyped, Deliver
<1>3. PICK j : j = [k EXCEPT !.at = "wait", !.id = i, !.body = IF @ = "full" THEN "read" ELSE @]
    OBVIOUS
<1>4. call' = [call EXCEPT ![c] = j]  BY <1>1, <1>3 DEF Deliver, Base, CallsTyped
<1>5. j.at = "wait" /\ j.cmd = k.cmd /\ j.body = IF k.body = "full" THEN "read" ELSE k.body
    BY <1>2, <1>3 DEF CallRecord
<1>6. /\ join' = join /\ adds' = adds /\ member' = member /\ entry' = entry /\ ran' = ran
      /\ lost' = lost
    BY DEF Elsewhere, raftVars, adminVars, Deliver
<1>7. call'[c] = j /\ \A d \in Caller : d # c => call'[d] = call[d]
    BY <1>4 DEF Base, CallsTyped
<1>8. {"join", Peer} \subseteq Caller  BY JoinAssumption
<1>9. PICK g : g = [caller |-> c, id |-> i, node |-> k.to, cmd |-> k.cmd, at |-> "new",
                    future |-> "none", status |-> 0, hint |-> NoNode, gone |-> FALSE]
    OBVIOUS
<1>10. serving' = serving \cup {g} /\ g.caller = c /\ g.cmd = k.cmd /\ g.at = "new" /\ g.future = "none"
       /\ g.status = 0
    BY <1>1, <1>9 DEF Deliver
<1>11. k.cmd \in Body => ToCome /\ c = "join" /\ k.cmd = JoinCmd /\ join.at = "adding"
    BY <1>1, <1>2, <1>5 DEF Effects, BodyCalls, ToCome, CallRecord, BodyAt
<1>12. BodyCalls'
    <2>1. ASSUME NEW d \in Caller, call'[d].cmd \in Body
          PROVE  d = "join" /\ join.at = "adding" /\ call'[d].body # "none" /\ call'[d].cmd = JoinCmd
        BY <1>1, <1>5, <1>7, <2>1 DEF Effects, BodyCalls
    <2>2. join.at = "adding" => call'["join"].cmd = JoinCmd
        BY <1>1, <1>5, <1>7, <1>8 DEF Effects, BodyCalls
    <2> QED  BY <1>6, <2>1, <2>2 DEF BodyCalls
<1>13. ToCome' => ToCome /\ k.cmd \notin Body
    <2>1. CASE c = "join"  BY <1>5, <1>6, <1>7, <1>11, <2>1 DEF ToCome
    <2>2. CASE c # "join"
        <3>1. call'["join"] = call["join"]  BY <1>7, <1>8, <2>2
        <3> QED  BY <1>6, <1>11, <2>2, <3>1 DEF ToCome
    <2> QED  BY <2>1, <2>2
<1>14. AddedOnce'
    <2>1. ASSUME "join" \notin lost PROVE NodeOnce'
        <3>0. NodeOnce  BY <2>1 DEF Effects, AddedOnce
        <3>1. k.cmd \in Body => \A h \in serving : h.cmd \notin Body  BY <1>11, <3>0 DEF NodeOnce
        <3>2. k.cmd \in Body => entry = NoEntry /\ adds = 0  BY <1>11, <3>0 DEF NodeOnce
        <3>3. ToCome' => (\A h \in serving' : h.cmd \notin Body) /\ entry = NoEntry /\ adds = 0
            BY <1>10, <1>13, <3>0 DEF NodeOnce
        <3>4. \A f, h \in serving' : f.cmd \in Body /\ h.cmd \in Body => f = h
            BY <1>10, <3>0, <3>1 DEF NodeOnce
        <3>5. \A h \in serving' : MayAdd(h) => entry = NoEntry /\ adds = 0
            BY <1>10, <3>0, <3>2 DEF NodeOnce, MayAdd
        <3> QED  BY <1>6, <3>0, <3>3, <3>4, <3>5 DEF NodeOnce
    <2>2. \A h \in serving' : h.cmd \in Body => h.cmd = JoinCmd
        BY <1>10, <1>11 DEF Effects, AddedOnce
    <2> QED  BY <1>6, <2>1, <2>2 DEF Effects, AddedOnce
<1>15. Reported'
    <2>1. ~Succeeded(g)  BY <1>10 DEF Succeeded
    <2>2. call'["join"].at = "ended" => call'["join"] = call["join"]  BY <1>5, <1>7, <1>8
    <2> QED  BY <1>6, <1>10, <2>1, <2>2 DEF Effects, Reported
<1>16. PeerOnce'
    <2> SUFFICES ASSUME Peer \notin lost PROVE RanOnce'  BY <1>6 DEF PeerOnce
    <2>0. RanOnce  BY DEF Effects, PeerOnce
    <2>1. CASE c = Peer
        <3>1. ran = 0 /\ \A h \in serving : h.caller # Peer  BY <1>1, <1>2, <2>0, <2>1 DEF RanOnce
        <3> QED  BY <1>5, <1>6, <1>7, <1>10, <2>1, <3>1 DEF RanOnce
    <2>2. CASE c # Peer
        <3>1. call'[Peer] = call[Peer]  BY <1>7, <1>8, <2>2
        <3> QED  BY <1>6, <1>10, <2>0, <2>2, <3>1 DEF RanOnce
    <2> QED  BY <2>1, <2>2
<1> QED  BY <1>12, <1>14, <1>15, <1>16 DEF Effects

\* The call of a peer begins or ends.
LEMMA EffectsOfPeer ==
    ASSUME Base, Base', Effects, NEW j, call' = [call EXCEPT ![Peer] = j], j.cmd \notin Body,
           \/ j.at = "idle" /\ ran' = ran
           \/ j.at = "send" /\ ran' = 0 /\ \A h \in serving : h.caller # Peer,
           serving' = serving, lost' = lost, join' = join, adds' = adds, member' = member,
           entry' = entry \/ (entry # NoEntry /\ entry'.op = entry.op)
    PROVE  Effects'
<1>1. Peer \in Caller /\ "join" \in Caller /\ Peer # "join"  BY JoinAssumption DEF Peer
<1>2. call'[Peer] = j /\ \A d \in Caller : d # Peer => call'[d] = call[d]
    BY <1>1 DEF Base, CallsTyped
<1>3. call'["join"] = call["join"]  BY <1>1, <1>2
<1>4. BodyCalls'  BY <1>2, <1>3 DEF Effects, BodyCalls
<1>5. ToCome' = ToCome  BY <1>3 DEF ToCome
<1>6. entry = NoEntry => entry' = NoEntry  OBVIOUS
<1>7. AddedOnce'  BY <1>5, <1>6 DEF Effects, AddedOnce, NodeOnce
<1>8. Reported'  BY <1>3 DEF Effects, Reported
<1>9. PeerOnce'  BY <1>1, <1>2 DEF Effects, PeerOnce, RanOnce
<1> QED  BY <1>4, <1>7, <1>8, <1>9 DEF Effects

LEMMA BegunFields ==
    ASSUME NEW n, NEW cmd, NEW body, NEW j, j = Begun(n, cmd, body)
    PROVE  /\ j.at = "send" /\ j.cmd = cmd /\ j.body = body /\ j.target = n /\ j.to = n
           /\ j.hops = 0
BY DEF Begun, Idle

LEMMA IdleFields == Idle.at = "idle" /\ Idle.cmd = ""
BY DEF Idle

LEMMA EffectsSends ==
    ASSUME Base, Base', Effects, NEW n \in Node, NEW m \in Node, NEW h,
           AppendEntries(n, m) \/ TimeoutNow(h, m), UNCHANGED adminVars
    PROVE  Effects'
<1>1. PICK cmd \in {"AppendEntries", "TimeoutNow"} :
        call' = [call EXCEPT ![Peer] = Begun(m, cmd, "full")]
    BY DEF AppendEntries, TimeoutNow
<1>2. cmd \notin Body  BY BodyCommands
<1>3. PICK j : j = Begun(m, cmd, "full")  OBVIOUS
<1>4. j.at = "send" /\ j.cmd = cmd  BY <1>3, BegunFields
<1>5. /\ serving' = serving /\ join' = join /\ adds' = adds /\ member' = member /\ entry' = entry
      /\ ran' = 0 /\ lost' = lost /\ \A g \in serving : g.caller # Peer
    BY DEF AppendEntries, TimeoutNow, Free, adminVars, raftVars
<1> QED  BY <1>1, <1>2, <1>3, <1>4, <1>5, EffectsOfPeer

LEMMA EffectsSendReturns ==
    ASSUME Base, Base', Effects, SendReturns, UNCHANGED adminVars
    PROVE  Effects'
<1>1. Idle.at = "idle" /\ Idle.cmd \notin Body  BY IdleFields, BodyCommands
<1>2. /\ serving' = serving /\ join' = join /\ adds' = adds /\ member' = member /\ ran' = ran
      /\ call' = [call EXCEPT ![Peer] = Idle] /\ lost' = lost
    BY DEF SendReturns, adminVars
<1>3. entry' = entry \/ (entry # NoEntry /\ entry'.op = entry.op)
    <2>1. entry \in Entry  BY DEF Base, RaftTyped
    <2>2. CASE entry = NoEntry
        <3>1. entry.by = NoNode  BY <2>2 DEF NoEntry
        <3>2. sent.entry => sent.from # NoNode  BY HttpAssumption DEF Base, RaftTyped
        <3> QED  BY <3>1, <3>2 DEF SendReturns
    <2>3. CASE entry # NoEntry  BY <2>1, <2>3 DEF SendReturns, Entry
    <2> QED  BY <2>2, <2>3
<1> QED  BY <1>1, <1>2, <1>3, EffectsOfPeer

\* The joining node goes on.
LEMMA EffectsOfJoin ==
    ASSUME Base, Effects, NEW j, call' = [call EXCEPT !["join"] = j], serving' = serving,
           adds' = adds, member' = member, entry' = entry, ran' = ran, lost' = lost,
           ToCome' => ToCome,
           j.cmd \in Body => join'.at = "adding" /\ j.body # "none" /\ j.cmd = JoinCmd,
           join'.at = "adding" => j.cmd = JoinCmd /\ j.at # "ended",
           join'.at = "joined" => adds >= 1
    PROVE  Effects'
<1>1. Peer \in Caller /\ "join" \in Caller /\ Peer # "join"  BY JoinAssumption DEF Peer
<1>2. call'["join"] = j /\ \A d \in Caller : d # "join" => call'[d] = call[d]
    BY <1>1 DEF Base, CallsTyped
<1>3. call'[Peer] = call[Peer]  BY <1>1, <1>2
<1>4. BodyCalls'  BY <1>2 DEF Effects, BodyCalls
<1>5. AddedOnce'  BY DEF Effects, AddedOnce, NodeOnce
<1>6. Reported'  BY <1>2 DEF Effects, Reported
<1>7. PeerOnce'  BY <1>3 DEF Effects, PeerOnce, RanOnce
<1> QED  BY <1>4, <1>5, <1>6, <1>7 DEF Effects

LEMMA EffectsOfOps ==
    ASSUME Base, Effects, NEW j, call' = [call EXCEPT !["ops"] = j], serving' = serving,
           join' = join, adds' = adds, member' = member, entry' = entry, ran' = ran, lost' = lost,
           j.cmd \notin Body
    PROVE  Effects'
<1>1. {"join", Peer, "ops"} \subseteq Caller /\ Peer # "ops"  BY JoinAssumption DEF Peer
<1>2. call'["ops"] = j /\ \A d \in Caller : d # "ops" => call'[d] = call[d]
    BY <1>1 DEF Base, CallsTyped
<1>3. call'[Peer] = call[Peer] /\ call'["join"] = call["join"]  BY <1>1, <1>2
<1>4. BodyCalls'  BY <1>2, <1>3 DEF Effects, BodyCalls
<1>5. ToCome' = ToCome  BY <1>3 DEF ToCome
<1>6. AddedOnce'  BY <1>5 DEF Effects, AddedOnce, NodeOnce
<1>7. Reported'  BY <1>3 DEF Effects, Reported
<1>8. PeerOnce'  BY <1>3 DEF Effects, PeerOnce, RanOnce
<1> QED  BY <1>4, <1>6, <1>7, <1>8 DEF Effects

LEMMA EffectsClients ==
    ASSUME Base, Base', Effects, Clients
    PROVE  Effects'
<1>1. {"join", "ops"} \subseteq Caller  BY JoinAssumption
<1>2. /\ serving' = serving /\ adds' = adds /\ member' = member /\ entry' = entry /\ ran' = ran
      /\ lost' = lost
    BY DEF Clients, Verify, Verified, NotVerified, Added, OpsReturns, OpsCall, adminVars, raftVars
<1>3. join \in Joining  BY DEF Base, AdminTyped
<1>4. Idle.at = "idle" /\ Idle.cmd = "" /\ "" \notin Body  BY IdleFields, BodyCommands
<1>5. CASE Verify
    <2>1. PICK j : j = Begun(Addresses[join.i], "VerifyLeader", "none")  OBVIOUS
    <2>2. j.cmd \notin Body
        <3>1. j.cmd = "VerifyLeader"  BY <2>1, BegunFields
        <3> QED  BY <3>1, BodyCommands
    <2>3. join'.at = "verifying" /\ call' = [call EXCEPT !["join"] = j] /\ ToCome
        BY <1>3, <1>5, <2>1 DEF Verify, Joining, ToCome
    <2> QED  BY <1>2, <2>2, <2>3, EffectsOfJoin
<1>6. CASE Verified
    <2>1. PICK j : j = Begun(Addresses[join.i], JoinCmd, "full")  OBVIOUS
    <2>2. j.cmd = JoinCmd /\ j.body = "full" /\ j.at = "send"  BY <2>1, BegunFields
    <2>3. join'.at = "adding" /\ call' = [call EXCEPT !["join"] = j] /\ ToCome
        BY <1>3, <1>6, <2>1 DEF Verified, Joining, ToCome, JoinCmd
    <2> QED  BY <1>2, <2>2, <2>3, EffectsOfJoin
<1>7. CASE NotVerified
    <2>1. join'.at \in {"verify", "panic"}
        BY <1>3, <1>7 DEF NotVerified, NextAddress, Joining
    <2>2. ToCome /\ call' = [call EXCEPT !["join"] = Idle]  BY <1>7 DEF NotVerified, ToCome
    <2> QED  BY <1>2, <1>4, <2>1, <2>2, EffectsOfJoin
<1>8. CASE Added
    <2>1. /\ join'.at \in {"joined", "panic"} /\ call' = [call EXCEPT !["join"] = Idle]
          /\ join'.at = "joined" => adds >= 1
        BY <1>3, <1>8 DEF Added, Joining, Effects, Reported
    <2>2. ~ToCome'  BY <2>1 DEF ToCome
    <2> QED  BY <1>2, <1>4, <2>1, <2>2, EffectsOfJoin
<1>9. CASE OpsReturns
    <2>1. PICK j : j = [Idle EXCEPT !.at = "ended", !.cmd = call["ops"].cmd]  OBVIOUS
    <2>2. j.cmd = call["ops"].cmd  BY <2>1 DEF Idle
    <2>3. j.cmd \notin Body  BY <1>1, <2>2 DEF Effects, BodyCalls
    <2>4. call' = [call EXCEPT !["ops"] = j] /\ join' = join  BY <1>9, <2>1 DEF OpsReturns, adminVars
    <2> QED  BY <1>2, <2>3, <2>4, EffectsOfOps
<1>10. CASE \E cmd \in OpsCommand : OpsCall(cmd)
    <2>1. PICK cmd \in OpsCommand : OpsCall(cmd)  BY <1>10
    <2>2. PICK j : j = Begun(Addresses[1], cmd, IF cmd = "LeadershipTransfer" THEN "full" ELSE "none")
        OBVIOUS
    <2>3. j.cmd \notin Body
        <3>1. j.cmd = cmd  BY <2>2, BegunFields
        <3> QED  BY <3>1, BodyCommands
    <2>4. call' = [call EXCEPT !["ops"] = j] /\ join' = join  BY <2>1, <2>2 DEF OpsCall, adminVars
    <2> QED  BY <1>2, <2>3, <2>4, EffectsOfOps
<1> QED  BY <1>5, <1>6, <1>7, <1>8, <1>9, <1>10 DEF Clients

LEMMA EffectsLookup == ASSUME Base, Effects, LookupFails PROVE Effects'
<1>1. /\ serving' = serving /\ adds' = adds /\ member' = member /\ entry' = entry /\ ran' = ran
      /\ lost' = lost /\ call' = call
    BY DEF LookupFails, raftVars
<1>2. join.at = "verify" /\ join'.at = "panic"
    BY DEF LookupFails, JoinStart
<1>3. BodyCalls'  BY <1>1, <1>2 DEF Effects, BodyCalls
<1>4. ~ToCome'  BY <1>2 DEF ToCome
<1>5. AddedOnce'  BY <1>1, <1>4 DEF Effects, AddedOnce, NodeOnce
<1>6. Reported'  BY <1>1, <1>2 DEF Effects, Reported
<1>7. PeerOnce'  BY <1>1 DEF Effects, PeerOnce, RanOnce
<1> QED  BY <1>3, <1>5, <1>6, <1>7 DEF Effects

LEMMA EffectsInit == Init => Effects
<1> SUFFICES ASSUME Init PROVE Effects  OBVIOUS
<1>1. /\ call = [c \in Caller |-> Idle] /\ serving = {} /\ entry = NoEntry /\ ran = 0
      /\ adds = 0 /\ member = "none" /\ join.at = "verify"
    BY DEF Init, TransportInit, HttpInit, JoinStart
<1>2. Idle.at = "idle" /\ Idle.cmd = "" /\ "" \notin Body  BY IdleFields, BodyCommands
<1>3. {"join", Peer} \subseteq Caller  BY JoinAssumption
<1>4. BodyCalls  BY <1>1, <1>2 DEF BodyCalls
<1>5. AddedOnce  BY <1>1 DEF AddedOnce, NodeOnce
<1>6. Reported  BY <1>1 DEF Reported
<1>7. PeerOnce
    <2>1. call[Peer].at = "idle"  BY <1>1, <1>2, <1>3
    <2> QED  BY <1>1, <2>1 DEF PeerOnce, RanOnce
<1> QED  BY <1>4, <1>5, <1>6, <1>7 DEF Effects

LEMMA EffectsStep == Base /\ Base' /\ Effects /\ [Next]_vars => Effects'
<1> SUFFICES ASSUME Base, Base', Effects, Next \/ UNCHANGED vars PROVE Effects'  OBVIOUS
<1>1. CASE UNCHANGED vars
    <2>1. /\ call' = call /\ serving' = serving /\ join' = join /\ adds' = adds /\ member' = member
          /\ entry' = entry /\ ran' = ran /\ lost' = lost
        BY <1>1 DEF vars, transportVars, httpVars, raftVars, adminVars
    <2>2. \A g \in serving' : \E k \in serving : Comes(g, k)  BY <2>1, ComesSame
    <2> QED  BY <2>1, <2>2, EffectsOfHandlers
<1>2. CASE Next
    <2>1. First \in Node  BY TransportAssumption
    <2>2. ASSUME NEW h \in serving, NEW m \in Node, TimeoutNow(h, m), UNCHANGED adminVars
          PROVE  Effects'
        BY <2>1, <2>2, EffectsSends, Zenon
    <2> QED  BY <1>2, <2>2, StepCases, EffectsDeliver, EffectsFailed, EffectsReceive, EffectsLose,
                EffectsSends, EffectsSendReturns, EffectsHandle, EffectsHandleFails, EffectsElect,
                EffectsKnown, EffectsServe, EffectsAwait, EffectsTakes, EffectsCommit,
                EffectsLookup, EffectsClients, Zenon
<1> QED  BY <1>1, <1>2

LEMMA Accounted == Base /\ Effects => CommandsAccounted
<1> SUFFICES ASSUME Base, Effects PROVE CommandsAccounted  OBVIOUS
<1>1. TypeOK
    <2>1. \A c \in Caller : /\ call[c].at \in {"idle", "send", "wait", "ended"}
                            /\ call[c].body \in {"none", "full", "read"}
                            /\ call[c].tries <= Retries[c] + 1 /\ call[c].hops <= MaxHops
        BY DEF Base, CallsTyped, CallTyped, CallRecord, CallAt, BodyAt
    <2>2. \A h \in serving : h.at \in {"new", "await", "done"} /\ h.node \in Node
        BY DEF Base, Together, Request, ServedAt
    <2>3. /\ leader \in Node /\ known \in [Node -> Node \cup {NoNode}] /\ ran \in Nat
        BY DEF Base, RaftTyped
    <2>4. /\ join.at \in {"verify", "verifying", "adding", "joined", "panic"}
          /\ join.i \in 1..Len(Addresses) /\ join.retries \in 0..(JoinRetries + 1)
          /\ member \in {"none", "voter", "nonvoter"} /\ adds \in Nat
        BY DEF Base, AdminTyped, Joining
    <2> QED  BY <2>1, <2>2, <2>3, <2>4 DEF TypeOK
<1>2. TokensAwaited  BY DEF Base, Together, TokensAwaited
<1>3. TwiceOnlyIfLost  BY DEF Effects, AddedOnce, NodeOnce, PeerOnce, RanOnce, TwiceOnlyIfLost
<1> QED  BY <1>1, <1>2, <1>3 DEF CommandsAccounted

\* The invariant of the two theorems below.
THEOREM EffectsInvariant == Spec => [](Base /\ Effects)
<1>1. Init => Base /\ Effects  BY BaseInit, EffectsInit
<1>2. Base /\ Effects /\ [Next]_vars => (Base /\ Effects)'  BY BaseStep, EffectsStep
<1> QED  BY <1>1, <1>2, PTL DEF Spec

\* Whatever the number of nodes, callers, retries, redirects, failures and
\* elections, the variables keep their types, no token of a future is left in the
\* server's map, and, unless an answer was lost, the node is added by one entry at
\* most and a peer executes what it is sent once at most, also when a request is
\* sent again with a new copy of its body (server.go:73, client.go, rafthttp.go).
THEOREM CommandsAlwaysAccounted == Spec => []CommandsAccounted
BY EffectsInvariant, Accounted, PTL

\* A node that reports that it has joined is in the configuration with the suffrage
\* it asked for, for every cluster and every sequence of failures (setupRaft).
THEOREM JoinedAlwaysMember == Spec => []JoinedIsMember
<1>1. Base /\ Effects => JoinedIsMember
    BY DEF Effects, Reported, AddedOnce, JoinedIsMember
<1> QED  BY <1>1, EffectsInvariant, PTL

-----------------------------------------------------------------------------
(* A healthy cluster admits the new node *)

\* What the nodes know of the leader is not forgotten.
Knows(K, L) == \A n \in Node : K[n] = First => L[n] = First

LEMMA ServedKept ==
    ASSUME NEW h \in Request, NEW K, NEW L, NEW a, Served(h, K, a), Knows(K, L)
    PROVE  Served(h, L, a)
BY DEF Served, Knows, Request

LEMMA LedKept ==
    ASSUME NEW k, NEW K, NEW L, NEW j, Led(k, K, j), Knows(K, L), CallTyped("join", k)
    PROVE  Led(k, L, j)
<1>1. /\ k.at \in {"send", "wait"} => k.target \in Node
      /\ k.at = "ended" => k.target \in Node
      /\ k \in CallRecord
    BY DEF CallTyped
<1>2. k.at = "idle" \/ k.target \in Node  BY <1>1 DEF CallRecord, CallAt
<1> QED  BY <1>2 DEF Led, Knows

\* A step of one handler, or of none.
LEMMA SoundOfHandlers ==
    ASSUME Base, Sound, LeaderKept', Knows(known, known'), call'["join"] = call["join"], join' = join,
           \A g \in serving' : Served(g, known', join.at)
    PROVE  Sound'
<1>1. CallTyped("join", call["join"])  BY JoinAssumption DEF Base, CallsTyped
<1>2. Led(call["join"], known', join)  BY <1>1, LedKept DEF Sound
<1> QED  BY <1>2 DEF Sound

LEMMA SoundCall ==
    ASSUME Sound, NEW j, call' = [call EXCEPT !["join"] = j], DOMAIN call = Caller,
           known' = known, leader' = leader,
           \A g \in serving' : Served(g, known, join'.at), Led(j, known, join'), NotPast(join')
    PROVE  Sound'
<1>1. call'["join"] = j  BY JoinAssumption
<1>2. LeaderKept'  BY DEF Sound, LeaderKept
<1> QED  BY <1>1, <1>2 DEF Sound

\* The joining node's call that waits, and its handler.
LEMMA JoinHandler ==
    ASSUME Base, Sound, NEW h \in serving, h.caller = "join"
    PROVE  /\ call["join"].at = "wait" /\ call["join"].to = h.node /\ call["join"].cmd = h.cmd
           /\ join.at \in {"verifying", "adding"}
<1>1. Attended(h, call["join"]) /\ ~h.gone /\ Led(call["join"], known, join) /\ NotPast(join)
    BY DEF Base, Together, Sound, Served
<1>2. call["join"].at = "wait" /\ call["join"].to = h.node /\ call["join"].cmd = h.cmd
    BY <1>1 DEF Attended
<1>3. join \in Joining  BY DEF Base, AdminTyped
<1> QED  BY <1>1, <1>2, <1>3 DEF Led, NotPast, Joining

LEMMA SoundDeliver ==
    ASSUME Base, Base', Sound, NEW c \in Caller, Deliver(c), Elsewhere
    PROVE  Sound'
<1>1. PICK i, k : i = FreshId(c) /\ k = call[c]  OBVIOUS
<1>2. k \in CallRecord /\ k.at = "send"
    BY <1>1 DEF Base, CallsTyped, Deliver
<1>3. PICK j : j = [k EXCEPT !.at = "wait", !.id = i, !.body = IF @ = "full" THEN "read" ELSE @]
    OBVIOUS
<1>4. call' = [call EXCEPT ![c] = j]  BY <1>1, <1>3 DEF Deliver, Base, CallsTyped
<1>5. /\ j.at = "wait" /\ j.cmd = k.cmd /\ j.target = k.target /\ j.to = k.to /\ j.hops = k.hops
    BY <1>2, <1>3 DEF CallRecord
<1>6. join' = join /\ known' = known /\ leader' = leader  BY DEF Elsewhere, raftVars, adminVars
<1>7. PICK g : g = [caller |-> c, id |-> i, node |-> k.to, cmd |-> k.cmd, at |-> "new",
                    future |-> "none", status |-> 0, hint |-> NoNode, gone |-> FALSE]
    OBVIOUS
<1>8. serving' = serving \cup {g}  BY <1>1, <1>7 DEF Deliver
<1>9. c = "join" => k.cmd \in Body \cup {"VerifyLeader"}
    <2> SUFFICES ASSUME c = "join" PROVE k.cmd \in Body \cup {"VerifyLeader"}  OBVIOUS
    <2>1. join \in Joining /\ Led(k, known, join) /\ NotPast(join)
        BY <1>1 DEF Sound, Base, AdminTyped
    <2>2. JoinCmd \in Body  BY BodyCommands
    <2> QED  BY <1>2, <2>1, <2>2 DEF Led, NotPast, Joining
<1>10. Served(g, known, join.at)  BY <1>7, <1>9 DEF Served
<1>11. \A h \in serving' : Served(h, known', join.at)  BY <1>6, <1>8, <1>10 DEF Sound
<1>12. LeaderKept' /\ Knows(known, known')  BY <1>6 DEF Sound, LeaderKept, Knows
<1>13. CASE c = "join"
    <2>1. Led(j, known, join)  BY <1>1, <1>2, <1>5, <1>13 DEF Sound, Led
    <2> QED  BY <1>4, <1>6, <1>11, <1>13, <2>1, SoundCall DEF Sound, Base, CallsTyped
<1>14. CASE c # "join"
    <2>1. call'["join"] = call["join"]  BY <1>4, <1>14, JoinAssumption DEF Base, CallsTyped
    <2> QED  BY <1>6, <1>11, <1>12, <2>1, SoundOfHandlers
<1> QED  BY <1>13, <1>14

LEMMA SoundConsumed ==
    ASSUME Base, Base', Sound, NEW c \in Caller, BodyConsumed(c), Elsewhere
    PROVE  Sound'
<1>1. c # "join"  BY DEF BodyConsumed, Sound, Led
<1>2. call'["join"] = call["join"]  BY <1>1, JoinAssumption DEF BodyConsumed, Base, CallsTyped
<1>3. join' = join /\ known' = known /\ leader' = leader /\ serving' = serving
    BY DEF Elsewhere, raftVars, adminVars, BodyConsumed
<1>4. LeaderKept' /\ Knows(known, known')  BY <1>3 DEF Sound, LeaderKept, Knows
<1> QED  BY <1>2, <1>3, <1>4, SoundOfHandlers DEF Sound

LEMMA SoundReceive ==
    ASSUME Base, Base', Sound, NEW c \in Caller, Receive(c), Elsewhere, MaxHops >= 1
    PROVE  Sound'
<1>1. PICK h \in HandlerOf(c) :
        /\ call[c].at = "wait" /\ h.at = "done" /\ serving' = serving \ {h}
        /\ call' = [call EXCEPT ![c] = Received(call[c], c, h)]
    BY DEF Receive
<1>2. h \in serving /\ h.caller = c /\ h \in Request  BY DEF HandlerOf, Base, Together
<1>3. join' = join /\ known' = known /\ leader' = leader  BY DEF Elsewhere, raftVars, adminVars
<1>4. \A g \in serving' : Served(g, known', join.at)  BY <1>1, <1>3 DEF Sound
<1>5. LeaderKept' /\ Knows(known, known')  BY <1>3 DEF Sound, LeaderKept, Knows
<1>6. CASE c # "join"
    <2>1. call'["join"] = call["join"]  BY <1>1, <1>6, JoinAssumption DEF Base, CallsTyped
    <2> QED  BY <1>3, <1>4, <1>5, <2>1, SoundOfHandlers
<1>7. CASE c = "join"
    <2>1. PICK k, j : k = call["join"] /\ j = Received(k, c, h)  OBVIOUS
    <2>2. k.at = "wait" /\ k.to = h.node /\ join.at \in {"verifying", "adding"}
        BY <1>2, <1>7, <2>1, JoinHandler
    <2>3. k \in CallRecord /\ Led(k, known, join)
        BY <1>7, <2>1, JoinAssumption DEF Sound, Base, CallsTyped
    <2>4. \/ h.status = 202 /\ h.node = First
          \/ h.status = Redirect /\ h.hint = First /\ known[h.node] = First /\ h.node # First
          \/ h.status = 503 /\ h.node # First /\ join.at = "verifying"
        BY <1>1, <1>2, <1>7 DEF Sound, Served
    <2>5. Redirect \notin {202, 503}  BY DEF Redirect
    <2>6. k.hops \in Nat  BY <2>3 DEF CallRecord
    <2>7. Led(j, known, join)
        <3>1. CASE h.status # Redirect
            <4>1. /\ j.at = "ended" /\ j.status = h.status /\ j.cmd = k.cmd /\ j.target = k.target
                BY <2>1, <2>3, <3>1 DEF Received, CallRecord
            <4>2. CASE h.status = 202 /\ h.node = First
                <5>1. known[k.target] = First  BY <2>2, <2>3, <2>6, <4>2 DEF Led, Sound, LeaderKept
                <5> QED  BY <2>2, <2>3, <4>1, <4>2, <5>1 DEF Led
            <4>3. CASE h.status = 503 /\ h.node # First /\ join.at = "verifying"
                <5>1. k.target # First  BY <2>2, <2>3, <2>6, <4>3 DEF Led
                <5> QED  BY <2>2, <2>3, <4>1, <4>3, <5>1 DEF Led
            <4> QED  BY <2>4, <3>1, <4>2, <4>3
        <3>2. CASE h.status = Redirect
            <4>1. h.hint = First /\ known[h.node] = First /\ h.node # First  BY <2>4, <2>5, <3>2
            <4>2. k.hops = 0 /\ k.to = k.target  BY <2>2, <2>3, <2>6, <4>1 DEF Led
            <4>3. k.hops # MaxHops  BY <4>2, HttpAssumption
            <4>4. /\ j.at = "send" /\ j.to = First /\ j.hops = k.hops + 1 /\ j.cmd = k.cmd
                  /\ j.target = k.target /\ j.body = IF k.body = "none" THEN "none" ELSE "full"
                BY <2>1, <2>3, <3>2, <4>1, <4>3 DEF Received, CallRecord
            <4>5. known[k.target] = First  BY <2>2, <4>1, <4>2
            <4>6. j.hops = 1 /\ j.body # "read"  BY <4>2, <4>4
            <4> QED  BY <2>2, <2>3, <4>4, <4>5, <4>6 DEF Led
        <3> QED  BY <3>1, <3>2
    <2>8. call' = [call EXCEPT !["join"] = j]  BY <1>1, <1>7, <2>1
    <2>9. NotPast(join')  BY <1>3 DEF Sound
    <2> QED  BY <1>3, <1>4, <2>7, <2>8, <2>9, SoundCall DEF Base, CallsTyped
<1> QED  BY <1>6, <1>7

\* A handler is answered.
LEMMA SoundAnswered ==
    ASSUME Base, Sound, NEW h \in serving, NEW s, NEW n, NEW K, Knows(known, K),
           h.caller = "join" =>
               \/ s = 202 /\ h.node = First
               \/ s = Redirect /\ n = First /\ K[h.node] = First /\ h.node # First
               \/ s = 503 /\ h.node # First /\ join.at = "verifying"
    PROVE  \A g \in Answered(h, s, n) : Served(g, K, join.at)
<1> SUFFICES ASSUME NEW g \in Answered(h, s, n) PROVE Served(g, K, join.at)  OBVIOUS
<1>1. h \in Request /\ serving \subseteq Request  BY DEF Base, Together
<1>2. CASE g \in serving  BY <1>1, <1>2, ServedKept DEF Sound
<1>3. CASE g \notin serving
    <2>1. g = [h EXCEPT !.at = "done", !.status = s, !.hint = n, !.future = "none"]
        BY <1>3 DEF Answered
    <2>2. /\ g.caller = h.caller /\ g.node = h.node /\ g.cmd = h.cmd /\ g.at = "done" /\ g.status = s
          /\ g.future = "none" /\ g.hint = n /\ g.gone = h.gone
        BY <1>1, <2>1 DEF Request
    <2>3. ~h.gone /\ (h.caller = "join" => h.cmd \in Body \cup {"VerifyLeader"})  BY DEF Sound, Served
    <2> QED  BY <2>2, <2>3 DEF Served
<1> QED  BY <1>2, <1>3

\* The leader's calls begin and end.
LEMMA SoundSends ==
    ASSUME Base, Sound, NEW n, NEW m, NEW h, UNCHANGED adminVars,
           AppendEntries(n, m) \/ TimeoutNow(h, m) \/ SendReturns
    PROVE  Sound'
<1>1. join' = join /\ known' = known /\ leader' = leader /\ serving' = serving
    BY DEF adminVars, raftVars, AppendEntries, TimeoutNow, SendReturns
<1>2. Peer # "join" /\ "join" \in Caller  BY JoinAssumption DEF Peer
<1>3. call'["join"] = call["join"]
    BY <1>2 DEF AppendEntries, TimeoutNow, SendReturns, Base, CallsTyped
<1>4. LeaderKept' /\ Knows(known, known')  BY <1>1 DEF Sound, LeaderKept, Knows
<1> QED  BY <1>1, <1>3, <1>4, SoundOfHandlers DEF Sound

LEMMA SoundHandle ==
    ASSUME Base, Base', Sound, NEW h \in serving, handle(h), UNCHANGED adminVars, elections = 0,
           elections' = 0
    PROVE  Sound'
<1>1. h \in Request /\ h.caller = Peer /\ call' = call /\ join' = join
    BY DEF Base, Together, handle, adminVars
<1>2. ~(h.cmd = "TimeoutNow" /\ leader = sent.from /\ elections < MaxElections)
    BY DEF handle, Elected
<1>3. /\ serving' = Answered(h, 200, NoNode) /\ leader' = leader
      /\ known' = known \/ (leader = sent.from /\ known' = [known EXCEPT ![h.node] = sent.from])
    BY <1>2 DEF handle
<1>4. known \in [Node -> Node \cup {NoNode}] /\ h.node \in Node /\ First \in Node
    BY <1>1, TransportAssumption DEF Base, RaftTyped, Request
<1>5. LeaderKept' /\ Knows(known, known')
    BY <1>3, <1>4 DEF Sound, LeaderKept, Knows
<1>6. Peer # "join"  BY DEF Peer
<1>7. \A g \in serving' : Served(g, known', join.at)  BY <1>1, <1>3, <1>5, <1>6, SoundAnswered
<1> QED  BY <1>1, <1>5, <1>7, SoundOfHandlers

LEMMA SoundStepDown ==
    ASSUME Base, Sound, NEW n \in Node, StepDown(n)
    PROVE  Sound'
BY HttpAssumption DEF Sound, LeaderKept, StepDown

LEMMA SoundServe ==
    ASSUME Base, Base', Sound, NEW h \in serving, ServeHTTP(h)
    PROVE  Sound'
<1>1. h \in Request /\ h.at = "new" /\ h.node \in Node  BY DEF Base, Together, ServeHTTP, Request
<1>2. join' = join /\ known' = known /\ leader' = leader /\ call' = call
    BY DEF ServeHTTP, raftVars
<1>3. LeaderKept' /\ Knows(known, known')  BY <1>2 DEF Sound, LeaderKept, Knows
<1>4. known[h.node] \in {First, NoNode} /\ known[First] = First /\ First # NoNode
    BY <1>1, TransportAssumption, HttpAssumption DEF Sound, LeaderKept
<1>5. h.caller = "join" => h.cmd \in Body \cup {"VerifyLeader"}  BY DEF Sound, Served
<1>6. \A g \in serving' : Served(g, known', join.at)
    <2>1. CASE known[h.node] = NoNode /\ serving' = Answered(h, 503, NoNode)
        <3>1. h.caller = "join" => h.node # First /\ join.at = "verifying"
            <4> SUFFICES ASSUME h.caller = "join" PROVE h.node # First /\ join.at = "verifying"
                OBVIOUS
            <4>1. PICK k : k = call["join"]  OBVIOUS
            <4>2. k.at = "wait" /\ k.to = h.node /\ join.at \in {"verifying", "adding"}
                BY <4>1, JoinHandler
            <4>3. Led(k, known, join) /\ k.hops \in Nat
                BY <4>1, JoinAssumption DEF Sound, Base, CallsTyped, CallRecord
            <4>4. h.node # First  BY <1>4, <2>1
            <4>5. k.to = k.target  BY <4>2, <4>3, <4>4 DEF Led
            <4>6. join.at # "adding"  BY <1>4, <2>1, <4>2, <4>3, <4>5 DEF Led
            <4> QED  BY <4>2, <4>4, <4>6
        <3> QED  BY <1>2, <1>3, <2>1, <3>1, SoundAnswered
    <2>2. CASE /\ known[h.node] # h.node /\ known[h.node] # NoNode
               /\ serving' = Answered(h, Redirect, known[h.node])
        <3>1. known[h.node] = First /\ h.node # First  BY <1>4, <2>2
        <3> QED  BY <1>2, <1>3, <2>2, <3>1, SoundAnswered
    <2>3. CASE /\ h.cmd \notin Body \cup Empty
               /\ serving' = Answered(h, IF h.cmd \in Read THEN 200 ELSE 400, NoNode)
        <3>1. h.caller # "join"  BY <1>5, <2>3 DEF Empty
        <3> QED  BY <1>2, <1>3, <2>3, <3>1, SoundAnswered, ZenonT(60)
    <2>4. CASE /\ known[h.node] = h.node
               /\ serving' = (serving \ {h}) \cup {[h EXCEPT !.at = "await", !.future = "pending"]}
        <3>1. h.node = First  BY <1>1, <1>4, <2>4, HttpAssumption
        <3>2. PICK g : g = [h EXCEPT !.at = "await", !.future = "pending"]  OBVIOUS
        <3>3. /\ g.caller = h.caller /\ g.node = h.node /\ g.cmd = h.cmd /\ g.at = "await"
              /\ g.future = "pending" /\ g.gone = h.gone
            BY <1>1, <3>2 DEF Request
        <3>4. Served(g, known, join.at)  BY <3>1, <3>3 DEF Sound, Served
        <3> QED  BY <1>2, <2>4, <3>2, <3>4 DEF Sound
    <2> QED  BY <2>1, <2>2, <2>3, <2>4 DEF ServeHTTP
<1> QED  BY <1>2, <1>3, <1>6, SoundOfHandlers

LEMMA SoundAwait ==
    ASSUME Base, Base', Sound, NEW h \in serving, Await(h)
    PROVE  Sound'
<1>1. h \in Request /\ h.at = "await" /\ Served(h, known, join.at)
    BY DEF Base, Together, Await, Sound
<1>2. join' = join /\ known' = known /\ leader' = leader /\ call' = call  BY DEF Await, raftVars
<1>3. LeaderKept' /\ Knows(known, known')  BY <1>2 DEF Sound, LeaderKept, Knows
<1>4. PICK s : s = IF h.future = "ok" THEN 202 ELSE 400  OBVIOUS
<1>5. h.future \in {"ok", "error"} /\ serving' = Answered(h, s, NoNode)
    BY <1>1, <1>4 DEF Await, Served
<1>6. h.caller = "join" => s = 202 /\ h.node = First
    <2> SUFFICES ASSUME h.caller = "join" PROVE s = 202 /\ h.node = First  OBVIOUS
    <2>1. h.node = First /\ h.cmd # "LeadershipTransfer"  BY <1>1 DEF Served, Body
    <2>2. h.future # "error"  BY <1>1, <2>1 DEF Served
    <2> QED  BY <1>4, <1>5, <2>1, <2>2
<1>7. \A g \in serving' : Served(g, known', join.at)  BY <1>2, <1>3, <1>5, <1>6, SoundAnswered
<1> QED  BY <1>2, <1>3, <1>7, SoundOfHandlers

\* The future of h comes to r.
LEMMA SoundResolved ==
    ASSUME Base, NEW h \in Request, NEW r, NEW K, NEW a, Served(h, K, a), h.at # "done",
           r = "error" => h.cmd = "LeadershipTransfer"
    PROVE  Served([h EXCEPT !.future = r], K, a)
<1>1. PICK g : g = [h EXCEPT !.future = r]  OBVIOUS
<1>2. /\ g.caller = h.caller /\ g.node = h.node /\ g.cmd = h.cmd /\ g.at = h.at
      /\ g.future = r /\ g.gone = h.gone
    BY <1>1 DEF Request
<1>3. Served(g, K, a)  BY <1>2 DEF Served
<1> QED  BY <1>1, <1>3, Zenon

LEMMA SoundTakes ==
    ASSUME Base, Base', Sound, NEW h \in serving, RaftTakes(h)
    PROVE  Sound'
<1>1. h \in Request /\ h.at = "await" /\ Served(h, known, join.at)
    BY DEF Base, Together, RaftTakes, Sound
<1>2. join' = join /\ known' = known /\ leader' = leader /\ call' = call
    BY DEF RaftTakes, adminVars
<1>3. LeaderKept' /\ Knows(known, known')  BY <1>2 DEF Sound, LeaderKept, Knows
<1>4. leader = h.node  BY <1>1 DEF Served, Sound, LeaderKept
<1>5. PICK r : /\ r = "error" => h.cmd = "LeadershipTransfer"
               /\ serving' = (serving \ {h}) \cup {[h EXCEPT !.future = r]}
    BY <1>4 DEF RaftTakes, Resolve
<1>6. Served([h EXCEPT !.future = r], known, join.at)  BY <1>1, <1>5, SoundResolved
<1>7. \A g \in serving' : Served(g, known', join.at)  BY <1>2, <1>5, <1>6 DEF Sound
<1> QED  BY <1>2, <1>3, <1>7, SoundOfHandlers

LEMMA SoundCommit ==
    ASSUME Base, Base', Sound, Commit
    PROVE  Sound'
<1>1. join' = join /\ known' = known /\ leader' = leader /\ call' = call  BY DEF Commit
<1>2. LeaderKept' /\ Knows(known, known')  BY <1>1 DEF Sound, LeaderKept, Knows
<1>3. ASSUME NEW h \in serving, h.future = "proposed"
      PROVE  Served([h EXCEPT !.future = "ok"], known, join.at)
    <2>1. h \in Request /\ h.at # "done" /\ Served(h, known, join.at)
        BY <1>3 DEF Base, Together, Attended, Sound
    <2> QED  BY <2>1, SoundResolved
<1>4. \A g \in serving' : Served(g, known', join.at)
    <2> SUFFICES ASSUME NEW g \in serving' PROVE Served(g, known, join.at)  BY <1>1
    <2>1. PICK h \in serving :
            g = IF Token(h) = <<entry.caller, entry.id>> /\ h.future = "proposed"
                THEN [h EXCEPT !.future = "ok"] ELSE h
        BY Zenon DEF Commit
    <2>2. CASE h.future = "proposed" /\ g = [h EXCEPT !.future = "ok"]  BY <1>3, <2>2
    <2>3. CASE g = h  BY <2>3 DEF Sound
    <2> QED  BY <2>1, <2>2, <2>3
<1> QED  BY <1>1, <1>2, <1>4, SoundOfHandlers

\* The leader is among the discovered and configured addresses.
LeaderListed == \E i \in 1..Len(Addresses) : Addresses[i] = First

LEMMA SoundClients ==
    ASSUME Base, Base', Sound, Clients, LeaderListed
    PROVE  Sound'
<1>1. /\ serving' = serving /\ known' = known /\ leader' = leader
    BY DEF Clients, Verify, Verified, NotVerified, Added, OpsReturns, OpsCall, raftVars
<1>2. LeaderKept' /\ Knows(known, known')  BY <1>1 DEF Sound, LeaderKept, Knows
<1>3. join \in Joining /\ DOMAIN call = Caller /\ {"join", "ops"} \subseteq Caller
    BY JoinAssumption DEF Base, AdminTyped, CallsTyped
<1>4. PICK k : k = call["join"]  OBVIOUS
<1>5. Led(k, known, join) /\ NotPast(join)  BY <1>4 DEF Sound
\* While the joining node's call does not wait it has no handlers.
<1>6. ASSUME k.at # "wait", NEW a PROVE \A g \in serving' : Served(g, known, a)
    <2> SUFFICES ASSUME NEW g \in serving PROVE Served(g, known, a)  BY <1>1
    <2>1. g.caller # "join"  BY <1>4, <1>6, JoinHandler
    <2> QED  BY <2>1 DEF Sound, Served
<1>7. Idle.at = "idle"  BY IdleFields
<1>8. CASE Verify
    <2>1. PICK j : j = Begun(Addresses[join.i], "VerifyLeader", "none")  OBVIOUS
    <2>2. /\ j.at = "send" /\ j.cmd = "VerifyLeader" /\ j.body = "none" /\ j.hops = 0
          /\ j.target = Addresses[join.i] /\ j.to = j.target
        BY <2>1, BegunFields
    <2>3. join'.at = "verifying" /\ join'.i = join.i /\ call' = [call EXCEPT !["join"] = j]
        BY <1>3, <1>8, <2>1 DEF Verify, Joining
    <2>4. Led(j, known, join')  BY <2>2, <2>3 DEF Led
    <2>5. NotPast(join')  BY <1>5, <2>3 DEF NotPast
    <2>6. \A g \in serving' : Served(g, known, join'.at)  BY <1>4, <1>6, <1>8 DEF Verify
    <2> QED  BY <1>1, <1>3, <2>3, <2>4, <2>5, <2>6, SoundCall
<1>9. CASE Verified
    <2>1. PICK j : j = Begun(Addresses[join.i], JoinCmd, "full")  OBVIOUS
    <2>2. /\ j.at = "send" /\ j.cmd = JoinCmd /\ j.body = "full" /\ j.hops = 0
          /\ j.target = Addresses[join.i] /\ j.to = j.target
        BY <2>1, BegunFields
    <2>3. join'.at = "adding" /\ join'.i = join.i /\ call' = [call EXCEPT !["join"] = j]
        BY <1>3, <1>9, <2>1 DEF Verified, Joining, JoinCmd
    <2>4. known[k.target] = First /\ k.target = Addresses[join.i]
        BY <1>4, <1>5, <1>9 DEF Verified, Led
    <2>5. Led(j, known, join')  BY <2>2, <2>3, <2>4 DEF Led
    <2>6. NotPast(join')  BY <1>5, <2>3 DEF NotPast
    <2>7. \A g \in serving' : Served(g, known, join'.at)  BY <1>4, <1>6, <1>9 DEF Verified
    <2> QED  BY <1>1, <1>3, <2>3, <2>5, <2>6, <2>7, SoundCall
<1>10. CASE NotVerified
    <2>1. join.at = "verifying" /\ Addresses[join.i] # First
        BY <1>4, <1>5, <1>10 DEF NotVerified, Led
    <2>2. join.i \in Nat /\ Len(Addresses) \in Nat /\ 1 <= join.i /\ join.i <= Len(Addresses)
        BY <1>3, AddressesTyped DEF Joining
    <2>3. \A i \in 1..join.i : Addresses[i] # First
        BY <1>5, <2>1, <2>2 DEF NotPast
    <2>4. join.i # Len(Addresses)  BY <2>3 DEF LeaderListed
    <2>5. join' = NextAddress /\ call' = [call EXCEPT !["join"] = Idle]  BY <1>10 DEF NotVerified
    <2>6. /\ join'.at = "verify"
          /\ join'.i = 1 \/ join'.i = join.i + 1
        BY <1>3, <2>4, <2>5 DEF NextAddress, Joining
    <2>7. NotPast(join')  BY <2>2, <2>3, <2>6 DEF NotPast
    <2>8. Led(Idle, known, join')  BY <1>7, <2>6 DEF Led
    <2>9. \A g \in serving' : Served(g, known, join'.at)  BY <1>4, <1>6, <1>10 DEF NotVerified
    <2> QED  BY <1>1, <1>3, <2>5, <2>7, <2>8, <2>9, SoundCall
<1>11. CASE Added
    <2>1. k.status = 202  BY <1>4, <1>5, <1>11 DEF Added, Led
    <2>2. join'.at = "joined" /\ join'.i = join.i /\ call' = [call EXCEPT !["join"] = Idle]
        BY <1>3, <1>4, <1>11, <2>1 DEF Added, Joining
    <2>3. NotPast(join')  BY <1>5, <2>2 DEF NotPast
    <2>4. Led(Idle, known, join')  BY <1>7, <2>2 DEF Led
    <2>5. \A g \in serving' : Served(g, known, join'.at)  BY <1>4, <1>6, <1>11 DEF Added
    <2> QED  BY <1>1, <1>3, <2>2, <2>3, <2>4, <2>5, SoundCall
<1>12. CASE OpsReturns \/ \E cmd \in OpsCommand : OpsCall(cmd)
    <2>1. join' = join /\ call'["join"] = call["join"]
        BY <1>3, <1>12 DEF OpsReturns, OpsCall, adminVars
    <2> QED  BY <1>1, <1>2, <2>1, SoundOfHandlers DEF Sound
<1> QED  BY <1>8, <1>9, <1>10, <1>11, <1>12 DEF Clients

LEMMA HealthyInit == Init => Healthy
<1> SUFFICES ASSUME Init PROVE Sound  BY DEF Healthy
<1>1. /\ call = [c \in Caller |-> Idle] /\ serving = {} /\ leader = First
      /\ join = [at |-> "verify", i |-> 1, retries |-> 0]
      /\ \E S \in SUBSET Node : known = [n \in Node |-> IF n = First \/ n \in S THEN First ELSE NoNode]
    BY DEF Init, TransportInit, HttpInit, JoinStart
<1>2. LeaderKept  BY <1>1, TransportAssumption DEF LeaderKept
<1>3. call["join"].at = "idle"  BY <1>1, JoinAssumption, IdleFields
<1>4. Led(call["join"], known, join)  BY <1>1, <1>3 DEF Led
<1>5. NotPast(join)  BY <1>1 DEF NotPast
<1> QED  BY <1>1, <1>2, <1>4, <1>5 DEF Sound

LEMMA HealthyStep ==
    ASSUME LeaderListed, MaxHops >= 1, Base, Base', Healthy, [Next]_vars
    PROVE  Healthy'
<1> SUFFICES ASSUME faults' = 0, elections' = 0 PROVE Sound'  BY DEF Healthy
<1>0. faults \in Nat /\ elections \in Nat  BY DEF Base, RaftTyped
<1>1. CASE UNCHANGED vars
    <2>1. /\ faults' = faults /\ elections' = elections /\ serving' = serving /\ call' = call
          /\ join' = join /\ known' = known /\ leader' = leader
        BY <1>1 DEF vars, transportVars, httpVars, raftVars, adminVars
    <2>2. Sound  BY <2>1 DEF Healthy
    <2>3. LeaderKept' /\ Knows(known, known')  BY <2>1, <2>2 DEF Sound, LeaderKept, Knows
    <2> QED  BY <2>1, <2>2, <2>3, SoundOfHandlers DEF Sound
<1>2. CASE Next
    <2>1. ASSUME faults' = faults, elections' = elections PROVE Sound
        BY <2>1 DEF Healthy
    <2>2. ASSUME NEW c \in Caller, Deliver(c), Elsewhere PROVE Sound'
        BY <2>1, <2>2, SoundDeliver DEF Deliver, Elsewhere, raftVars
    <2>3. ASSUME NEW c \in Caller, DialFails(c) \/ BodyConsumed(c), Elsewhere PROVE Sound'
        BY <1>0, <2>1, <2>3, SoundConsumed DEF DialFails, BodyConsumed, Elsewhere, raftVars
    <2>4. ASSUME NEW c \in Caller, Receive(c), Elsewhere PROVE Sound'
        BY <2>1, <2>4, SoundReceive DEF Receive, Elsewhere, raftVars
    <2>5. ASSUME NEW c \in Caller, Lose(c), Elsewhere PROVE Sound'
        BY <1>0, <2>5 DEF Lose
    <2>6. ASSUME NEW n \in Node, NEW m \in Node, AppendEntries(n, m), UNCHANGED adminVars PROVE Sound'
        <3>1. faults' = faults /\ elections' = elections  BY <2>6 DEF AppendEntries, raftVars
        <3> QED  BY <2>1, <2>6, <3>1, SoundSends
    <2>7. ASSUME NEW h \in serving, NEW m \in Node, TimeoutNow(h, m), UNCHANGED adminVars PROVE Sound'
        <3>1. faults' = faults /\ elections' = elections  BY <2>7 DEF TimeoutNow, raftVars
        <3> QED  BY <2>1, <2>7, <3>1, SoundSends
    <2>8. ASSUME SendReturns, UNCHANGED adminVars PROVE Sound'
        <3>1. faults' = faults /\ elections' = elections  BY <2>8 DEF SendReturns
        <3> QED  BY <2>1, <2>8, <3>1, SoundSends
    <2>9. ASSUME NEW h \in serving, handle(h), UNCHANGED adminVars PROVE Sound'
        <3>1. faults' = faults /\ elections = 0  BY <1>0, <2>9 DEF handle, Elected
        <3> QED  BY <2>1, <2>9, <3>1, SoundHandle
    <2>10. ASSUME NEW h \in serving, handleFails(h), UNCHANGED adminVars PROVE Sound'
        BY <1>0, <2>10 DEF handleFails
    <2>11. ASSUME NEW n \in Node, Elect(n), UNCHANGED adminVars PROVE Sound'
        BY <1>0, <2>11 DEF Elect
    <2>12. ASSUME NEW n \in Node, StepDown(n) \/ LoseContact(n), UNCHANGED adminVars PROVE Sound'
        BY <1>0, <2>1, <2>12, SoundStepDown DEF StepDown, LoseContact, httpVars
    <2>13. ASSUME NEW h \in serving, ServeHTTP(h) PROVE Sound'
        BY <2>1, <2>13, SoundServe DEF ServeHTTP, raftVars
    <2>14. ASSUME NEW h \in serving, Await(h) PROVE Sound'
        BY <2>1, <2>14, SoundAwait DEF Await, raftVars
    <2>15. ASSUME NEW h \in serving, RaftTakes(h) PROVE Sound'
        BY <2>1, <2>15, SoundTakes DEF RaftTakes
    <2>16. ASSUME Commit PROVE Sound'
        BY <2>1, <2>16, SoundCommit DEF Commit
    <2>18. ASSUME LookupFails PROVE Sound'  BY <1>0, <2>18 DEF LookupFails
    <2>17. ASSUME Clients PROVE Sound'
        <3>1. faults' = faults /\ elections' = elections
            BY <2>17 DEF Clients, Verify, Verified, NotVerified, Added, OpsReturns, OpsCall, raftVars
        <3> QED  BY <2>1, <2>17, <3>1, SoundClients
    <2> QED  BY <1>2, <2>2, <2>3, <2>4, <2>5, <2>6, <2>7, <2>8, <2>9, <2>10, <2>11, <2>12, <2>13,
                <2>14, <2>15, <2>16, <2>17, <2>18, StepCases, Zenon
<1> QED  BY <1>1, <1>2

\* When the leader is one of the addresses of the new node and redirects are followed, a
\* node that joins a cluster in which nothing fails never panics, however late the
\* other nodes learn of the leader and whatever other clients ask for (setupRaft).
THEOREM HealthyClusterAlwaysAdmits ==
    ASSUME LeaderListed, MaxHops >= 1
    PROVE  Spec => []HealthyClusterAdmits
<1>1. Init => Base /\ Healthy  BY BaseInit, HealthyInit
<1>2. Base /\ Healthy /\ [Next]_vars => (Base /\ Healthy)'  BY BaseStep, HealthyStep
<1>3. Base /\ Healthy => HealthyClusterAdmits
    BY DEF Healthy, Sound, NotPast, HealthyClusterAdmits
<1> QED  BY <1>1, <1>2, <1>3, PTL DEF Spec

-----------------------------------------------------------------------------
(* The handlers: what is kept *)

\* What the handlers and another leader put into the change log.
PutLogs == {Put(d, v) : d \in Doc, v \in Nat \ {0}}
DelLogs == {Del(d) : d \in Doc}
ColLogs == {PutCol(type) : type \in Type}
AddLogs == {Resource(op, kind) : op \in AddOp, kind \in Kind}
RemoveLogs == {Resource(op, kind) : op \in RemoveOp, kind \in Kind}
ChangeLogs ==
    PutLogs \cup DelLogs \cup {DelNoId} \cup ColLogs \cup {PutCol("add_unfit"), DelCol} \cup AddLogs
        \cup RemoveLogs

ColState == Type \cup {"none"}
RestartLog == ChangeLogs \cup {NoChange, FailedReload}
GatewayState ==
    [col : ColState, has : SUBSET Kind, store : [Doc -> Nat], cache : Seq(PutLogs),
     pending : BOOLEAN, broken : BOOLEAN, restart : RestartLog, logged : BOOLEAN, halted : BOOLEAN]

Stage == {"apply", "raft", "future", "wait"}
HandlerCall == [n : Nat, change : ChangeLogs, waits : BOOLEAN, at : Stage, index : Nat]

HandlersTyped ==
    /\ raft \in BOOLEAN /\ memory \in BOOLEAN /\ lead \in BOOLEAN
    /\ beside \in BOOLEAN
    /\ st \in GatewayState
    /\ calls \subseteq HandlerCall
    /\ log \in Seq(ChangeLogs) /\ applied \in 0..Len(log)
    /\ asked \in Nat /\ others \in Nat

\* Without raft a call has only to be applied.  A committed change is in the log at
\* its call's place, and a call that waits has been applied here.
InLog(c) ==
    /\ c.at # "apply" => raft
    /\ c.at \in {"future", "wait"} => c.index \in 1..Len(log) /\ log[c.index] = c.change
    /\ c.at = "wait" => applied >= c.index /\ c.waits
    /\ (c.waits /\ c.change.kind = "document") => c.change \in PutLogs
CallsInLog == \A c \in calls : InLog(c)

OneAtATime == ~beside => \A b, c \in calls : b = c

\* What a handler looked up, still as it was when the change is applied.
StillChecked(e, s) ==
    /\ e = DelCol => s.col # "none"
    /\ e = Delete("domain") => "domain" \in s.has
    /\ e.op = "delete" => s.store[e.doc] # 0

\* What is kept on a gateway without raft.
Alone ==
    ~raft => /\ st.cache = <<>> /\ log = <<>>
             /\ ~beside => \A c \in calls : StillChecked(c.change, st)
             /\ OneByOneKeepsRunning

\* Under one leader and with one request at a time the log is applied but for the
\* request's own entry, and a document to be deleted is there until the deletion
\* is applied.
LedOneByOne ==
    (raft /\ ~beside) =>
        /\ lead
        /\ calls = {} => applied = Len(log)
        /\ \A c \in calls :
              /\ c.at # "future" => applied = Len(log)
              /\ c.at = "future" => c.index = Len(log) /\ applied >= Len(log) - 1
              /\ (c.change.op = "delete" /\ (c.at \in {"apply", "raft"} \/ applied < c.index)) =>
                    st.store[c.change.doc] # 0
        /\ OneByOneKeepsRunning

\* The inductive invariant.
HandlersInv ==
    HandlersTyped /\ CallsInLog /\ StoreFollowsLog /\ OneAtATime /\ Alone /\ LedOneByOne

-----------------------------------------------------------------------------
(* Change logs *)

LEMMA LogFields ==
    ASSUME NEW e \in ChangeLogs
    PROVE  /\ e.op \in {"put", "delete", "delete_no_id", "document", "untyped", "add", "add_unfit",
                       "add_broken", "remove", "remove_linked"}
           /\ e.op = "put" =>
                 e \in PutLogs /\ e.doc \in Doc /\ e.ver \in Nat \ {0} /\ e.kind = "document"
           /\ e.op = "delete" => e.doc \in Doc /\ e.ver = 0 /\ e.kind = "document"
           /\ e.op = "delete_no_id" => e = DelNoId
           /\ e.op \in {"add", "add_broken"} => e.kind \in Kind
           /\ e.op = "remove" => e = DelCol \/ (e.kind \in Kind /\ e # DelCol /\ e = Delete(e.kind))
           /\ e.op \notin {"put", "delete"} => e.doc = 0
<1>1. CASE e \in PutLogs
    BY <1>1 DEF PutLogs, Put, Change
<1>2. CASE e \in DelLogs
    BY <1>2 DEF DelLogs, Del, Change
<1>3. CASE e \in ColLogs
    BY <1>3 DEF ColLogs, PutCol, Change, Type
<1>4. CASE e \in AddLogs
    BY <1>4 DEF AddLogs, Resource, Change, AddOp
<1>5. CASE e \in RemoveLogs
    BY <1>5, AdminHandlersAssumption DEF RemoveLogs, Resource, Delete, DelCol, Change, RemoveOp
<1>6. CASE e = DelNoId
    BY <1>6 DEF DelNoId, Change
<1>7. CASE e = DelCol
    <2>1. e.op = "remove" /\ e.doc = 0  BY <1>7 DEF DelCol, Change
    <2> QED  BY <1>7, <2>1
<1>8. CASE e = PutCol("add_unfit")
    BY <1>8 DEF PutCol, Change
<1> QED  BY <1>1, <1>2, <1>3, <1>4, <1>5, <1>6, <1>7, <1>8 DEF ChangeLogs

LEMMA PutFields ==
    ASSUME NEW e \in PutLogs
    PROVE  e \in ChangeLogs /\ e.op = "put" /\ e.doc \in Doc /\ e.ver \in Nat \ {0}
BY DEF ChangeLogs, PutLogs, Put, Change

LEMMA LogKinds ==
    ASSUME NEW e \in ChangeLogs
    PROVE  /\ NoChange \notin ChangeLogs /\ FailedReload.op = "reload"
           /\ e = DelCol => e.op = "remove" /\ e.kind = "collection"
           /\ e = DelNoId => e.op = "delete_no_id"
           /\ e = Delete("domain") => e.op = "remove" /\ e.kind = "domain"
           /\ (e.op = "remove" /\ e.kind = "domain") => e = Delete("domain")
           /\ (e.op = "remove" /\ e.kind = "collection") => e = DelCol
<1>1. NoChange \notin ChangeLogs /\ FailedReload.op = "reload"
    <2>1. NoChange.op = "none" /\ FailedReload.op = "reload"  BY DEF NoChange, FailedReload, Change
    <2> QED  BY <2>1, LogFields
<1>2. "collection" \notin Kind  BY AdminHandlersAssumption
<1>3. e.op = "remove" => e = DelCol \/ (e.kind \in Kind /\ e # DelCol /\ e = Delete(e.kind))
    BY LogFields
<1> QED  BY <1>1, <1>2, <1>3 DEF DelCol, DelNoId, Delete, Resource, Change

-----------------------------------------------------------------------------
(* The last change of a document *)

LEMMA LessPairs == \A x, y \in Nat : <<x, y>> \in OpToRel(<, Nat) <=> x < y
  BY DEF OpToRel

LEMMA LeastIn ==
    ASSUME NEW T, T \subseteq Nat, NEW R, \A x, y \in Nat : <<x, y>> \in R <=> x < y,
           \E x \in T : \A y \in T : ~ (<<y, x>> \in R)
    PROVE  \E x \in T : \A y \in T : x <= y
<1>1. PICK x \in T : \A y \in T : ~ (<<y, x>> \in R)  OBVIOUS
<1>2. ASSUME NEW y \in T PROVE x <= y
    <2>1. x \in Nat /\ y \in Nat /\ <<y, x>> \notin R  BY <1>1
    <2>2. ~(y < x)  BY <2>1
    <2> QED  BY <2>1, <2>2
<1> QED  BY <1>2

\* Of numbers up to n, if there are any, one is the greatest: the least of those
\* that none of them exceeds.
LEMMA GreatestOf ==
    ASSUME NEW n \in Nat, NEW S, S \subseteq 1..n, S # {}
    PROVE  \E i \in S : \A j \in S : j <= i
<1> DEFINE T == {m \in Nat : \A j \in S : j <= m}
<1>1. T \subseteq Nat /\ T # {}
    <2>1. n \in T  OBVIOUS
    <2> QED  BY <2>1
<1>2. \E x \in T : \A y \in T : ~ (<<y, x>> \in OpToRel(<, Nat))
    <2> HIDE DEF T
    <2> QED  BY <1>1, NatLessThanWellFounded, WFMin
<1>3. \E x \in T : \A y \in T : x <= y
    <2> HIDE DEF T
    <2> QED  BY <1>1, <1>2, LessPairs, LeastIn
<1>4. PICK m \in T : \A y \in T : m <= y  BY <1>3
<1>5. m \in S
    <2> SUFFICES ASSUME m \notin S PROVE FALSE  OBVIOUS
    <2>1. \A j \in S : j <= m /\ j # m /\ j \in Nat /\ 1 <= j  OBVIOUS
    <2>2. m - 1 \in Nat
        <3>1. PICK j \in S : TRUE  OBVIOUS
        <3> QED  BY <2>1, <3>1
    <2>3. m - 1 \in T  BY <2>1, <2>2
    <2> QED  BY <1>4, <2>2, <2>3
<1> QED  BY <1>5

LEMMA LastOne ==
    ASSUME NEW d, NEW s, NEW n \in Nat, NEW i \in Places(d, s, n),
           \A j \in Places(d, s, n) : j <= i
    PROVE  LastVersion(d, s, n) = s[i].ver
<1> DEFINE P == Places(d, s, n)
<1>1. PICK k : k = CHOOSE x \in P : \A j \in P : j <= x  OBVIOUS
<1>2. k \in P /\ \A j \in P : j <= k  BY <1>1
<1>3. k = i
    <2>1. P \subseteq Nat  BY DEF Places
    <2>2. k <= i /\ i <= k /\ i \in Nat /\ k \in Nat
        <3> HIDE DEF P
        <3> QED  BY <1>2, <2>1, i \in P, \A j \in P : j <= i DEF P
    <2> QED  BY <2>2
<1> QED  BY <1>1, <1>3 DEF LastVersion

LEMMA SomeLast ==
    ASSUME NEW d, NEW s, NEW n \in Nat, Places(d, s, n) # {}
    PROVE  \E i \in Places(d, s, n) : /\ \A j \in Places(d, s, n) : j <= i
                                      /\ LastVersion(d, s, n) = s[i].ver
<1>1. Places(d, s, n) \subseteq 1..n  BY DEF Places
<1>2. PICK i \in Places(d, s, n) : \A j \in Places(d, s, n) : j <= i  BY <1>1, GreatestOf
<1> QED  BY <1>2, LastOne

\* Storing docCache: a document keeps its version or gets one of docCache.
LEMMA StoreDocumentsCases ==
    ASSUME NEW m \in [Doc -> Nat], NEW docs \in Seq(PutLogs)
    PROVE  /\ StoreDocuments(m, docs) \in [Doc -> Nat]
           /\ \A d \in Doc :
                 \/ StoreDocuments(m, docs)[d] = m[d]
                 \/ /\ StoreDocuments(m, docs)[d] # 0
                    /\ <<d, StoreDocuments(m, docs)[d]>> \in {<<x.doc, x.ver>> : x \in ToSet(docs)}
           /\ docs = <<>> => StoreDocuments(m, docs) = m
<1>1. ASSUME NEW d \in Doc, Places(d, docs, Len(docs)) # {}
      PROVE  /\ LastVersion(d, docs, Len(docs)) \in Nat \ {0}
             /\ <<d, LastVersion(d, docs, Len(docs))>> \in {<<x.doc, x.ver>> : x \in ToSet(docs)}
    <2>1. PICK i \in Places(d, docs, Len(docs)) : LastVersion(d, docs, Len(docs)) = docs[i].ver
        BY <1>1, SomeLast
    <2>2. i \in DOMAIN docs /\ docs[i] \in PutLogs /\ docs[i].doc = d  BY <2>1 DEF Places
    <2>3. docs[i] \in ToSet(docs)  BY <2>2 DEF ToSet
    <2> QED  BY <2>1, <2>2, <2>3, PutFields
<1>2. ASSUME docs = <<>>, NEW d \in Doc PROVE Places(d, docs, Len(docs)) = {}
    BY <1>2 DEF Places
<1> QED  BY <1>1, <1>2 DEF StoreDocuments

-----------------------------------------------------------------------------
(* processChangeLog *)

\* What a change itself writes to the store.
Written(m, e, store) ==
    IF store /\ e.op \in {"put", "delete"} THEN [m EXCEPT ![e.doc] = e.ver] ELSE m

\* The collection and the resources after a change.
ColAfter(s, e) == IF e.op \in Type THEN e.op ELSE IF e = DelCol THEN "none" ELSE s.col
HasAfter(s, e) ==
    IF e.op \in AddOp THEN s.has \cup {e.kind}
    ELSE IF e.op = "remove" /\ e # DelCol THEN s.has \ {e.kind}
    ELSE s.has

SameRest(r, s) ==
    r.pending = s.pending /\ r.restart = s.restart /\ r.logged = s.logged /\ r.halted = s.halted

LEMMA OpSets ==
    /\ Type = {"document", "untyped"} /\ AddOp = {"add", "add_unfit", "add_broken"}
    /\ RemoveOp = {"remove", "remove_linked"}
BY DEF Type, AddOp, RemoveOp

LEMMA RemoveAtType ==
    ASSUME NEW S, NEW q \in Seq(S), NEW i \in 1..Len(q)
    PROVE  RemoveAt(q, i) \in Seq(S)
BY DEF RemoveAt

LEMMA WrittenType ==
    ASSUME NEW m \in [Doc -> Nat], NEW e \in ChangeLogs, NEW store
    PROVE  Written(m, e, store) \in [Doc -> Nat]
BY LogFields DEF Written

LEMMA DocumentDone ==
    ASSUME NEW s \in GatewayState, NEW e \in ChangeLogs, NEW store \in BOOLEAN,
           NEW r, r = processDocument(s, e, store)
    PROVE  /\ r \in GatewayState /\ SameRest(r, s) /\ r.col = s.col /\ r.has = s.has
           /\ r.store = Written(s.store, e, store)
           /\ store => r.cache = s.cache
<1>1. CASE e.op = "put" /\ store
    <2>1. r = [s EXCEPT !.store = StoreDocument(@, e)]  BY <1>1 DEF processDocument
    <2>2. StoreDocument(s.store, e) = Written(s.store, e, store)
        BY <1>1 DEF StoreDocument, Written
    <2>3. PICK m \in [Doc -> Nat] : m = Written(s.store, e, store)
        BY WrittenType DEF GatewayState
    <2> QED  BY <2>1, <2>2, <2>3 DEF GatewayState, SameRest
<1>2. CASE e.op = "delete" /\ store
    <2>1. r = [s EXCEPT !.store[e.doc] = 0]  BY <1>2 DEF processDocument
    <2>2. [s.store EXCEPT ![e.doc] = 0] = Written(s.store, e, store)
        BY <1>2, LogFields DEF Written
    <2>3. PICK m \in [Doc -> Nat] : m = Written(s.store, e, store)
        BY WrittenType DEF GatewayState
    <2>4. r = [s EXCEPT !.store = m]  BY <2>1, <2>2, <2>3 DEF GatewayState
    <2> QED  BY <2>3, <2>4 DEF GatewayState, SameRest
<1>3. CASE e.op = "put" /\ ~store
    <2>1. r = [s EXCEPT !.cache = Append(@, e)]  BY <1>3 DEF processDocument
    <2>2. PICK q \in Seq(PutLogs) : q = Append(s.cache, e)
        <3>1. e \in PutLogs  BY <1>3, LogFields
        <3>2. s.cache \in Seq(PutLogs)  BY DEF GatewayState
        <3>3. Append(s.cache, e) \in Seq(PutLogs)  BY <3>1, <3>2, AppendProperties
        <3> QED  BY <3>3
    <2>3. s.store = Written(s.store, e, store)  BY <1>3 DEF Written
    <2> QED  BY <1>3, <2>1, <2>2, <2>3 DEF GatewayState, SameRest
<1>4. CASE e.op = "delete" /\ ~store
    <2>1. PICK i : i = BinarySearch(s.cache, e.doc)  OBVIOUS
    <2>2. r = IF i \in 1..Len(s.cache) THEN [s EXCEPT !.cache = RemoveAt(@, i)] ELSE s
        BY <1>4, <2>1 DEF processDocument
    <2>3. s.store = Written(s.store, e, store)  BY <1>4 DEF Written
    <2>4. CASE i \notin 1..Len(s.cache)  BY <1>4, <2>2, <2>3, <2>4 DEF SameRest
    <2>5. CASE i \in 1..Len(s.cache)
        <3>1. PICK q \in Seq(PutLogs) : q = RemoveAt(s.cache, i)
            BY <2>5, RemoveAtType DEF GatewayState
        <3>2. r = [s EXCEPT !.cache = q]  BY <2>2, <2>5, <3>1
        <3> QED  BY <1>4, <3>1, <3>2, <2>3 DEF GatewayState, SameRest
    <2> QED  BY <2>4, <2>5
<1>5. CASE e.op \notin {"put", "delete"}
    <2>1. r = s  BY <1>5 DEF processDocument
    <2>2. s.store = Written(s.store, e, store)  BY <1>5 DEF Written
    <2> QED  BY <2>1, <2>2 DEF SameRest
<1> QED  BY <1>1, <1>2, <1>3, <1>4, <1>5

LEMMA ResourceDone ==
    ASSUME NEW s \in GatewayState, NEW e \in ChangeLogs, e.op # "add_unfit",
           NEW r, r = processResource(s, e)
    PROVE  /\ r \in GatewayState /\ SameRest(r, s) /\ r.store = s.store /\ r.cache = s.cache
           /\ r.col = ColAfter(s, e) /\ r.has = HasAfter(s, e)
<1>0. e = DelCol => e.op = "remove"  BY LogKinds
<1>b. PICK b \in BOOLEAN : b = BrokenAfter(s, e)
    <2>1. BrokenAfter(s, e) \in BOOLEAN  BY DEF BrokenAfter
    <2> QED  BY <2>1
<1>1. CASE e.op \in Type
    <2>2. e.op \in ColState /\ e.op \notin AddOp /\ e.op # "remove" /\ e # DelCol
        BY <1>0, <1>1, OpSets DEF ColState
    <2>1. r = [s EXCEPT !.col = e.op]  BY <1>1, <2>2 DEF processResource
    <2>3. e.op = ColAfter(s, e) /\ s.has = HasAfter(s, e)  BY <1>1, <2>2 DEF ColAfter, HasAfter
    <2> QED  BY <2>1, <2>2, <2>3 DEF GatewayState, SameRest
<1>2. CASE e.op \in AddOp
    <2>0. e.op \notin Type /\ e # DelCol /\ e.op # "remove" /\ e.op \in {"add", "add_broken"}
        BY <1>0, <1>2, OpSets
    <2>2. PICK H \in SUBSET Kind : H = s.has \cup {e.kind}
        BY <2>0, LogFields DEF GatewayState
    <2>1. r = [s EXCEPT !.has = H, !.broken = b]  BY <1>2, <1>b, <2>0, <2>2 DEF processResource
    <2>3. H = HasAfter(s, e) /\ s.col = ColAfter(s, e)
        BY <1>2, <2>0, <2>2 DEF ColAfter, HasAfter
    <2> QED  BY <2>1, <2>2, <2>3 DEF GatewayState, SameRest
<1>3. CASE e = DelCol
    <2>0. e.op \notin Type /\ e.op = "remove" /\ e.op \notin AddOp  BY <1>0, <1>3, OpSets
    <2>1. r = [s EXCEPT !.col = "none"]  BY <1>3, <2>0 DEF processResource
    <2>2. "none" \in ColState  BY DEF ColState
    <2>3. "none" = ColAfter(s, e) /\ s.has = HasAfter(s, e)
        BY <1>3, <2>0 DEF ColAfter, HasAfter
    <2> QED  BY <2>1, <2>2, <2>3 DEF GatewayState, SameRest
<1>4. CASE e.op = "remove" /\ e # DelCol
    <2>0. e.op \notin Type /\ e.op \notin AddOp  BY <1>4, OpSets
    <2>2. PICK H \in SUBSET Kind : H = s.has \ {e.kind}  BY DEF GatewayState
    <2>1. r = [s EXCEPT !.has = H, !.broken = b]  BY <1>4, <1>b, <2>0, <2>2 DEF processResource
    <2>3. H = HasAfter(s, e) /\ s.col = ColAfter(s, e)
        BY <1>4, <2>0, <2>2 DEF ColAfter, HasAfter
    <2> QED  BY <2>1, <2>2, <2>3 DEF GatewayState, SameRest
<1>5. CASE e.op \notin Type /\ e.op \notin AddOp /\ e.op # "remove"
    <2>1. e # DelCol  BY <1>0, <1>5
    <2>2. r = s  BY <1>5, <2>1 DEF processResource
    <2>3. s.has = HasAfter(s, e) /\ s.col = ColAfter(s, e)
        BY <1>5, <2>1 DEF ColAfter, HasAfter
    <2> QED  BY <2>2, <2>3 DEF SameRest
<1> QED  BY <1>1, <1>2, <1>3, <1>4, <1>5

\* A refused change only asks for a restart.
OnlyRestart(s, e, r) ==
    /\ r \in GatewayState /\ r.restart = e
    /\ r.store = s.store /\ r.cache = s.cache /\ r.col = s.col /\ r.has = s.has

LEMMA ChangeRefused ==
    ASSUME NEW s \in GatewayState, NEW e \in ChangeLogs, NEW reload \in BOOLEAN,
           NEW store \in BOOLEAN, NEW r, r = processChangeLog(s, e, reload, store),
           Refused(s, e, store)
    PROVE  OnlyRestart(s, e, r)
<1>1. r = [s EXCEPT !.restart = e]  BY DEF processChangeLog
<1>2. e \in RestartLog  BY DEF RestartLog
<1> QED  BY <1>1, <1>2 DEF GatewayState, OnlyRestart

\* Another one is made, and a reload, which may fail, stores what is in docCache.
LEMMA ChangeMade ==
    ASSUME NEW s \in GatewayState, NEW e \in ChangeLogs, NEW reload \in BOOLEAN,
           NEW store \in BOOLEAN, NEW r, r = processChangeLog(s, e, reload, store),
           ~Refused(s, e, store)
    PROVE  /\ r \in GatewayState /\ r.restart \in {s.restart, FailedReload}
           /\ r.col = ColAfter(s, e) /\ r.has = HasAfter(s, e)
           /\ \A d \in Doc :
                 \/ r.store[d] = Written(s.store, e, store)[d]
                 \/ r.store[d] # 0 /\ <<d, r.store[d]>> \in Flushing(s, e, reload, store)
           /\ (store /\ s.cache = <<>>) =>
                 r.cache = <<>> /\ r.store = Written(s.store, e, store)
<1>1. PICK p : p = processDocument(s, e, store)  OBVIOUS
<1>2. /\ p \in GatewayState /\ SameRest(p, s) /\ p.col = s.col /\ p.has = s.has
      /\ p.store = Written(s.store, e, store)
      /\ store => p.cache = s.cache
    BY <1>1, DocumentDone
<1>3. PICK q : q = processResource(p, e)  OBVIOUS
<1>4. /\ q \in GatewayState /\ SameRest(q, p) /\ q.store = p.store /\ q.cache = p.cache
      /\ q.col = ColAfter(p, e) /\ q.has = HasAfter(p, e)
    <2>1. e.op # "add_unfit"  BY DEF Refused
    <2> QED  BY <1>2, <1>3, <2>1, ResourceDone
<1>5. ColAfter(p, e) = ColAfter(s, e) /\ HasAfter(p, e) = HasAfter(s, e)
    BY <1>2 DEF ColAfter, HasAfter
<1>6. CASE Reloads(s, e, reload)
    <2>2. PICK m \in [Doc -> Nat] : m = StoreDocuments(q.store, q.cache)
        BY <1>4, StoreDocumentsCases DEF GatewayState
    <2>3. PICK b \in BOOLEAN : b = (q.logged \/ store)  OBVIOUS
    <2>4. \/ r = [q EXCEPT !.store = m, !.cache = <<>>, !.pending = FALSE, !.logged = b]
          \/ r = [q EXCEPT !.store = m, !.cache = <<>>, !.restart = FailedReload]
        <3>1. CASE ReloadFails(s, e, reload)
            <4>1. r = [storeCachedDocuments(q) EXCEPT !.restart = FailedReload]
                BY <1>1, <1>3, <3>1 DEF processChangeLog
            <4> QED  BY <1>4, <2>2, <4>1 DEF storeCachedDocuments, GatewayState
        <3>2. CASE ~ReloadFails(s, e, reload)
            <4>1. r = [storeCachedDocuments(q) EXCEPT !.pending = FALSE, !.logged = @ \/ store]
                BY <1>1, <1>3, <1>6, <3>2 DEF processChangeLog
            <4> QED  BY <1>4, <2>2, <2>3, <4>1 DEF storeCachedDocuments, GatewayState
        <3> QED  BY <3>1, <3>2
    <2>10. FailedReload \in RestartLog  BY DEF RestartLog
    <2>5. <<>> \in Seq(PutLogs)  OBVIOUS
    <2>6. r \in GatewayState  BY <1>4, <2>4, <2>5, <2>10 DEF GatewayState
    <2>7. /\ r.store = m /\ r.cache = <<>> /\ r.col = q.col /\ r.has = q.has
          /\ r.restart \in {q.restart, FailedReload}
        BY <1>4, <2>4 DEF GatewayState
    <2>8. Flushing(s, e, reload, store) = {<<x.doc, x.ver>> : x \in ToSet(q.cache)}
        BY <1>1, <1>4, <1>6 DEF Flushing
    <2>9. /\ \A d \in Doc : \/ m[d] = q.store[d]
                            \/ m[d] # 0 /\ <<d, m[d]>> \in {<<x.doc, x.ver>> : x \in ToSet(q.cache)}
          /\ q.cache = <<>> => m = q.store
        BY <1>4, <2>2, StoreDocumentsCases DEF GatewayState
    <2> QED  BY <1>2, <1>4, <1>5, <2>6, <2>7, <2>8, <2>9 DEF SameRest
<1>7. CASE ~Reloads(s, e, reload)
    <2>1. r = [q EXCEPT !.pending = @ \/ ~reload, !.logged = @ \/ store]
        BY <1>1, <1>3, <1>7 DEF processChangeLog, ReloadFails
    <2>2. PICK b \in BOOLEAN : b = (q.logged \/ store)  OBVIOUS
    <2>3. PICK a \in BOOLEAN : a = (q.pending \/ ~reload)  OBVIOUS
    <2>4. r = [q EXCEPT !.pending = a, !.logged = b]  BY <2>1, <2>2, <2>3
    <2>5. r \in GatewayState /\ r.store = q.store /\ r.cache = q.cache
          /\ r.restart = q.restart /\ r.col = q.col /\ r.has = q.has
        BY <1>4, <2>4 DEF GatewayState
    <2> QED  BY <1>2, <1>4, <1>5, <2>5 DEF SameRest
<1> QED  BY <1>6, <1>7

-----------------------------------------------------------------------------
(* Handlers *)

\* What a handler hands on is a change log, whose checks hold when it begins.
GoodHandler(h) ==
    /\ h.change \in ChangeLogs /\ h.waits \in BOOLEAN
    /\ (h.waits /\ h.change.kind = "document") => h.change \in PutLogs
    /\ h.admitted => StillChecked(h.change, st)

LEMMA DocumentChanges ==
    ASSUME NEW d \in Doc
    PROVE  /\ \A v \in Nat \ {0} : Put(d, v) \in PutLogs /\ Put(d, v) \in ChangeLogs
           /\ Del(d) \in ChangeLogs /\ Del(d).op = "delete" /\ Del(d).doc = d
BY DEF ChangeLogs, PutLogs, DelLogs, Put, Del, Change

AnyKind == {"namespace", "route", "service", "module", "domain", "secret"}

LEMMA ResourceHandlersGood ==
    ASSUME NEW h \in ResourceHandlers, h.change.kind \in Kind
    PROVE  GoodHandler(h)
<1>1. \E op \in AddOp \cup RemoveOp, kind \in AnyKind, w \in BOOLEAN, a \in BOOLEAN :
         /\ h = Handler(a, Resource(op, kind), w)
         /\ (kind = "domain" /\ op = "remove") => (a => "domain" \in st.has)
    <2>1. CASE \E op \in AddOp : h \in {PutNamespace(op), PutRoute(op), PutService(op), PutModule(op),
                                      PutDomain(op), PutSecret(op)}
        <3>1. PICK op \in AddOp : h \in {PutNamespace(op), PutRoute(op), PutService(op), PutModule(op),
                                       PutDomain(op), PutSecret(op)}
            BY <2>1
        <3>2. \E kind \in AnyKind : h = Handler(TRUE, Resource(op, kind), TRUE)
            BY <3>1, Zenon DEF AnyKind, PutNamespace, PutRoute, PutService, PutModule, PutDomain, PutSecret
        <3>3. op # "remove" /\ TRUE \in BOOLEAN /\ op \in AddOp \cup RemoveOp  BY OpSets
        <3> QED  BY <3>2, <3>3, Zenon
    <2>2. CASE \E op \in RemoveOp : h \in {DeleteNamespace(op), DeleteRoute(op), DeleteService(op),
                                         DeleteModule(op), DeleteDomain(op), DeleteSecret(op)}
        <3>1. PICK op \in RemoveOp : h \in {DeleteNamespace(op), DeleteRoute(op), DeleteService(op),
                                          DeleteModule(op), DeleteDomain(op), DeleteSecret(op)}
            BY <2>2
        <3>2. CASE h = DeleteDomain(op)
            <4>1. h = Handler("domain" \in st.has, Resource(op, "domain"), FALSE)
                BY <3>2 DEF DeleteDomain
            <4>2. /\ FALSE \in BOOLEAN /\ ("domain" \in st.has) \in BOOLEAN /\ "domain" \in AnyKind
                  /\ op \in AddOp \cup RemoveOp
                BY DEF AnyKind
            <4> QED  BY <4>1, <4>2, Zenon
        <3>3. CASE h # DeleteDomain(op)
            <4>1. \E kind \in {"namespace", "route", "service", "module", "secret"} :
                     h = Handler(TRUE, Resource(op, kind), FALSE)
                BY <3>1, <3>3, Zenon
                DEF DeleteNamespace, DeleteRoute, DeleteService, DeleteModule, DeleteSecret
            <4>2. PICK kind \in {"namespace", "route", "service", "module", "secret"} :
                     h = Handler(TRUE, Resource(op, kind), FALSE)
                BY <4>1
            <4>3. /\ kind # "domain" /\ FALSE \in BOOLEAN /\ TRUE \in BOOLEAN /\ kind \in AnyKind
                  /\ op \in AddOp \cup RemoveOp
                BY DEF AnyKind
            <4> QED  BY <4>2, <4>3, Zenon
        <3> QED  BY <3>2, <3>3
    <2>3. \/ \E op \in AddOp : h \in {PutNamespace(op), PutRoute(op), PutService(op), PutModule(op),
                                   PutDomain(op), PutSecret(op)}
          \/ \E op \in RemoveOp : h \in {DeleteNamespace(op), DeleteRoute(op), DeleteService(op),
                                      DeleteModule(op), DeleteDomain(op), DeleteSecret(op)}
        <3> DEFINE Puts == {{PutNamespace(op), PutRoute(op), PutService(op), PutModule(op),
                             PutDomain(op), PutSecret(op)} : op \in AddOp}
                   Deletes == {{DeleteNamespace(op), DeleteRoute(op), DeleteService(op),
                                DeleteModule(op), DeleteDomain(op), DeleteSecret(op)} :
                               op \in RemoveOp}
        <3>1. h \in (UNION Puts) \cup (UNION Deletes)  BY Zenon DEF ResourceHandlers
        <3>2. ASSUME NEW X \in Puts, h \in X
              PROVE  \E op \in AddOp : h \in {PutNamespace(op), PutRoute(op), PutService(op),
                                             PutModule(op), PutDomain(op), PutSecret(op)}
            BY <3>2, Zenon
        <3>3. ASSUME NEW X \in Deletes, h \in X
              PROVE  \E op \in RemoveOp : h \in {DeleteNamespace(op), DeleteRoute(op), DeleteService(op),
                                                DeleteModule(op), DeleteDomain(op), DeleteSecret(op)}
            BY <3>3, Zenon
        <3>4. (\E X \in Puts : h \in X) \/ (\E X \in Deletes : h \in X)
            <4> HIDE DEF Puts, Deletes
            <4>1. h \in UNION Puts \/ h \in UNION Deletes  BY <3>1
            <4> QED  BY <4>1
        <3> HIDE DEF Puts, Deletes
        <3> QED  BY <3>2, <3>3, <3>4, Zenon
    <2> QED  BY <2>1, <2>2, <2>3, Zenon
<1>2. PICK op \in AddOp \cup RemoveOp, kind \in AnyKind, w \in BOOLEAN, a \in BOOLEAN :
         /\ h = Handler(a, Resource(op, kind), w)
         /\ (kind = "domain" /\ op = "remove") => (a => "domain" \in st.has)
    BY <1>1
<1>3. /\ h.change = Resource(op, kind) /\ h.waits = w /\ h.admitted = a
      /\ h.change.op = op /\ h.change.kind = kind
    BY <1>2 DEF Handler, Resource, Change
<1>4. h.change \in ChangeLogs
    BY <1>3 DEF ChangeLogs, AddLogs, RemoveLogs
<1>5. "document" \notin Kind /\ "collection" \notin Kind  BY AdminHandlersAssumption
<1>6. h.change # DelCol  BY <1>3, <1>5, <1>4, LogKinds
<1>7. h.change = Delete("domain") => kind = "domain" /\ op = "remove"  BY <1>3, <1>4, LogKinds
<1>8. op # "delete"  BY OpSets
<1>9. h.admitted => StillChecked(h.change, st)
    BY <1>2, <1>3, <1>6, <1>7, <1>8 DEF StillChecked
<1> QED  BY <1>3, <1>4, <1>5, <1>9 DEF GoodHandler

LEMMA CollectionHandlers ==
    ASSUME NEW h, h \in {PutCollection(op) : op \in Type \cup {"add_unfit"}} \cup {DeleteCollection}
    PROVE  GoodHandler(h)
<1>1. CASE h = DeleteCollection
    <2>1. h.change = DelCol /\ h.waits = FALSE /\ (h.admitted => st.col # "none")
        BY <1>1 DEF DeleteCollection, Handler
    <2>2. DelCol \in ChangeLogs /\ DelCol.op = "remove" /\ DelCol # Delete("domain")
        BY DEF ChangeLogs, DelCol, Delete, Resource, Change
    <2> QED  BY <2>1, <2>2 DEF GoodHandler, StillChecked
<1>2. ASSUME NEW op \in Type \cup {"add_unfit"}, h = PutCollection(op) PROVE GoodHandler(h)
    <2>1. h.change = PutCol(op) /\ h.waits = TRUE  BY <1>2 DEF PutCollection, Handler
    <2>2. PutCol(op) \in ChangeLogs /\ PutCol(op).op = op /\ PutCol(op).kind = "collection"
        BY DEF ChangeLogs, ColLogs, PutCol, Change
    <2>3. op \in {"document", "untyped", "add_unfit"}  BY OpSets
    <2>4. PutCol(op) # DelCol /\ PutCol(op) # Delete("domain")
        BY <2>2, <2>3, LogKinds
    <2> QED  BY <2>1, <2>2, <2>3, <2>4 DEF GoodHandler, StillChecked
<1> QED  BY <1>1, <1>2

LEMMA DocumentHandlers ==
    ASSUME NEW h, asked \in Nat,
           h \in {DeleteDocument} \cup {PutDocument(d) : d \in AskedDoc}
                     \cup {DeleteDocumentByID(d) : d \in AskedDoc}
    PROVE  GoodHandler(h)
<1>1. CASE h = DeleteDocument
    <2>1. h.change = DelNoId /\ h.waits = FALSE  BY <1>1 DEF DeleteDocument, Handler
    <2>2. DelNoId \in ChangeLogs /\ DelNoId.op = "delete_no_id"
        BY DEF ChangeLogs, DelNoId, Change
    <2>3. DelNoId # DelCol /\ DelNoId # Delete("domain")  BY <2>2, LogKinds
    <2> QED  BY <2>1, <2>2, <2>3 DEF GoodHandler, StillChecked
<1>2. ASSUME NEW d \in AskedDoc, h = PutDocument(d) PROVE GoodHandler(h)
    <2>1. PICK v : v = asked + 2  OBVIOUS
    <2>2. h.change = Put(d, v) /\ h.waits = TRUE /\ (h.admitted => st.col # "none")
        BY <1>2, <2>1 DEF PutDocument, Handler
    <2>3. v \in Nat \ {0} /\ d \in Doc  BY <2>1, AdminHandlersAssumption
    <2>4. Put(d, v) \in PutLogs /\ Put(d, v) \in ChangeLogs  BY <2>3, DocumentChanges
    <2>5. Put(d, v).op = "put"  BY <2>4, PutFields
    <2>6. Put(d, v) # DelCol /\ Put(d, v) # Delete("domain")  BY <2>4, <2>5, LogKinds
    <2> QED  BY <2>2, <2>4, <2>5, <2>6 DEF GoodHandler, StillChecked
<1>3. ASSUME NEW d \in AskedDoc, h = DeleteDocumentByID(d) PROVE GoodHandler(h)
    <2>1. h.change = Del(d) /\ h.waits = FALSE /\ (h.admitted => st.store[d] # 0)
        BY <1>3 DEF DeleteDocumentByID, Handler
    <2>2. d \in Doc  BY AdminHandlersAssumption
    <2>3. Del(d) \in ChangeLogs /\ Del(d).op = "delete" /\ Del(d).doc = d  BY <2>2, DocumentChanges
    <2>4. Del(d) # DelCol /\ Del(d) # Delete("domain")  BY <2>3, LogKinds
    <2> QED  BY <2>1, <2>3, <2>4 DEF GoodHandler, StillChecked
<1> QED  BY <1>1, <1>2, <1>3

LEMMA HandlersGood ==
    ASSUME asked \in Nat, NEW h \in Handlers
    PROVE  GoodHandler(h)
<1>1. \/ h \in ResourceHandlers /\ h.change.kind \in Kind
      \/ h \in {PutCollection(op) : op \in Type \cup {"add_unfit"}} \cup {DeleteCollection}
      \/ h \in {DeleteDocument} \cup {PutDocument(d) : d \in AskedDoc}
                     \cup {DeleteDocumentByID(d) : d \in AskedDoc}
    BY DEF Handlers
<1> QED  BY <1>1, ResourceHandlersGood, CollectionHandlers, DocumentHandlers

\* The steps of the gateway.
LEMMA HandlerCases ==
    ASSUME HandlersTyped, HandlersNext, NEW Q,
           ASSUME NEW c \in calls, ApplyAlone(c) PROVE Q,
           ASSUME NEW c \in calls, ApplyLocally(c) PROVE Q,
           ASSUME NEW c \in calls, CommitLog(c) PROVE Q,
           ASSUME NEW c \in calls, CommitFails(c) PROVE Q,
           ASSUME NEW c \in calls, FutureDone(c) PROVE Q,
           ASSUME NEW c \in calls, Respond(c) PROVE Q,
           ASSUME NEW reload \in BOOLEAN, ApplyEntry(reload) PROVE Q,
           ASSUME restartState PROVE Q,
           ASSUME NEW h, GoodHandler(h), Begin(h) PROVE Q,
           ASSUME LeadChanges PROVE Q,
           ASSUME NEW e \in ChangeLogs, OtherCommits(e) PROVE Q
    PROVE  Q
<1>1. CASE Progress  BY <1>1, Zenon DEF Progress
<1>2. CASE asked < MaxCalls /\ \E h \in Handlers : Begin(h)
    <2>1. asked \in Nat  BY DEF HandlersTyped
    <2> QED  BY <1>2, <2>1, HandlersGood, Zenon
<1>3. CASE LeadChanges  BY <1>3, Zenon
<1>4. CASE \E d \in AskedDoc :
              OtherCommits(Put(d, MaxCalls + others + 2)) \/ OtherCommits(Del(d))
    <2>1. ASSUME NEW d \in AskedDoc
          PROVE  Put(d, MaxCalls + others + 2) \in ChangeLogs /\ Del(d) \in ChangeLogs
        <3>1. MaxCalls + others + 2 \in Nat \ {0} /\ d \in Doc
            BY AdminHandlersAssumption DEF HandlersTyped
        <3> QED  BY <3>1, DocumentChanges
    <2> QED  BY <1>4, <2>1, Zenon
<1> QED  BY <1>1, <1>2, <1>3, <1>4, Zenon DEF HandlersNext

-----------------------------------------------------------------------------
(* Types *)

LEMMA MadeKeepsRestart ==
    ASSUME NEW s \in GatewayState, NEW e \in ChangeLogs, NEW reload \in BOOLEAN,
           ~Refused(s, e, TRUE)
    PROVE  processChangeLog(s, e, reload, TRUE).restart \in {s.restart, FailedReload}
<1>1. PICK r : r = processChangeLog(s, e, reload, TRUE)  OBVIOUS
<1>2. PICK store \in BOOLEAN : store = TRUE  OBVIOUS
<1>3. r = processChangeLog(s, e, reload, store) /\ ~Refused(s, e, store)  BY <1>1, <1>2
<1>4. r.restart \in {s.restart, FailedReload}  BY <1>3, ChangeMade
<1> QED  BY <1>1, <1>4

LEMMA ChangeTyped ==
    ASSUME NEW s \in GatewayState, NEW e \in ChangeLogs, NEW reload \in BOOLEAN,
           NEW store \in BOOLEAN
    PROVE  processChangeLog(s, e, reload, store) \in GatewayState
<1>1. PICK r : r = processChangeLog(s, e, reload, store)  OBVIOUS
<1>2. r \in GatewayState  BY <1>1, ChangeRefused, ChangeMade DEF OnlyRestart
<1> QED  BY <1>1, <1>2

LEMMA StageMembers == "apply" \in Stage /\ "raft" \in Stage /\ "future" \in Stage /\ "wait" \in Stage
BY DEF Stage

LEMMA CallMoved ==
    ASSUME NEW c \in HandlerCall, NEW a \in Stage, NEW i \in Nat
    PROVE  [c EXCEPT !.at = a] \in HandlerCall /\ [c EXCEPT !.at = a, !.index = i] \in HandlerCall
BY DEF HandlerCall

LEMMA TypedInit == HandlersInit => HandlersTyped
<1> SUFFICES ASSUME HandlersInit PROVE HandlersTyped  OBVIOUS
<1>1. PICK docs \in SUBSET Doc, cached \in BOOLEAN, fresh \in BOOLEAN :
         LET entries == IF raft /\ docs # {} THEN <<Put(Max(Doc), 1)>> ELSE <<>>
         IN /\ fresh => docs = {}
            /\ raft => docs \subseteq {Max(Doc)}
            /\ st = [col |-> IF fresh THEN "none" ELSE "document",
                     has |-> IF fresh THEN {} ELSE Kind,
                     store |-> [d \in Doc |-> IF d \in docs THEN 1 ELSE 0],
                     cache |-> IF cached THEN entries ELSE <<>>, pending |-> FALSE,
                     broken |-> FALSE, restart |-> NoChange, logged |-> ~fresh, halted |-> FALSE]
            /\ log = entries /\ applied = Len(log)
    BY DEF HandlersInit
<1> DEFINE entries == IF raft /\ docs # {} THEN <<Put(Max(Doc), 1)>> ELSE <<>>
<1>2. entries \in Seq(PutLogs) /\ entries \in Seq(ChangeLogs)
    <2>1. CASE raft /\ docs # {}
        <3>1. Max(Doc) \in Doc  BY <1>1, <2>1
        <3>2. Put(Max(Doc), 1) \in PutLogs /\ Put(Max(Doc), 1) \in ChangeLogs
            BY <3>1, DocumentChanges
        <3> QED  BY <2>1, <3>2
    <2>2. CASE ~(raft /\ docs # {})  BY <2>2
    <2> QED  BY <2>1, <2>2
<1>3. st \in GatewayState
    <2> HIDE DEF entries
    <2>1. PICK col \in ColState : col = IF fresh THEN "none" ELSE "document"  BY DEF ColState, Type
    <2>2. PICK has \in SUBSET Kind : has = IF fresh THEN {} ELSE Kind  OBVIOUS
    <2>3. PICK store \in [Doc -> Nat] : store = [d \in Doc |-> IF d \in docs THEN 1 ELSE 0]  OBVIOUS
    <2>4. PICK cache \in Seq(PutLogs) : cache = IF cached THEN entries ELSE <<>>
        <3>1. <<>> \in Seq(PutLogs)  OBVIOUS
        <3> QED  BY <1>2, <3>1
    <2>5. PICK old \in BOOLEAN : old = ~fresh  OBVIOUS
    <2>6. NoChange \in RestartLog  BY DEF RestartLog
    <2>7. st = [col |-> col, has |-> has, store |-> store, cache |-> cache, pending |-> FALSE,
                broken |-> FALSE, restart |-> NoChange, logged |-> old, halted |-> FALSE]
        BY <1>1, <2>1, <2>2, <2>3, <2>4, <2>5 DEF entries
    <2> QED  BY <2>6, <2>7 DEF GatewayState
<1>4. log \in Seq(ChangeLogs) /\ applied \in 0..Len(log)
    <2>1. log = entries /\ applied = Len(log)  BY <1>1
    <2> HIDE DEF entries
    <2>2. Len(log) \in Nat  BY <1>2, <2>1
    <2> QED  BY <1>2, <2>1, <2>2
<1> QED  BY <1>3, <1>4 DEF HandlersInit, HandlersTyped

LEMMA TypedStep == HandlersTyped /\ [HandlersNext]_handlerVars => HandlersTyped'
<1> SUFFICES ASSUME HandlersTyped, [HandlersNext]_handlerVars PROVE HandlersTyped'
    OBVIOUS
<1>1. CASE UNCHANGED handlerVars  BY <1>1 DEF HandlersTyped, handlerVars
<1>2. ASSUME NEW c \in calls, ApplyAlone(c) PROVE HandlersTyped'
    <2>1. c.change \in ChangeLogs  BY DEF HandlersTyped, HandlerCall
    <2>2. st' \in GatewayState  BY <1>2, <2>1, ChangeTyped DEF ApplyAlone, HandlersTyped
    <2> QED  BY <1>2, <2>2 DEF ApplyAlone, HandlersTyped
<1>3. ASSUME NEW c \in calls, ApplyLocally(c) PROVE HandlersTyped'
    <2>1. c.change \in ChangeLogs /\ c \in HandlerCall  BY DEF HandlersTyped, HandlerCall
    <2>2. st' \in GatewayState  BY <1>3, <2>1, ChangeTyped DEF ApplyLocally, HandlersTyped
    <2>3. calls' \subseteq HandlerCall
        <3>1. [c EXCEPT !.at = "raft"] \in HandlerCall  BY <2>1, CallMoved, StageMembers
        <3>2. calls' \subseteq calls \cup {[c EXCEPT !.at = "raft"]}  BY <1>3 DEF ApplyLocally
        <3> QED  BY <3>1, <3>2 DEF HandlersTyped
    <2> QED  BY <1>3, <2>2, <2>3 DEF ApplyLocally, HandlersTyped
<1>4. ASSUME NEW c \in calls, CommitLog(c) PROVE HandlersTyped'
    <2>1. c.change \in ChangeLogs /\ c \in HandlerCall  BY DEF HandlersTyped, HandlerCall
    <2>2. log' \in Seq(ChangeLogs) /\ Len(log') = Len(log) + 1 /\ Len(log) \in Nat
        BY <1>4, <2>1 DEF CommitLog, HandlersTyped
    <2>3. applied' \in 0..Len(log')  BY <1>4, <2>2 DEF CommitLog, HandlersTyped
    <2>4. calls' \subseteq HandlerCall
        <3>1. PICK i \in Nat : i = Len(log) + 1  BY <2>2
        <3>2. [c EXCEPT !.at = "future", !.index = i] \in HandlerCall
            BY <2>1, CallMoved, StageMembers
        <3>3. calls' \subseteq calls \cup {[c EXCEPT !.at = "future", !.index = i]}
            BY <1>4, <3>1 DEF CommitLog
        <3> QED  BY <3>2, <3>3 DEF HandlersTyped
    <2> QED  BY <1>4, <2>2, <2>3, <2>4 DEF CommitLog, HandlersTyped
<1>5. ASSUME NEW c \in calls, CommitFails(c) PROVE HandlersTyped'
    BY <1>5 DEF CommitFails, HandlersTyped
<1>6. ASSUME NEW c \in calls, FutureDone(c) PROVE HandlersTyped'
    <2>1. [c EXCEPT !.at = "wait"] \in HandlerCall
        BY CallMoved, StageMembers DEF HandlersTyped
    <2>2. calls' \subseteq calls \cup {[c EXCEPT !.at = "wait"]}  BY <1>6 DEF FutureDone
    <2>3. calls' \subseteq HandlerCall  BY <2>1, <2>2 DEF HandlersTyped
    <2> QED  BY <1>6, <2>3 DEF FutureDone, HandlersTyped
<1>7. ASSUME NEW c \in calls, Respond(c) PROVE HandlersTyped'
    BY <1>7 DEF Respond, HandlersTyped
<1>8. ASSUME NEW reload \in BOOLEAN, ApplyEntry(reload) PROVE HandlersTyped'
    <2>1. applied < Len(log) /\ applied \in Nat /\ Len(log) \in Nat
        BY <1>8 DEF ApplyEntry, HandlersTyped
    <2>2. applied + 1 \in 1..Len(log)  BY <2>1
    <2>3. log[applied + 1] \in ChangeLogs  BY <2>2 DEF HandlersTyped
    <2>4. st' \in GatewayState  BY <1>8, <2>3, ChangeTyped DEF ApplyEntry, HandlersTyped
    <2>5. applied' \in 0..Len(log')  BY <1>8, <2>1 DEF ApplyEntry
    <2> QED  BY <1>8, <2>4, <2>5 DEF ApplyEntry, HandlersTyped
<1>9. ASSUME restartState PROVE HandlersTyped'
    <2>1. NoChange \in RestartLog  BY DEF RestartLog
    <2>2. st' \in GatewayState  BY <1>9, <2>1 DEF restartState, HandlersTyped, GatewayState
    <2> QED  BY <1>9, <2>2 DEF restartState, HandlersTyped
<1>10. ASSUME NEW h, GoodHandler(h), Begin(h) PROVE HandlersTyped'
    <2>1. PICK n \in Nat : n = asked + 1  BY DEF HandlersTyped
    <2>2. [n |-> n, change |-> h.change, waits |-> h.waits, at |-> "apply", index |-> 0] \in HandlerCall
        BY <1>10, StageMembers DEF HandlerCall, GoodHandler
    <2>3. calls' \subseteq HandlerCall  BY <1>10, <2>1, <2>2 DEF Begin, HandlersTyped
    <2>4. beside' \in BOOLEAN  BY <1>10 DEF Begin
    <2>5. asked' \in Nat  BY <1>10, <2>1 DEF Begin
    <2> QED  BY <1>10, <2>3, <2>4, <2>5 DEF Begin, HandlersTyped
<1>11. ASSUME LeadChanges PROVE HandlersTyped'
    <2>1. lead' \in BOOLEAN /\ beside' \in BOOLEAN  BY <1>11 DEF LeadChanges
    <2> QED  BY <1>11, <2>1 DEF LeadChanges, HandlersTyped
<1>12. ASSUME NEW e \in ChangeLogs, OtherCommits(e) PROVE HandlersTyped'
    <2>1. log' \in Seq(ChangeLogs) /\ Len(log') = Len(log) + 1 /\ Len(log) \in Nat
        BY <1>12 DEF OtherCommits, HandlersTyped
    <2>2. applied' \in 0..Len(log')  BY <1>12, <2>1 DEF OtherCommits, HandlersTyped
    <2> QED  BY <1>12, <2>1, <2>2 DEF OtherCommits, HandlersTyped
<1>13. CASE HandlersNext
    BY <1>2, <1>3, <1>4, <1>5, <1>6, <1>7, <1>8, <1>9, <1>10, <1>11, <1>12, <1>13, HandlerCases,
       Zenon
<1> QED  BY <1>1, <1>13

-----------------------------------------------------------------------------
(* Calls and the log *)

LEMMA InLogKept ==
    ASSUME HandlersTyped, HandlersTyped', NEW c, InLog(c), raft' = raft, applied' >= applied,
           Len(log') >= Len(log), \A i \in 1..Len(log) : log'[i] = log[i], c.index \in Nat
    PROVE  InLog(c)'
<1>1. /\ applied \in Nat /\ applied' \in Nat /\ Len(log) \in Nat /\ Len(log') \in Nat
    BY DEF HandlersTyped
<1>2. ASSUME c.at \in {"future", "wait"}
      PROVE  c.index \in 1..Len(log') /\ log'[c.index] = c.change
    BY <1>1, <1>2 DEF InLog
<1>3. ASSUME c.at = "wait" PROVE applied' >= c.index /\ c.waits
    BY <1>1, <1>3 DEF InLog
<1> QED  BY <1>2, <1>3 DEF InLog

LEMMA Appended ==
    ASSUME HandlersTyped, NEW e \in ChangeLogs, log' = Append(log, e)
    PROVE  /\ Len(log') >= Len(log) /\ \A i \in 1..Len(log) : log'[i] = log[i]
           /\ Len(log') = Len(log) + 1 /\ log'[Len(log) + 1] = e /\ Len(log) \in Nat
BY DEF HandlersTyped

LEMMA AllInLogKept ==
    ASSUME HandlersTyped, HandlersTyped', CallsInLog, raft' = raft, applied' >= applied,
           Len(log') >= Len(log), \A i \in 1..Len(log) : log'[i] = log[i]
    PROVE  \A c \in calls : InLog(c)'
<1>1. ASSUME NEW c \in calls PROVE InLog(c)'
    <2>1. InLog(c) /\ c.index \in Nat  BY DEF CallsInLog, HandlersTyped, HandlerCall
    <2> QED  BY <2>1, InLogKept
<1> QED  BY <1>1

LEMMA CallsInLogStep ==
    HandlersTyped /\ HandlersTyped' /\ CallsInLog /\ [HandlersNext]_handlerVars => CallsInLog'
<1> SUFFICES ASSUME HandlersTyped, HandlersTyped', CallsInLog, [HandlersNext]_handlerVars
             PROVE  CallsInLog'
    OBVIOUS
<1>0. /\ applied \in Nat /\ Len(log) \in Nat /\ applied >= applied /\ Len(log) >= Len(log)
      /\ \A i \in 1..Len(log) : log[i] = log[i]
    BY DEF HandlersTyped
<1>a. ASSUME raft' = raft, applied' = applied, log' = log PROVE \A c \in calls : InLog(c)'
    BY <1>0, <1>a, AllInLogKept
<1>1. CASE UNCHANGED handlerVars
    BY <1>1, <1>a DEF CallsInLog, handlerVars
<1>2. ASSUME NEW c \in calls, ApplyAlone(c) PROVE CallsInLog'
    BY <1>2, <1>a DEF ApplyAlone, CallsInLog
<1>3. ASSUME NEW c \in calls, ApplyLocally(c) PROVE CallsInLog'
    <2>1. \A b \in calls : InLog(b)'  BY <1>3, <1>a DEF ApplyLocally
    <2>2. PICK b : b = [c EXCEPT !.at = "raft"]  OBVIOUS
    <2>3. b.at = "raft" /\ b.waits = c.waits /\ b.change = c.change
        BY <2>2 DEF HandlersTyped, HandlerCall
    <2>4. InLog(b)'  BY <1>3, <2>1, <2>3 DEF InLog, ApplyLocally
    <2>5. calls' \subseteq calls \cup {b}  BY <1>3, <2>2 DEF ApplyLocally
    <2> QED  BY <2>1, <2>4, <2>5 DEF CallsInLog
<1>4. ASSUME NEW c \in calls, CommitLog(c) PROVE CallsInLog'
    <2>0. c.change \in ChangeLogs /\ raft
        BY <1>4 DEF HandlersTyped, HandlerCall, CommitLog, CallsInLog, InLog
    <2>1. \A b \in calls : InLog(b)'
        <3>1. log' = Append(log, c.change) /\ raft' = raft /\ applied' = applied
            BY <1>4 DEF CommitLog
        <3> QED  BY <1>0, <2>0, <3>1, Appended, AllInLogKept
    <2>2. PICK b : b = [c EXCEPT !.at = "future", !.index = Len(log) + 1]  OBVIOUS
    <2>3. b.at = "future" /\ b.waits = c.waits /\ b.change = c.change /\ b.index = Len(log) + 1
        BY <2>2 DEF HandlersTyped, HandlerCall
    <2>4. InLog(b)'
        <3>1. log' = Append(log, c.change) /\ raft' = raft  BY <1>4 DEF CommitLog
        <3>2. b.index \in 1..Len(log') /\ log'[b.index] = b.change
            BY <2>0, <2>3, <3>1, Appended
        <3>3. (b.waits /\ b.change.kind = "document") => b.change \in PutLogs
            BY <2>3 DEF CallsInLog, InLog
        <3> QED  BY <2>0, <2>3, <3>1, <3>2, <3>3 DEF InLog
    <2>5. calls' \subseteq calls \cup {b}  BY <1>4, <2>2 DEF CommitLog
    <2> QED  BY <2>1, <2>4, <2>5 DEF CallsInLog
<1>5. ASSUME NEW c \in calls, CommitFails(c) PROVE CallsInLog'
    BY <1>5, <1>a DEF CommitFails, CallsInLog
<1>6. ASSUME NEW c \in calls, FutureDone(c) PROVE CallsInLog'
    <2>1. \A b \in calls : InLog(b)'  BY <1>6, <1>a DEF FutureDone
    <2>2. PICK b : b = [c EXCEPT !.at = "wait"]  OBVIOUS
    <2>3. b.at = "wait" /\ b.waits = c.waits /\ b.change = c.change /\ b.index = c.index
        BY <2>2 DEF HandlersTyped, HandlerCall
    <2>4. ASSUME c.waits PROVE InLog(b)'
        BY <1>6, <2>1, <2>3, <2>4 DEF InLog, FutureDone
    <2>5. calls' \subseteq calls \cup (IF c.waits THEN {b} ELSE {})  BY <1>6, <2>2 DEF FutureDone
    <2> QED  BY <2>1, <2>4, <2>5 DEF CallsInLog
<1>7. ASSUME NEW c \in calls, Respond(c) PROVE CallsInLog'
    BY <1>7, <1>a DEF Respond, CallsInLog
<1>8. ASSUME NEW reload \in BOOLEAN, ApplyEntry(reload) PROVE CallsInLog'
    <2>1. raft' = raft /\ log' = log /\ applied' = applied + 1 /\ calls' = calls
        BY <1>8 DEF ApplyEntry
    <2>2. \A b \in calls : InLog(b)'  BY <1>0, <2>1, AllInLogKept
    <2> QED  BY <2>1, <2>2 DEF CallsInLog
<1>9. ASSUME restartState PROVE CallsInLog'
    BY <1>9, <1>a DEF restartState, CallsInLog
<1>10. ASSUME NEW h, GoodHandler(h), Begin(h) PROVE CallsInLog'
    <2>1. \A b \in calls : InLog(b)'  BY <1>10, <1>a DEF Begin
    <2>2. PICK b : b = [n |-> asked + 1, change |-> h.change, waits |-> h.waits, at |-> "apply",
                        index |-> 0]
        OBVIOUS
    <2>3. b.at = "apply" /\ b.waits = h.waits /\ b.change = h.change  BY <2>2
    <2>4. InLog(b)'  BY <1>10, <2>3 DEF InLog, GoodHandler
    <2>5. calls' = calls \cup {b}  BY <1>10, <2>2 DEF Begin
    <2> QED  BY <2>1, <2>4, <2>5 DEF CallsInLog
<1>11. ASSUME LeadChanges PROVE CallsInLog'
    BY <1>11, <1>a DEF LeadChanges, CallsInLog
<1>12. ASSUME NEW e \in ChangeLogs, OtherCommits(e) PROVE CallsInLog'
    <2>1. log' = Append(log, e) /\ raft' = raft /\ applied' = applied /\ calls' = calls
        BY <1>12 DEF OtherCommits
    <2>2. \A b \in calls : InLog(b)'  BY <1>0, <2>1, Appended, AllInLogKept
    <2> QED  BY <2>1, <2>2 DEF CallsInLog
<1>13. CASE HandlersNext
    BY <1>2, <1>3, <1>4, <1>5, <1>6, <1>7, <1>8, <1>9, <1>10, <1>11, <1>12, <1>13, HandlerCases,
       Zenon
<1> QED  BY <1>1, <1>13

-----------------------------------------------------------------------------
(* The store and the log *)

LEMMA LastVersionKept ==
    ASSUME NEW d, NEW s, NEW t, NEW n \in Nat, \A i \in 1..n : t[i] = s[i]
    PROVE  /\ Places(d, t, n) = Places(d, s, n)
           /\ Places(d, s, n) # {} => LastVersion(d, t, n) = LastVersion(d, s, n)
<1>1. Places(d, t, n) = Places(d, s, n)  BY DEF Places
<1>2. ASSUME Places(d, s, n) # {} PROVE LastVersion(d, t, n) = LastVersion(d, s, n)
    <2>1. PICK i \in Places(d, s, n) : /\ \A j \in Places(d, s, n) : j <= i
                                       /\ LastVersion(d, s, n) = s[i].ver
        BY <1>2, SomeLast
    <2>2. LastVersion(d, t, n) = t[i].ver  BY <1>1, <2>1, LastOne
    <2>3. t[i] = s[i]  BY <2>1 DEF Places
    <2> QED  BY <2>1, <2>2, <2>3
<1> QED  BY <1>1, <1>2

LEMMA LastVersionNext ==
    ASSUME NEW d, NEW s, NEW n \in Nat
    PROVE  /\ s[n + 1].doc = d => /\ Places(d, s, n + 1) # {}
                                  /\ LastVersion(d, s, n + 1) = s[n + 1].ver
           /\ s[n + 1].doc # d =>
                 /\ Places(d, s, n + 1) = Places(d, s, n)
                 /\ Places(d, s, n) # {} => LastVersion(d, s, n + 1) = LastVersion(d, s, n)
<1>1. ASSUME s[n + 1].doc = d
      PROVE  Places(d, s, n + 1) # {} /\ LastVersion(d, s, n + 1) = s[n + 1].ver
    <2>1. n + 1 \in Places(d, s, n + 1)  BY <1>1 DEF Places
    <2>2. \A j \in Places(d, s, n + 1) : j <= n + 1  BY DEF Places
    <2> QED  BY <2>1, <2>2, LastOne
<1>2. ASSUME s[n + 1].doc # d
      PROVE  /\ Places(d, s, n + 1) = Places(d, s, n)
             /\ Places(d, s, n) # {} => LastVersion(d, s, n + 1) = LastVersion(d, s, n)
    <2>1. Places(d, s, n + 1) = Places(d, s, n)
        <3>1. \A i : i \in 1..(n + 1) <=> i \in 1..n \/ i = n + 1  OBVIOUS
        <3> QED  BY <1>2, <3>1 DEF Places
    <2>2. ASSUME Places(d, s, n) # {} PROVE LastVersion(d, s, n + 1) = LastVersion(d, s, n)
        <3>1. PICK i \in Places(d, s, n) : /\ \A j \in Places(d, s, n) : j <= i
                                           /\ LastVersion(d, s, n) = s[i].ver
            BY <2>2, SomeLast
        <3>2. LastVersion(d, s, n + 1) = s[i].ver  BY <2>1, <3>1, LastOne
        <3> QED  BY <3>1, <3>2
    <2> QED  BY <2>1, <2>2
<1> QED  BY <1>1, <1>2

LEMMA LogVersionKept ==
    ASSUME HandlersTyped, applied' = applied, \A i \in 1..Len(log) : log'[i] = log[i], NEW d
    PROVE  LogVersion(d)' = LogVersion(d)
<1>1. applied \in Nat /\ \A i \in 1..applied : log'[i] = log[i]  BY DEF HandlersTyped
<1>2. PICK t : t = log'  OBVIOUS
<1>3. /\ Places(d, t, applied) = Places(d, log, applied)
      /\ Places(d, log, applied) # {} => LastVersion(d, t, applied) = LastVersion(d, log, applied)
    BY <1>1, <1>2, LastVersionKept
<1>4. LogVersion(d)' = IF Places(d, t, applied) = {} THEN 0 ELSE LastVersion(d, t, applied)
    BY <1>2 DEF LogVersion, LastVersion, Places
<1> QED  BY <1>3, <1>4 DEF LogVersion

LEMMA LogVersionNext ==
    ASSUME HandlersTyped, applied' = applied + 1, log' = log, NEW d
    PROVE  LogVersion(d)' = IF log[applied + 1].doc = d THEN log[applied + 1].ver ELSE LogVersion(d)
<1>1. PICK n \in Nat : n = applied  BY DEF HandlersTyped
<1>2. LogVersion(d)' = IF Places(d, log, n + 1) = {} THEN 0 ELSE LastVersion(d, log, n + 1)
    BY <1>1 DEF LogVersion, LastVersion, Places
<1>3. LogVersion(d) = IF Places(d, log, n) = {} THEN 0 ELSE LastVersion(d, log, n)
    BY <1>1 DEF LogVersion
<1> QED  BY <1>1, <1>2, <1>3, LastVersionNext

\* A change that is applied from the log leaves the store as the log says, or as
\* docCache.
LEMMA StoreAppliedEntry ==
    ASSUME HandlersTyped, StoreFollowsLog, NEW reload \in BOOLEAN, ApplyEntry(reload)
    PROVE  StoreFollowsLog'
<1> SUFFICES ASSUME raft, NEW d \in Doc
             PROVE  st'.store[d] = LogVersion(d)' \/ <<d, st'.store[d]>> \in flushed'
    BY DEF StoreFollowsLog, ApplyEntry
<1>1. applied + 1 \in 1..Len(log)  BY DEF ApplyEntry, HandlersTyped
<1>2. PICK e \in ChangeLogs : e = log[applied + 1]  BY <1>1 DEF HandlersTyped
<1>3. /\ st' = processChangeLog(st, e, reload, TRUE)
      /\ flushed' = flushed \cup Flushing(st, e, reload, TRUE)
      /\ applied' = applied + 1 /\ log' = log
    BY <1>2 DEF ApplyEntry
<1>4. LogVersion(d)' = IF e.doc = d THEN e.ver ELSE LogVersion(d)  BY <1>2, <1>3, LogVersionNext
<1>5. st.store[d] = LogVersion(d) \/ <<d, st.store[d]>> \in flushed  BY DEF StoreFollowsLog
<1>6. st \in GatewayState /\ st.store \in [Doc -> Nat]  BY DEF HandlersTyped, GatewayState
<1>7. CASE Refused(st, e, TRUE)
    <2>1. OnlyRestart(st, e, st')  BY <1>3, <1>6, <1>7, ChangeRefused
    <2>2. e.doc = d => st.store[d] = 0 /\ e.ver = 0
        <3>1. ASSUME e.doc = d PROVE e.op = "put" \/ e.op = "delete"
            <4>1. d # 0  BY AdminHandlersAssumption
            <4> QED  BY <3>1, <4>1, LogFields
        <3>2. e.op # "put"
            <4>1. e # DelCol \/ e.op # "put"  BY LogKinds
            <4> QED  BY <1>7, <4>1 DEF Refused, DeleteFails
        <3>3. ASSUME e.op = "delete" PROVE st.store[e.doc] = 0 /\ e.ver = 0
            <4>1. e # DelCol  BY <3>3, LogKinds
            <4>2. e.ver = 0  BY <3>3, LogFields
            <4> QED  BY <1>7, <3>3, <4>1, <4>2 DEF Refused, DeleteFails
        <3> QED  BY <3>1, <3>2, <3>3
    <2> QED  BY <1>3, <1>4, <1>5, <2>1, <2>2 DEF OnlyRestart
<1>8. CASE ~Refused(st, e, TRUE)
    <2>1. \/ st'.store[d] = Written(st.store, e, TRUE)[d]
          \/ <<d, st'.store[d]>> \in Flushing(st, e, reload, TRUE)
        BY <1>3, <1>6, <1>8, ChangeMade
    <2>2. e.doc = d => Written(st.store, e, TRUE)[d] = e.ver
        <3>1. d # 0  BY AdminHandlersAssumption
        <3>2. e.doc = d => e.op \in {"put", "delete"}  BY <3>1, LogFields
        <3> QED  BY <1>6, <3>2 DEF Written
    <2>3. e.doc # d => Written(st.store, e, TRUE)[d] = st.store[d]
        BY <1>6, LogFields DEF Written
    <2> QED  BY <1>3, <1>4, <1>5, <2>1, <2>2, <2>3
<1> QED  BY <1>7, <1>8

LEMMA StoreAppliedLocally ==
    ASSUME HandlersTyped, StoreFollowsLog, NEW c \in calls, ApplyLocally(c)
    PROVE  StoreFollowsLog'
<1> SUFFICES ASSUME raft, NEW d \in Doc
             PROVE  st'.store[d] = LogVersion(d)' \/ <<d, st'.store[d]>> \in flushed'
    BY DEF StoreFollowsLog, ApplyLocally
<1>1. PICK e \in ChangeLogs : e = c.change  BY DEF HandlersTyped, HandlerCall
<1>2. LogVersion(d)' = LogVersion(d)  BY LogVersionKept DEF ApplyLocally
<1>3. st.store[d] = LogVersion(d) \/ <<d, st.store[d]>> \in flushed  BY DEF StoreFollowsLog
<1>4. st \in GatewayState  BY DEF HandlersTyped
<1>5. CASE ~lead  BY <1>2, <1>3, <1>5 DEF ApplyLocally
<1>6. CASE lead
    <2>1. /\ st' = processChangeLog(st, e, TRUE, FALSE)
          /\ flushed' = flushed \cup Flushing(st, e, TRUE, FALSE)
        BY <1>1, <1>6 DEF ApplyLocally
    <2>2. CASE Refused(st, e, FALSE)
        <3>1. OnlyRestart(st, e, st')  BY <1>4, <2>1, <2>2, ChangeRefused
        <3> QED  BY <1>2, <1>3, <2>1, <3>1 DEF OnlyRestart
    <2>3. CASE ~Refused(st, e, FALSE)
        <3>1. \/ st'.store[d] = Written(st.store, e, FALSE)[d]
              \/ <<d, st'.store[d]>> \in Flushing(st, e, TRUE, FALSE)
            BY <1>4, <2>1, <2>3, ChangeMade
        <3>2. Written(st.store, e, FALSE) = st.store  BY DEF Written
        <3> QED  BY <1>2, <1>3, <2>1, <3>1, <3>2
    <2> QED  BY <2>2, <2>3
<1> QED  BY <1>5, <1>6

\* Nothing is applied and the store stays.
LEMMA StoreKept ==
    ASSUME HandlersTyped, StoreFollowsLog, raft' = raft, applied' = applied,
           \A i \in 1..Len(log) : log'[i] = log[i], raft => st'.store = st.store,
           flushed' = flushed
    PROVE  StoreFollowsLog'
<1> SUFFICES ASSUME raft, NEW d \in Doc
             PROVE  st'.store[d] = LogVersion(d)' \/ <<d, st'.store[d]>> \in flushed'
    BY DEF StoreFollowsLog
<1>1. LogVersion(d)' = LogVersion(d)  BY LogVersionKept
<1> QED  BY <1>1 DEF StoreFollowsLog

LEMMA StoreFollowsStep ==
    HandlersTyped /\ StoreFollowsLog /\ [HandlersNext]_handlerVars => StoreFollowsLog'
<1> SUFFICES ASSUME HandlersTyped, StoreFollowsLog, [HandlersNext]_handlerVars
             PROVE  StoreFollowsLog'
    OBVIOUS
<1>0. \A i \in 1..Len(log) : log[i] = log[i]  OBVIOUS
<1>1. CASE UNCHANGED handlerVars  BY <1>0, <1>1, StoreKept DEF handlerVars
<1>2. ASSUME NEW c \in calls, ApplyAlone(c) PROVE StoreFollowsLog'
    BY <1>0, <1>2, StoreKept DEF ApplyAlone
<1>4. ASSUME NEW c \in calls, CommitLog(c) PROVE StoreFollowsLog'
    <2>1. c.change \in ChangeLogs /\ log' = Append(log, c.change)
        BY <1>4 DEF HandlersTyped, HandlerCall, CommitLog
    <2> QED  BY <1>4, <2>1, Appended, StoreKept DEF CommitLog
<1>5. ASSUME NEW c \in calls, CommitFails(c) PROVE StoreFollowsLog'
    BY <1>0, <1>5, StoreKept DEF CommitFails
<1>6. ASSUME NEW c \in calls, FutureDone(c) PROVE StoreFollowsLog'
    BY <1>0, <1>6, StoreKept DEF FutureDone
<1>7. ASSUME NEW c \in calls, Respond(c) PROVE StoreFollowsLog'
    BY <1>0, <1>7, StoreKept DEF Respond
<1>9. ASSUME restartState PROVE StoreFollowsLog'
    <2>1. st'.store = st.store  BY <1>9 DEF restartState, HandlersTyped, GatewayState
    <2> QED  BY <1>0, <1>9, <2>1, StoreKept DEF restartState
<1>10. ASSUME NEW h, GoodHandler(h), Begin(h) PROVE StoreFollowsLog'
    BY <1>0, <1>10, StoreKept DEF Begin
<1>11. ASSUME LeadChanges PROVE StoreFollowsLog'
    BY <1>0, <1>11, StoreKept DEF LeadChanges
<1>12. ASSUME NEW e \in ChangeLogs, OtherCommits(e) PROVE StoreFollowsLog'
    <2>1. log' = Append(log, e)  BY <1>12 DEF OtherCommits
    <2> QED  BY <1>12, <2>1, Appended, StoreKept DEF OtherCommits
<1>13. CASE HandlersNext
    BY <1>2, StoreAppliedLocally, <1>4, <1>5, <1>6, <1>7, StoreAppliedEntry, <1>9, <1>10, <1>11,
       <1>12, <1>13, HandlerCases, Zenon
<1> QED  BY <1>1, <1>13

-----------------------------------------------------------------------------
(* Requests one at a time *)

LEMMA OnlyCall ==
    ASSUME OneAtATime, ~beside, NEW c \in calls
    PROVE  calls = {c}
BY DEF OneAtATime

LEMMA OneAtATimeStep ==
    HandlersTyped /\ OneAtATime /\ [HandlersNext]_handlerVars => OneAtATime'
<1> SUFFICES ASSUME HandlersTyped, OneAtATime, [HandlersNext]_handlerVars, ~beside',
                    NEW a \in calls', NEW b \in calls'
             PROVE  a = b
    BY DEF OneAtATime
<1>a. ASSUME calls' \subseteq calls, beside' = beside PROVE a = b
    BY <1>a DEF OneAtATime
<1>b. ASSUME NEW c \in calls, NEW x, calls' \subseteq (calls \ {c}) \cup {x}, beside' = beside
      PROVE  a = b
    <2>1. calls = {c}  BY <1>b, OnlyCall
    <2> QED  BY <1>b, <2>1
<1>1. CASE UNCHANGED handlerVars  BY <1>1, <1>a DEF handlerVars
<1>2. ASSUME NEW c \in calls, ApplyAlone(c) PROVE a = b  BY <1>2, <1>a DEF ApplyAlone
<1>3. ASSUME NEW c \in calls, ApplyLocally(c) PROVE a = b
    <2>1. calls' \subseteq (calls \ {c}) \cup {[c EXCEPT !.at = "raft"]} /\ beside' = beside
        BY <1>3 DEF ApplyLocally
    <2> QED  BY <2>1, <1>b
<1>4. ASSUME NEW c \in calls, CommitLog(c) PROVE a = b
    <2>1. /\ calls' \subseteq (calls \ {c}) \cup {[c EXCEPT !.at = "future", !.index = Len(log) + 1]}
          /\ beside' = beside
        BY <1>4 DEF CommitLog
    <2> QED  BY <2>1, <1>b
<1>5. ASSUME NEW c \in calls, CommitFails(c) PROVE a = b  BY <1>5, <1>a DEF CommitFails
<1>6. ASSUME NEW c \in calls, FutureDone(c) PROVE a = b
    <2>1. calls' \subseteq (calls \ {c}) \cup {[c EXCEPT !.at = "wait"]} /\ beside' = beside
        BY <1>6 DEF FutureDone
    <2> QED  BY <2>1, <1>b
<1>7. ASSUME NEW c \in calls, Respond(c) PROVE a = b  BY <1>7, <1>a DEF Respond
<1>8. ASSUME NEW reload \in BOOLEAN, ApplyEntry(reload) PROVE a = b  BY <1>8, <1>a DEF ApplyEntry
<1>9. ASSUME restartState PROVE a = b  BY <1>9, <1>a DEF restartState
<1>10. ASSUME NEW h, GoodHandler(h), Begin(h) PROVE a = b
    <2>1. calls = {}  BY <1>10 DEF Begin
    <2> QED  BY <1>10, <2>1 DEF Begin
<1>11. ASSUME LeadChanges PROVE a = b  BY <1>11 DEF LeadChanges
<1>12. ASSUME NEW e \in ChangeLogs, OtherCommits(e) PROVE a = b  BY <1>12, <1>a DEF OtherCommits
<1>13. CASE HandlersNext
    BY <1>2, <1>3, <1>4, <1>5, <1>6, <1>7, <1>8, <1>9, <1>10, <1>11, <1>12, <1>13, HandlerCases,
       Zenon
<1> QED  BY <1>1, <1>13

-----------------------------------------------------------------------------
(* A gateway alone *)

LEMMA AloneUnchanged ==
    ASSUME Alone, raft' = raft, log' = log, beside' = beside, memory' = memory,
           calls' \subseteq calls, st' = st
    PROVE  Alone'
<1>1. \A c : StillChecked(c.change, st') <=> StillChecked(c.change, st)  BY DEF StillChecked
<1>2. OneByOneKeepsRunning => OneByOneKeepsRunning'  BY DEF OneByOneKeepsRunning
<1> QED  BY <1>1, <1>2 DEF Alone

\* The change is refused for one of the named reasons.
LEMMA AloneRefused ==
    ASSUME HandlersTyped, Alone, ~raft, ~beside, NEW c \in calls, NEW e, e = c.change,
           Refused(st, e, TRUE)
    PROVE  \/ e.op \in {"add_unfit", "remove_linked"}
           \/ e.op = "remove" /\ e.kind \notin {"domain", "collection"}
           \/ memory /\ e = DelNoId
<1>1. e \in ChangeLogs /\ StillChecked(e, st)  BY DEF HandlersTyped, HandlerCall, Alone
<1>2. \/ e.op \in {"add_unfit", "remove_linked"}
      \/ e = DelCol /\ st.col = "none"
      \/ e.op = "remove" /\ e.kind \in Kind \ st.has
      \/ memory /\ e.op = "delete" /\ st.store[e.doc] = 0
      \/ memory /\ e.op = "delete_no_id"
    BY DEF Refused, DeleteFails
<1>3. CASE e = DelCol /\ st.col = "none"  BY <1>1, <1>3 DEF StillChecked
<1>4. CASE e.op = "remove" /\ e.kind \in Kind \ st.has
    <2>1. e.kind # "collection"  BY <1>4, AdminHandlersAssumption
    <2>2. e.kind # "domain"
        <3>1. e.kind = "domain" => e = Delete("domain")  BY <1>1, <1>4, LogKinds
        <3> QED  BY <1>1, <1>4, <3>1 DEF StillChecked
    <2> QED  BY <1>4, <2>1, <2>2
<1>5. CASE memory /\ e.op = "delete" /\ st.store[e.doc] = 0  BY <1>1, <1>5 DEF StillChecked
<1>6. CASE memory /\ e.op = "delete_no_id"  BY <1>1, <1>6, LogFields
<1> QED  BY <1>2, <1>3, <1>4, <1>5, <1>6

LEMMA AloneApplies ==
    ASSUME HandlersTyped, Alone, OneAtATime, NEW c \in calls, ApplyAlone(c)
    PROVE  Alone'
<1>1. ~raft /\ ~raft' /\ log' = log /\ beside' = beside /\ memory' = memory  BY DEF ApplyAlone
<1>2. PICK e \in ChangeLogs : e = c.change  BY DEF HandlersTyped, HandlerCall
<1>3. st' = processChangeLog(st, e, TRUE, TRUE) /\ st \in GatewayState
    BY <1>2 DEF ApplyAlone, HandlersTyped
<1>4. calls' = calls \ {c}  BY <1>2 DEF ApplyAlone
<1>5. st.cache = <<>> /\ log = <<>>  BY <1>1 DEF Alone
<1>6. ~beside' => calls' = {}  BY <1>1, <1>4, OnlyCall
<1>7. CASE Refused(st, e, TRUE)
    <2>1. OnlyRestart(st, e, st')  BY <1>3, <1>7, ChangeRefused
    <2>4. OneByOneKeepsRunning'
        <3>1. st'.restart = e  BY <2>1 DEF OnlyRestart
        <3> QED  BY <1>1, <1>2, <1>7, <3>1, AloneRefused DEF OneByOneKeepsRunning
    <2> QED  BY <1>1, <1>4, <1>5, <1>6, <2>1, <2>4 DEF Alone, OnlyRestart
<1>8. CASE ~Refused(st, e, TRUE)
    <2>1. st'.restart \in {st.restart, FailedReload} /\ st'.cache = <<>>
        BY <1>3, <1>5, <1>8, ChangeMade, ZenonT(60)
    <2>2. OneByOneKeepsRunning'
        BY <1>1, <2>1, LogKinds DEF OneByOneKeepsRunning, Alone
    <2> QED  BY <1>1, <1>4, <1>5, <1>6, <2>1, <2>2 DEF Alone
<1> QED  BY <1>7, <1>8

\* A restart leaves documents and resources alone.
LEMMA RestartKeeps ==
    ASSUME HandlersTyped, restartState
    PROVE  /\ st'.store = st.store /\ st'.cache = st.cache /\ st'.col = st.col /\ st'.has = st.has
           /\ st'.restart = st.restart \/ st'.restart = NoChange
BY DEF restartState, HandlersTyped, GatewayState

LEMMA StillCheckedKept ==
    ASSUME NEW e, NEW s, NEW r, r.store = s.store, r.col = s.col, r.has = s.has,
           StillChecked(e, s)
    PROVE  StillChecked(e, r)
BY DEF StillChecked

LEMMA AloneRestarts ==
    ASSUME HandlersTyped, Alone, restartState
    PROVE  Alone'
<1> SUFFICES ASSUME ~raft PROVE Alone'  BY DEF Alone, restartState
<1>1. /\ st'.store = st.store /\ st'.cache = st.cache /\ st'.col = st.col /\ st'.has = st.has
      /\ st'.restart = st.restart \/ st'.restart = NoChange
    BY RestartKeeps
<1>2. /\ raft' = raft /\ log' = log /\ calls' = calls /\ beside' = beside
      /\ memory' = memory
    BY DEF restartState
<1>3. \A c \in calls : StillChecked(c.change, st) => StillChecked(c.change, st')
    BY <1>1, StillCheckedKept
<1>4. OneByOneKeepsRunning'  BY <1>1, <1>2 DEF Alone, OneByOneKeepsRunning
<1> QED  BY <1>1, <1>2, <1>3, <1>4 DEF Alone

LEMMA AloneBegins ==
    ASSUME HandlersTyped, Alone, NEW h, GoodHandler(h), Begin(h)
    PROVE  Alone'
<1> SUFFICES ASSUME ~raft PROVE Alone'  BY DEF Alone, Begin
<1>1. PICK b : b = [n |-> asked + 1, change |-> h.change, waits |-> h.waits, at |-> "apply",
                    index |-> 0]
    OBVIOUS
<1>2. /\ raft' = raft /\ log' = log /\ st' = st /\ memory' = memory
      /\ calls' = calls \cup {b} /\ beside' = (beside \/ calls # {})
    BY <1>1 DEF Begin
<1>3. StillChecked(b.change, st)  BY <1>1 DEF GoodHandler, Begin
<1>4. ~beside' => \A c \in calls' : StillChecked(c.change, st')
    BY <1>2, <1>3, StillCheckedKept
<1>5. OneByOneKeepsRunning'  BY <1>2 DEF Alone, OneByOneKeepsRunning
<1> QED  BY <1>2, <1>4, <1>5 DEF Alone

LEMMA AloneStep ==
    HandlersTyped /\ CallsInLog /\ OneAtATime /\ Alone /\ [HandlersNext]_handlerVars => Alone'
<1> SUFFICES ASSUME HandlersTyped, CallsInLog, OneAtATime, Alone, [HandlersNext]_handlerVars
             PROVE  Alone'
    OBVIOUS
<1>a. ASSUME raft, raft' = raft PROVE Alone'  BY <1>a DEF Alone
<1>1. CASE UNCHANGED handlerVars  BY <1>1, AloneUnchanged DEF handlerVars
<1>2. ASSUME NEW c \in calls, ApplyAlone(c) PROVE Alone'  BY <1>2, AloneApplies
<1>3. ASSUME NEW c \in calls, ApplyLocally(c) PROVE Alone'  BY <1>3, <1>a DEF ApplyLocally
<1>4. ASSUME NEW c \in calls, CommitLog(c) PROVE Alone'
    BY <1>4, <1>a DEF CommitLog, CallsInLog, InLog
<1>5. ASSUME NEW c \in calls, CommitFails(c) PROVE Alone'
    BY <1>5, <1>a DEF CommitFails, CallsInLog, InLog
<1>6. ASSUME NEW c \in calls, FutureDone(c) PROVE Alone'
    BY <1>6, <1>a DEF FutureDone, CallsInLog, InLog
<1>7. ASSUME NEW c \in calls, Respond(c) PROVE Alone'
    BY <1>7, <1>a DEF Respond, WaitForChanges, CallsInLog, InLog
<1>8. ASSUME NEW reload \in BOOLEAN, ApplyEntry(reload) PROVE Alone'
    <2>1. log # <<>>  BY <1>8 DEF ApplyEntry, HandlersTyped
    <2>2. raft /\ raft' = raft  BY <1>8, <2>1 DEF Alone, ApplyEntry
    <2> QED  BY <2>2, <1>a
<1>9. ASSUME restartState PROVE Alone'  BY <1>9, AloneRestarts
<1>10. ASSUME NEW h, GoodHandler(h), Begin(h) PROVE Alone'  BY <1>10, AloneBegins
<1>11. ASSUME LeadChanges PROVE Alone'  BY <1>11, <1>a DEF LeadChanges
<1>12. ASSUME NEW e \in ChangeLogs, OtherCommits(e) PROVE Alone'  BY <1>12, <1>a DEF OtherCommits
<1>13. CASE HandlersNext
    BY <1>2, <1>3, <1>4, <1>5, <1>6, <1>7, <1>8, <1>9, <1>10, <1>11, <1>12, <1>13, HandlerCases,
       Zenon
<1> QED  BY <1>1, <1>13

-----------------------------------------------------------------------------
(* Requests one at a time under one leader *)

LEMMA LedLocally ==
    ASSUME HandlersTyped, LedOneByOne, OneAtATime, NEW c \in calls, ApplyLocally(c)
    PROVE  LedOneByOne'
<1> SUFFICES ASSUME raft, ~beside PROVE LedOneByOne'  BY DEF LedOneByOne, ApplyLocally
<1>1. lead /\ calls = {c} /\ applied = Len(log)
    BY OnlyCall DEF LedOneByOne, ApplyLocally
<1>2. /\ raft' = raft /\ beside' = beside /\ lead' = lead /\ applied' = applied /\ log' = log
      /\ memory' = memory
    BY DEF ApplyLocally
<1>3. PICK e \in ChangeLogs : e = c.change  BY DEF HandlersTyped, HandlerCall
<1>4. st' = processChangeLog(st, e, TRUE, FALSE) /\ st \in GatewayState
    BY <1>1, <1>3 DEF ApplyLocally, HandlersTyped
<1>5. CASE Refused(st, e, FALSE)
    <2>1. OnlyRestart(st, e, st')  BY <1>4, <1>5, ChangeRefused
    <2>2. e.op \in {"remove", "add_unfit", "remove_linked"}  BY <1>5, LogKinds DEF Refused
    <2>3. OneByOneKeepsRunning'  BY <1>2, <2>1, <2>2 DEF OneByOneKeepsRunning, OnlyRestart
    <2>4. calls' = {}  BY <1>1, <1>3, <1>5 DEF ApplyLocally
    <2> QED  BY <1>1, <1>2, <2>3, <2>4 DEF LedOneByOne
<1>6. CASE ~Refused(st, e, FALSE)
    <2>1. /\ st'.restart \in {st.restart, FailedReload}
          /\ \A d \in Doc : st'.store[d] = Written(st.store, e, FALSE)[d] \/ st'.store[d] # 0
        BY <1>4, <1>6, ChangeMade, ZenonT(60)
    <2>2. Written(st.store, e, FALSE) = st.store  BY DEF Written
    <2>3. OneByOneKeepsRunning'  BY <1>2, <2>1, LogKinds DEF OneByOneKeepsRunning, LedOneByOne
    <2>4. PICK b : b = [c EXCEPT !.at = "raft"]  OBVIOUS
    <2>5. b.at = "raft" /\ b.change = e
        BY <1>3, <2>4 DEF HandlersTyped, HandlerCall
    <2>6. calls' \subseteq {b}  BY <1>1, <1>3, <1>6, <2>4 DEF ApplyLocally
    <2>7. e.op = "delete" => st'.store[e.doc] # 0
        <3>1. c.at = "apply"  BY DEF ApplyLocally
        <3>2. e.op = "delete" => e.doc \in Doc /\ st.store[e.doc] # 0
            BY <1>3, <3>1, LogFields DEF LedOneByOne
        <3> QED  BY <2>1, <2>2, <3>2
    <2> QED  BY <1>1, <1>2, <2>3, <2>5, <2>6, <2>7 DEF LedOneByOne
<1> QED  BY <1>5, <1>6

LEMMA LedCommits ==
    ASSUME HandlersTyped, LedOneByOne, OneAtATime, NEW c \in calls, CommitLog(c)
    PROVE  LedOneByOne'
<1> SUFFICES ASSUME raft, ~beside PROVE LedOneByOne'  BY DEF LedOneByOne, CommitLog
<1>1. lead /\ calls = {c} /\ applied = Len(log) /\ c.at = "raft"
    BY OnlyCall DEF LedOneByOne, CommitLog
<1>2. /\ raft' = raft /\ beside' = beside /\ lead' = lead /\ applied' = applied /\ st' = st
      /\ memory' = memory
    BY DEF CommitLog
<1>3. Len(log') = Len(log) + 1 /\ Len(log) \in Nat
    BY Appended DEF CommitLog, HandlersTyped, HandlerCall
<1>4. PICK b : b = [c EXCEPT !.at = "future", !.index = Len(log) + 1]  OBVIOUS
<1>5. b.at = "future" /\ b.change = c.change /\ b.index = Len(log) + 1
    BY <1>4 DEF HandlersTyped, HandlerCall
<1>6. calls' = {b}  BY <1>1, <1>4 DEF CommitLog
<1>7. OneByOneKeepsRunning'  BY <1>2 DEF OneByOneKeepsRunning, LedOneByOne
<1>8. c.change.op = "delete" => st'.store[c.change.doc] # 0  BY <1>1, <1>2 DEF LedOneByOne
<1>9. b.index = Len(log') /\ applied' >= Len(log') - 1  BY <1>1, <1>2, <1>3, <1>5
<1> QED  BY <1>1, <1>2, <1>5, <1>6, <1>7, <1>8, <1>9 DEF LedOneByOne

LEMMA LedFutureDone ==
    ASSUME HandlersTyped, LedOneByOne, OneAtATime, NEW c \in calls, FutureDone(c)
    PROVE  LedOneByOne'
<1> SUFFICES ASSUME raft, ~beside PROVE LedOneByOne'  BY DEF LedOneByOne, FutureDone
<1>1. lead /\ calls = {c} /\ c.index = Len(log) /\ applied >= c.index
    BY OnlyCall DEF LedOneByOne, FutureDone
<1>2. applied = Len(log) /\ ~(applied < c.index)  BY <1>1 DEF HandlersTyped
<1>3. /\ raft' = raft /\ beside' = beside /\ lead' = lead /\ applied' = applied /\ log' = log
      /\ st' = st /\ memory' = memory
    BY DEF FutureDone
<1>4. PICK b : b = [c EXCEPT !.at = "wait"]  OBVIOUS
<1>5. b.at = "wait" /\ b.change = c.change /\ b.index = c.index
    BY <1>4 DEF HandlersTyped, HandlerCall
<1>6. calls' \subseteq {b}  BY <1>1, <1>4 DEF FutureDone
<1>7. OneByOneKeepsRunning'  BY <1>3 DEF OneByOneKeepsRunning, LedOneByOne
<1> QED  BY <1>1, <1>2, <1>3, <1>5, <1>6, <1>7 DEF LedOneByOne

LEMMA LedResponds ==
    ASSUME HandlersTyped, LedOneByOne, OneAtATime, NEW c \in calls, Respond(c)
    PROVE  LedOneByOne'
<1> SUFFICES ASSUME raft, ~beside PROVE LedOneByOne'  BY DEF LedOneByOne, Respond
<1>1. lead /\ calls = {c} /\ applied = Len(log)
    BY OnlyCall DEF LedOneByOne, Respond, WaitForChanges
<1>2. /\ raft' = raft /\ beside' = beside /\ lead' = lead /\ applied' = applied /\ log' = log
      /\ st' = st /\ memory' = memory /\ calls' = {}
    BY <1>1 DEF Respond
<1>3. OneByOneKeepsRunning'  BY <1>2 DEF OneByOneKeepsRunning, LedOneByOne
<1> QED  BY <1>1, <1>2, <1>3 DEF LedOneByOne

LEMMA LedApplies ==
    ASSUME HandlersTyped, CallsInLog, LedOneByOne, OneAtATime, NEW reload \in BOOLEAN,
           ApplyEntry(reload)
    PROVE  LedOneByOne'
<1> SUFFICES ASSUME raft, ~beside PROVE LedOneByOne'  BY DEF LedOneByOne, ApplyEntry
<1>1. applied \in Nat /\ Len(log) \in Nat /\ applied < Len(log)  BY DEF ApplyEntry, HandlersTyped
<1>2. PICK c \in calls : c.at = "future"  BY <1>1 DEF LedOneByOne
<1>3. lead /\ calls = {c} /\ c.index = Len(log) /\ applied >= Len(log) - 1
    BY <1>2, OnlyCall DEF LedOneByOne
<1>4. applied + 1 = c.index /\ log[c.index] = c.change
    BY <1>1, <1>2, <1>3 DEF CallsInLog, InLog
<1>5. PICK e \in ChangeLogs : e = c.change  BY DEF HandlersTyped, HandlerCall
<1>6. st' = processChangeLog(st, e, reload, TRUE) /\ st \in GatewayState
    BY <1>4, <1>5 DEF ApplyEntry, HandlersTyped
<1>7. /\ raft' = raft /\ beside' = beside /\ lead' = lead /\ applied' = applied + 1 /\ log' = log
      /\ memory' = memory /\ calls' = calls
    BY DEF ApplyEntry
<1>8. OneByOneKeepsRunning'
    <2>1. CASE Refused(st, e, TRUE)
        <3>1. OnlyRestart(st, e, st')  BY <1>6, <2>1, ChangeRefused
        <3>2. e.op = "delete" => st.store[e.doc] # 0
            BY <1>1, <1>3, <1>4, <1>5 DEF LedOneByOne
        <3>3. \/ e.op \in {"remove", "add_unfit", "remove_linked"}
              \/ memory /\ e.op = "delete_no_id"
            BY <2>1, <3>2, LogKinds DEF Refused, DeleteFails
        <3>4. e.op = "delete_no_id" => e = DelNoId  BY LogFields
        <3> QED  BY <1>7, <3>1, <3>3, <3>4 DEF OneByOneKeepsRunning, OnlyRestart
    <2>2. CASE ~Refused(st, e, TRUE)
        <3>1. st'.restart \in {st.restart, FailedReload}  BY <1>6, <2>2, MadeKeepsRestart
        <3> QED  BY <1>7, <3>1, LogKinds DEF OneByOneKeepsRunning, LedOneByOne
    <2> QED  BY <2>1, <2>2
<1>9. applied' = Len(log') /\ ~(applied' < c.index) /\ applied' >= Len(log') - 1
    BY <1>1, <1>3, <1>4, <1>7
<1> QED  BY <1>2, <1>3, <1>7, <1>8, <1>9 DEF LedOneByOne

LEMMA LedRestarts ==
    ASSUME HandlersTyped, LedOneByOne, restartState
    PROVE  LedOneByOne'
<1> SUFFICES ASSUME raft, ~beside PROVE LedOneByOne'  BY DEF LedOneByOne, restartState
<1>1. st'.store = st.store /\ (st'.restart = st.restart \/ st'.restart = NoChange)
    BY RestartKeeps
<1>2. /\ raft' = raft /\ beside' = beside /\ lead' = lead /\ applied' = applied /\ log' = log
      /\ memory' = memory /\ calls' = calls
    BY DEF restartState
<1>3. OneByOneKeepsRunning'  BY <1>1, <1>2 DEF OneByOneKeepsRunning, LedOneByOne
<1> QED  BY <1>1, <1>2, <1>3 DEF LedOneByOne

LEMMA LedBegins ==
    ASSUME HandlersTyped, LedOneByOne, NEW h, GoodHandler(h), Begin(h)
    PROVE  LedOneByOne'
<1> SUFFICES ASSUME raft, ~beside, calls = {} PROVE LedOneByOne'  BY DEF LedOneByOne, Begin
<1>1. PICK b : b = [n |-> asked + 1, change |-> h.change, waits |-> h.waits, at |-> "apply",
                    index |-> 0]
    OBVIOUS
<1>2. /\ raft' = raft /\ lead' = lead /\ log' = log /\ st' = st /\ applied' = applied
      /\ memory' = memory /\ calls' = {b} /\ beside' = beside
    BY <1>1 DEF Begin, HandlersTyped
<1>3. StillChecked(b.change, st) /\ b.at = "apply"  BY <1>1 DEF GoodHandler, Begin
<1>4. b.change.op = "delete" => st.store[b.change.doc] # 0  BY <1>3 DEF StillChecked
<1>5. OneByOneKeepsRunning'  BY <1>2 DEF LedOneByOne, OneByOneKeepsRunning
<1> QED  BY <1>2, <1>3, <1>4, <1>5 DEF LedOneByOne

LEMMA LedStep ==
    HandlersTyped /\ CallsInLog /\ OneAtATime /\ LedOneByOne /\ [HandlersNext]_handlerVars
        => LedOneByOne'
<1> SUFFICES ASSUME HandlersTyped, CallsInLog, OneAtATime, LedOneByOne,
                    [HandlersNext]_handlerVars
             PROVE  LedOneByOne'
    OBVIOUS
<1>a. ASSUME ~raft, raft' = raft PROVE LedOneByOne'  BY <1>a DEF LedOneByOne
<1>b. ASSUME ~lead, raft' = raft, beside' = beside PROVE LedOneByOne'  BY <1>b DEF LedOneByOne
<1>1. CASE UNCHANGED handlerVars
    <2>1. OneByOneKeepsRunning => OneByOneKeepsRunning'
        BY <1>1 DEF OneByOneKeepsRunning, handlerVars
    <2> QED  BY <1>1, <2>1 DEF LedOneByOne, handlerVars
<1>2. ASSUME NEW c \in calls, ApplyAlone(c) PROVE LedOneByOne'  BY <1>2, <1>a DEF ApplyAlone
<1>5. ASSUME NEW c \in calls, CommitFails(c) PROVE LedOneByOne'  BY <1>5, <1>b DEF CommitFails
<1>11. ASSUME LeadChanges PROVE LedOneByOne'  BY <1>11 DEF LeadChanges, LedOneByOne
<1>12. ASSUME NEW e \in ChangeLogs, OtherCommits(e) PROVE LedOneByOne'
    BY <1>12, <1>b DEF OtherCommits
<1>13. CASE HandlersNext
    BY <1>2, LedLocally, LedCommits, <1>5, LedFutureDone, LedResponds, LedApplies, LedRestarts,
       LedBegins, <1>11, <1>12, <1>13, HandlerCases, Zenon
<1> QED  BY <1>1, <1>13

-----------------------------------------------------------------------------
(* Theorems *)

LEMMA HandlersInitInv == HandlersInit => HandlersInv
<1> SUFFICES ASSUME HandlersInit PROVE HandlersInv  OBVIOUS
<1>1. HandlersTyped  BY TypedInit
<1>2. /\ calls = {} /\ lead = raft /\ beside = FALSE /\ applied = Len(log)
      /\ raft \in BOOLEAN
    BY DEF HandlersInit
<1>3. PICK docs \in SUBSET Doc, cached \in BOOLEAN, fresh \in BOOLEAN :
         LET entries == IF raft /\ docs # {} THEN <<Put(Max(Doc), 1)>> ELSE <<>>
         IN /\ fresh => docs = {}
            /\ raft => docs \subseteq {Max(Doc)}
            /\ st = [col |-> IF fresh THEN "none" ELSE "document",
                     has |-> IF fresh THEN {} ELSE Kind,
                     store |-> [d \in Doc |-> IF d \in docs THEN 1 ELSE 0],
                     cache |-> IF cached THEN entries ELSE <<>>, pending |-> FALSE,
                     broken |-> FALSE, restart |-> NoChange, logged |-> ~fresh, halted |-> FALSE]
            /\ log = entries /\ applied = Len(log)
    BY DEF HandlersInit
<1>4. /\ st.restart = NoChange /\ st.store = [d \in Doc |-> IF d \in docs THEN 1 ELSE 0]
      /\ st.col = IF fresh THEN "none" ELSE "document"
      /\ fresh => docs = {}
    BY <1>3
<1>5. log = IF raft /\ docs # {} THEN <<Put(Max(Doc), 1)>> ELSE <<>>  BY <1>3
<1>6. ~raft => st.cache = <<>> /\ log = <<>>  BY <1>3
<1>7. OneByOneKeepsRunning  BY <1>4 DEF OneByOneKeepsRunning
<1>9. StoreFollowsLog
    <2> SUFFICES ASSUME raft, NEW d \in Doc PROVE st.store[d] = LogVersion(d)
        BY DEF StoreFollowsLog
    <2>1. CASE docs = {}
        <3>1. applied = 0  BY <1>2, <1>5, <2>1
        <3>2. Places(d, log, applied) = {}  BY <3>1 DEF Places
        <3> QED  BY <1>4, <2>1, <3>2 DEF LogVersion
    <2>2. CASE docs # {}
        <3>1. docs = {Max(Doc)}  BY <1>3, <2>2
        <3>2. log[1] = Put(Max(Doc), 1) /\ Len(log) = 1  BY <1>5, <2>2
        <3>3. log[1].doc = Max(Doc) /\ log[1].ver = 1  BY <3>2 DEF Put, Change
        <3>4. Places(d, log, 0) = {}  BY DEF Places
        <3>5. 0 \in Nat /\ 0 + 1 = 1  OBVIOUS
        <3>6. /\ log[1].doc = d => Places(d, log, 1) # {} /\ LastVersion(d, log, 1) = log[1].ver
              /\ log[1].doc # d => Places(d, log, 1) = Places(d, log, 0)
            BY <3>5, LastVersionNext, ZenonT(60)
        <3>7. LogVersion(d) = IF d = Max(Doc) THEN 1 ELSE 0
            BY <1>2, <3>2, <3>3, <3>4, <3>6 DEF LogVersion
        <3> QED  BY <1>4, <3>1, <3>7
    <2> QED  BY <2>1, <2>2
<1>10. CallsInLog /\ OneAtATime  BY <1>2 DEF CallsInLog, OneAtATime
<1>11. Alone  BY <1>2, <1>4, <1>6, <1>7 DEF Alone
<1>12. LedOneByOne  BY <1>2, <1>7 DEF LedOneByOne
<1> QED  BY <1>1, <1>9, <1>10, <1>11, <1>12 DEF HandlersInv

LEMMA HandlersStepInv == HandlersInv /\ [HandlersNext]_handlerVars => HandlersInv'
<1> SUFFICES ASSUME HandlersInv, [HandlersNext]_handlerVars PROVE HandlersInv'  OBVIOUS
<1>1. HandlersTyped /\ CallsInLog /\ StoreFollowsLog /\ OneAtATime /\ Alone /\ LedOneByOne
    BY DEF HandlersInv
<1>2. HandlersTyped'  BY <1>1, TypedStep
<1>3. CallsInLog'  BY <1>1, <1>2, CallsInLogStep
<1>4. StoreFollowsLog'  BY <1>1, StoreFollowsStep
<1>5. OneAtATime'  BY <1>1, OneAtATimeStep
<1>6. Alone'  BY <1>1, AloneStep
<1>7. LedOneByOne'  BY <1>1, LedStep
<1> QED  BY <1>2, <1>3, <1>4, <1>5, <1>6, <1>7 DEF HandlersInv

\* Types, the calls' places in the log, the store against the log, and what holds
\* while requests come one at a time, without raft and under one leader.
THEOREM HandlersInvariant == HandlersSpec => []HandlersInv
BY HandlersInitInv, HandlersStepInv, PTL DEF HandlersSpec

\* In a cluster of any size and for any documents, a gateway's store holds for
\* every document the version that the applied log leaves, or one that a reload
\* wrote from docCache (ApplyChangeLog applies a change locally before it is committed,
\* the FSM applies it again, and the reload flushes docCache).
THEOREM StoreAlwaysFollowsLog == HandlersSpec => []StoreFollowsLog
<1>1. HandlersInv => StoreFollowsLog  BY DEF HandlersInv
<1> QED  BY <1>1, HandlersInvariant, PTL

\* Requests one at a time, for any documents and resources, make processChangeLog
\* fail, and so the gateway restart and hang, in the listed cases only: refused
\* additions and removals, modules that do not compile and so fail the reload,
\* and the deletions that fail in the store or on a leader.
THEOREM OneByOneAlwaysKeepsRunning == HandlersSpec => []OneByOneKeepsRunning
<1>1. HandlersInv => OneByOneKeepsRunning
    <2>1. (Alone /\ ~raft) => OneByOneKeepsRunning  BY DEF Alone
    <2>2. (LedOneByOne /\ raft /\ ~beside) => OneByOneKeepsRunning  BY DEF LedOneByOne
    <2>3. beside => OneByOneKeepsRunning  BY DEF OneByOneKeepsRunning
    <2> QED  BY <2>1, <2>2, <2>3 DEF HandlersInv
<1> QED  BY <1>1, HandlersInvariant, PTL

LEMMA RespondsStored ==
    ASSUME HandlersInv, NEW c \in calls, Respond(c), c.change.kind = "document"
    PROVE  \/ st.store[c.change.doc] = c.change.ver
           \/ \E i \in (c.index + 1)..Len(log) : log[i].doc = c.change.doc
           \/ <<c.change.doc, st.store[c.change.doc]>> \in flushed
<1> SUFFICES ASSUME ~\E i \in (c.index + 1)..Len(log) : log[i].doc = c.change.doc,
                    <<c.change.doc, st.store[c.change.doc]>> \notin flushed
             PROVE  st.store[c.change.doc] = c.change.ver
    OBVIOUS
<1>1. c.at = "wait" /\ InLog(c)  BY DEF Respond, WaitForChanges, HandlersInv, CallsInLog
<1>2. raft /\ c.index \in 1..Len(log) /\ log[c.index] = c.change /\ applied >= c.index /\ c.waits
    BY <1>1 DEF InLog
<1>3. c.change \in PutLogs  BY <1>1, <1>2 DEF InLog
<1>4. PICK d \in Doc : d = c.change.doc  BY <1>3, PutFields
<1>5. applied \in Nat /\ Len(log) \in Nat /\ applied <= Len(log)
    BY DEF HandlersInv, HandlersTyped
<1>6. c.index \in Places(d, log, applied)  BY <1>2, <1>4, <1>5 DEF Places
<1>7. \A j \in Places(d, log, applied) : j <= c.index
    <2> SUFFICES ASSUME NEW j \in Places(d, log, applied), ~(j <= c.index) PROVE FALSE  OBVIOUS
    <2>1. j \in 1..applied /\ log[j].doc = d  BY DEF Places
    <2>2. j \in (c.index + 1)..Len(log)  BY <1>2, <1>5, <2>1
    <2> QED  BY <1>4, <2>1, <2>2
<1>8. LogVersion(d) = c.change.ver  BY <1>2, <1>5, <1>6, <1>7, LastOne DEF LogVersion
<1>9. st.store[d] = LogVersion(d)  BY <1>2, <1>4 DEF HandlersInv, StoreFollowsLog
<1> QED  BY <1>4, <1>8, <1>9

\* Whoever is answered 201 for a document finds its version in the node's store,
\* unless it was changed again in the log or a reload wrote another from docCache.
THEOREM CreatedAlwaysStored == HandlersSpec => CreatedIsStored
<1>1. HandlersInv =>
        [\A c \in calls : (Respond(c) /\ c.change.kind = "document") =>
            \/ st.store[c.change.doc] = c.change.ver
            \/ \E i \in (c.index + 1)..Len(log) : log[i].doc = c.change.doc
            \/ <<c.change.doc, st.store[c.change.doc]>> \in flushed]_handlerVars
    BY RespondsStored
<1> QED  BY <1>1, HandlersInvariant, PTL DEF CreatedIsStored
=============================================================================
