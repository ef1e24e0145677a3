------------------------------ MODULE HttpCall ------------------------------
(***************************************************************************)
(* A call over HTTP that is tried again: clientRetry of raftadmin/client.go *)
(* and send of rafthttp/rafthttp.go.  Both hand the same request to        *)
(* net/http each time.  When its body was read by an earlier attempt, the  *)
(* next one fails before anything is sent; if that was on a connection     *)
(* kept from before, net/http takes a new copy of the body (the requests   *)
(* are made from a bytes.Reader, so it has one) and sends the request      *)
(* again, on a new connection it does not.  net/http follows a 307 itself, *)
(* with a new copy of the body.                                            *)
(***************************************************************************)
EXTENDS Integers, FiniteSets

CONSTANTS
    Node,        \* servers
    NoNode,
    Caller,
    Retries,     \* after how many failed retries each caller gives up
    MaxHops,     \* redirects net/http follows
    MaxFaults    \* bound: failures of the network

ASSUME HttpAssumption ==
    /\ NoNode \notin Node /\ IsFiniteSet(Node)
    /\ Retries \in [Caller -> Nat]
    /\ {MaxHops, MaxFaults} \subseteq Nat

VARIABLES
    call,      \* the call of each caller
    serving,   \* handlers at work, also those whose client is gone
    faults,
    lost       \* history: the callers of whose calls an answer was lost

httpVars == <<call, serving, faults, lost>>

Redirect == 307

Idle ==
    [at |-> "idle", cmd |-> "", target |-> NoNode, to |-> NoNode, hops |-> 0, tries |-> 0,
     id |-> 0, body |-> "none", status |-> 0]

HttpInit == call = [c \in Caller |-> Idle] /\ serving = {} /\ faults = 0 /\ lost = {}

\* The call c as it begins.
Begun(n, cmd, body) ==
    [Idle EXCEPT !.at = "send", !.cmd = cmd, !.target = n, !.to = n, !.body = body]

\* Requests of one caller that are served at a time are told apart.
FreshId(c) ==
    CHOOSE i \in 1..(Cardinality(serving) + 1) : \A h \in serving : h.caller = c => h.id # i

\* The handler that a call waits for.
HandlerOf(c) == {h \in serving : h.caller = c /\ h.id = call[c].id}

\* An attempt of the call k of c has failed: it is over, or begins again with
\* the first target, whose body may have been read.  The callers' contexts are
\* never cancelled (context.Background()), so ctx.Err() is nil.
Failed(k, c) ==
    IF k.tries > Retries[c] THEN [k EXCEPT !.at = "ended", !.status = 0]
    ELSE [k EXCEPT !.at = "send", !.tries = @ + 1, !.to = k.target, !.hops = 0,
                   !.body = IF @ = "none" \/ (@ = "full" /\ k.hops = 0) THEN @ ELSE "read"]

\* No connection.
DialFails(c) ==
    /\ call[c].at = "send" /\ faults < MaxFaults
    /\ faults' = faults + 1
    /\ call' = [call EXCEPT ![c] = Failed(@, c)]
    /\ UNCHANGED <<serving, lost>>

\* The body was read before and the connection is new: the attempt fails with
\* a body shorter than announced.
BodyConsumed(c) ==
    /\ call[c].at = "send" /\ call[c].body = "read"
    /\ call' = [call EXCEPT ![c] = Failed(@, c)]
    /\ UNCHANGED <<serving, faults, lost>>

\* The request is sent, with the body or, on a connection kept from before,
\* with a new copy of it.
Deliver(c) ==
    /\ call[c].at = "send"
    /\ call' = [call EXCEPT ![c].at = "wait", ![c].id = FreshId(c),
                            ![c].body = IF @ = "full" THEN "read" ELSE @]
    /\ serving' = serving \cup
           {[caller |-> c, id |-> FreshId(c), node |-> call[c].to, cmd |-> call[c].cmd,
             at |-> "new", future |-> "none", status |-> 0, hint |-> NoNode, gone |-> FALSE]}
    /\ UNCHANGED <<faults, lost>>

\* The answer is lost or comes after the time limit; the handler goes on, and
\* its context is cancelled.
Lose(c) ==
    /\ call[c].at = "wait" /\ faults < MaxFaults
    /\ faults' = faults + 1 /\ lost' = lost \cup {c}
    /\ call' = [call EXCEPT ![c] = Failed(@, c)]
    /\ serving' = (serving \ HandlerOf(c)) \cup
                  {[h EXCEPT !.gone = TRUE] : h \in {g \in HandlerOf(c) : g.at # "done"}}

\* The call k of c after the answer of h; a redirect is followed, up to a limit.
Received(k, c, h) ==
    IF h.status # Redirect THEN [k EXCEPT !.at = "ended", !.status = h.status]
    ELSE IF k.hops = MaxHops THEN Failed(k, c)
    ELSE [k EXCEPT !.at = "send", !.to = h.hint, !.hops = @ + 1,
                   !.body = IF @ = "none" THEN @ ELSE "full"]

\* The answer arrives.
Receive(c) ==
    \E h \in HandlerOf(c) :
        /\ call[c].at = "wait" /\ h.at = "done"
        /\ serving' = serving \ {h}
        /\ call' = [call EXCEPT ![c] = Received(@, c, h)]
        /\ UNCHANGED <<faults, lost>>

\* The handlers after h has answered with status s and, for a redirect, a node.
Answered(h, s, n) ==
    (serving \ {h}) \cup
    (IF h.gone THEN {} ELSE {[h EXCEPT !.at = "done", !.status = s, !.hint = n, !.future = "none"]})

HttpSteps(c) == Deliver(c) \/ BodyConsumed(c) \/ Receive(c)
HttpFaults(c) == DialFails(c) \/ Lose(c)
=============================================================================
