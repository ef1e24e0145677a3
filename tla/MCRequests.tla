----------------------------- MODULE MCRequests -----------------------------
(***************************************************************************)
(* What goroutines of the gateway do at the same time: requests and        *)
(* reloads of a route, requests and their upstream, and the users of a     *)
(* lock by key.  They share nothing here; `part` says which of them a      *)
(* behaviour is about.                                                     *)
(***************************************************************************)
EXTENDS RequestServing, ServiceProxy, KeyLock

CONSTANTS k1, m0   \* the key that is in the map at the start, and its mutex

VARIABLE part

OneWarmLock == [k \in {k1} |-> m0]

\* One request of any route with any functions, a write or not; or two requests of
\* a route whose module only chooses the upstream and writes nothing.
Proxied == {"write", "read", "both"}
Concerned == {p \in Request : IF p \in Writes THEN part \in {"write", "both"} ELSE part \in {"read", "both"}}

\* A part that a behaviour is not about starts in one of its initial states.
Resting ==
    /\ part = "serve" \/ ~pending
    /\ part = "both" => route.fns = {} /\ route.service /\ route.module /\ ~route.timeout
    /\ part \notin Proxied => ~route.service /\ ~route.module /\ ~route.timeout
    /\ part = "lock" \/ \A p \in Goroutine : key[p] = k1

ReqInit ==
    /\ part \in Proxied \cup {"serve", "lock"}
    /\ Init /\ ProxyInit /\ LockInit
    /\ Resting

ProxyStep ==
    \/ \E p \in Concerned : Arrive(p) \/ Proceed(p) \/ Spin(p)
    \/ CloseOldProvider
    \/ ReplaceProvider

ReqNext ==
    /\ UNCHANGED part
    /\ \/ part = "serve" /\ Next /\ UNCHANGED <<proxyVars, lockVars>>
       \/ /\ part \in Proxied /\ ProxyStep /\ UNCHANGED <<vars, lockVars>>
          /\ part = "both" => \A p \in Request : ~req'[p].early
       \/ part = "lock" /\ LockNext /\ UNCHANGED <<vars, proxyVars>>

reqPartVars == <<part, vars, proxyVars, lockVars>>

\* The behaviours that are about one POST or PUT and its upstream.
RetrySpec == (ReqInit /\ part = "write") /\ [][ReqNext]_reqPartVars

\* The goroutines of each part run; a part at rest has nothing that must happen.
ReqSpec == ReqInit /\ [][ReqNext]_reqPartVars /\ Fairness /\ ProxyFairness /\ LockFairness
=============================================================================
