---------------------------- MODULE Configuration ----------------------------
(***************************************************************************)
(* What a change log does to the configuration and what a reload makes of  *)
(* it: processResource of internal/proxy/change_log.go on top of the       *)
(* resource manager, and setupRoutes of internal/proxy/dynamic_proxy.go.   *)
(*                                                                         *)
(* The resource manager is reduced to what decides whether a change is     *)
(* accepted and which routes are served: the namespaces, at most one       *)
(* service and one domain in each, the routes and their content, and which *)
(* routes the service is linked to.  Module ResourceManager has the whole  *)
(* graph.                                                                  *)
(***************************************************************************)
EXTENDS Naturals, Sequences, SequencesExt

CONSTANTS
    Namespace,
    Route,       \* route names
    DefaultNs    \* the namespaces present before any change log

ASSUME DefaultNsAssumption == DefaultNs \subseteq Namespace

\* The content of a route: with no service, with its namespace's service, or
\* one the router refuses (no method, an unknown method, "*" beside others).
Content == {"plain", "service", "refused"}
Absent == "absent"

\* No routes at all; also the table of a namespace without a router, which
\* answers every request in the same way.
NoRoutes == [r \in Route |-> Absent]

\* The changes a client can ask for.
Change ==
    [cmd : {"add_namespace", "delete_namespace", "add_service", "delete_service",
            "add_domain", "delete_domain"}, ns : Namespace]
    \cup [cmd : {"add_route"}, ns : Namespace, name : Route, content : Content]
    \cup [cmd : {"delete_route"}, ns : Namespace, name : Route]

\* A route that the router will refuse.
AsksRefused(c) == c.cmd = "add_route" /\ c.content = "refused"

\* Resource.IsRelatedTo(Routes): the change calls for a reload by itself.
IsRelatedToRoutes(c) == c.cmd \notin {"add_domain", "delete_domain"}

\* The configuration of a new process.
InitConfig ==
    [namespaces |-> DefaultNs, services |-> {}, domains |-> {},
     routes |-> [ns \in Namespace |-> NoRoutes], linked |-> {}]

RoutesOf(S, ns) == {r \in Route : S.routes[ns][r] # Absent}
LinkedTo(S, ns) == {l \in S.linked : l[2] = ns}

-----------------------------------------------------------------------------
(* processResource: the outcome of a change and the configuration after it. *)

\* What the resource manager answers.
Outcome(S, c) ==
    LET ns == c.ns
        known == ns \in S.namespaces
        ok(b) == IF b THEN "ok" ELSE "error"
    IN CASE c.cmd = "add_namespace" -> "ok"
         [] c.cmd = "delete_namespace" ->
              ok(known /\ RoutesOf(S, ns) = {} /\ ns \notin S.services /\ ns \notin S.domains)
         [] c.cmd \in {"add_service", "add_domain"} -> ok(known)
         [] c.cmd = "delete_domain" -> ok(known /\ ns \in S.domains)
         [] c.cmd = "delete_service" ->
              IF known /\ ns \in S.services /\ \E l1, l2 \in LinkedTo(S, ns) : l1 # l2
              THEN "panic"
              ELSE ok(known /\ ns \in S.services /\ LinkedTo(S, ns) = {})
         [] c.cmd = "add_route" -> ok(known /\ (c.content = "service" => ns \in S.services))
         [] c.cmd = "delete_route" -> ok(known /\ S.routes[ns][c.name] # Absent)

\* What an accepted change leaves behind.  A route that gives up its service
\* keeps the link to it.
Changed(S, c) ==
    LET ns == c.ns
    IN CASE c.cmd = "add_namespace" -> [S EXCEPT !.namespaces = @ \cup {ns}]
         [] c.cmd = "delete_namespace" -> [S EXCEPT !.namespaces = @ \ {ns}]
         [] c.cmd = "add_service" -> [S EXCEPT !.services = @ \cup {ns}]
         [] c.cmd = "delete_service" -> [S EXCEPT !.services = @ \ {ns}]
         [] c.cmd = "add_domain" -> [S EXCEPT !.domains = @ \cup {ns}]
         [] c.cmd = "delete_domain" -> [S EXCEPT !.domains = @ \ {ns}]
         [] c.cmd = "add_route" ->
              [S EXCEPT !.routes[ns][c.name] = c.content,
                        !.linked = IF c.content = "service" THEN @ \cup {<<c.name, ns>>} ELSE @]
         [] c.cmd = "delete_route" ->
              [S EXCEPT !.routes[ns][c.name] = Absent, !.linked = @ \ {<<c.name, ns>>}]

ApplyChange(S, c) == IF Outcome(S, c) = "ok" THEN Changed(S, c) ELSE S

\* The configurations that a sequence of changes goes through; the one it builds;
\* and whether each change is accepted in turn.
Steps(cs) ==
    LET after[i \in 0..Len(cs)] ==
          IF i = 0 THEN InitConfig ELSE ApplyChange(after[i - 1], cs[i])
    IN after
Replay(cs) == Steps(cs)[Len(cs)]
Replayable(cs) == \A i \in 1..Len(cs) : Outcome(Steps(cs)[i - 1], cs[i]) = "ok"

-----------------------------------------------------------------------------
(* setupRoutes: the routing table of each namespace. *)

Refused(S, ns) == \E r \in Route : S.routes[ns][r] = "refused"

\* A reload of everything walks the namespaces that have routes; a reload of
\* one namespace also deletes the router of a namespace that has none.
Scope(S, ns, all) == IF all THEN {n \in Namespace : RoutesOf(S, n) # {}} ELSE {ns}

\* Mutant of SetupRoutes: a namespace that has a router keeps it.
SetupRoutesOnce(S, routers, ns, all) ==
    [n \in Namespace |->
        IF n \notin Scope(S, ns, all) \/ Refused(S, n) \/ routers[n] # NoRoutes
        THEN routers[n] ELSE S.routes[n]]

SetupRoutes(S, routers, ns, all) ==
    [n \in Namespace |->
        IF n \notin Scope(S, ns, all) \/ Refused(S, n) THEN routers[n]
        ELSE S.routes[n]]

SetupRoutesFails(S, ns, all) == \E n \in Scope(S, ns, all) : Refused(S, n)
=============================================================================
