---------------------------- MODULE MCProxyState ----------------------------
(* Instances of ProxyState: the changes that clients ask for. *)
EXTENDS ProxyState

\* Two routes that share the service of n1, one of which may also be one the
\* router refuses; a domain of n1; the namespace n2 and a route of it.
TwoNamespaces ==
    {c \in Change :
        \/ /\ c.ns = "n1"
           /\ \/ c.cmd \in {"add_service", "delete_service", "add_domain"}
              \/ c.cmd = "add_route" /\ c.content = "service"
              \/ c.cmd = "add_route" /\ c.content = "refused" /\ c.name = "r1"
              \/ c.cmd = "delete_route" /\ c.name = "r1"
        \/ /\ c.ns = "n2"
           /\ \/ c.cmd \in {"add_namespace", "delete_namespace"}
              \/ c.cmd = "add_route" /\ c.content = "plain" /\ c.name = "r1"
              \/ c.cmd = "delete_route" /\ c.name = "r1"}

\* Everything that can be asked of one namespace.
Everything == Change
=============================================================================
