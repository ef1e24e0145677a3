---------------------------- MODULE MCReplication ----------------------------
(* Instances of Replication: the changes that clients ask for. *)
EXTENDS Replication

\* The service, a domain and the route of n1, with and without its service or
\* refused by the router, and the deletion of the route.
OneRoute ==
    {c \in Change : c.ns = "n1" /\ c.cmd \in {"add_service", "add_domain", "add_route",
                                              "delete_route"}}
=============================================================================
