------------------------- MODULE MCResourceManager -------------------------
(***************************************************************************)
(* An instance of ResourceManager.  Routes, services and modules touch     *)
(* each other; domains, collections and secrets touch only namespaces.  So *)
(* a state has either the first, in one namespace, or domains, in two, or  *)
(* collections and secrets, in two.  Lookups are under way only beside     *)
(* domains, two at a time only in one namespace.                           *)
(***************************************************************************)
EXTENDS ResourceManager, TLC

GraphKind == {"routes", "services", "modules"}

\* Two routes, services, modules and domains, a collection and a secret.
MCNames == [k \in Kind |-> IF k \in GraphKind \cup {"domains"} THEN {1, 2} ELSE {1}]

\* The bound on the domains that exist while a lookup is under way.
MaxListed == 2

NoLookups == domainCache = <<>> /\ looking = {}

Split ==
    /\ \/ \A x \in tree : x[1] = "domains"
       \/ NoLookups /\ \A x \in tree : x[1] \in {"collections", "secrets"}
       \/ /\ NoLookups
          /\ \A x \in tree : x[1] \in GraphKind
          /\ Cardinality(namespaces) <= 1
    /\ looking # {} => Cardinality(tree) <= MaxListed
    /\ Cardinality(looking) > 1 => Cardinality(namespaces) <= 1

\* Clear has no caller in the program and would leave the cached domains behind.
ClearUncached == NoLookups /\ Clear

\* Namespaces and lookups are interchangeable.
Symmetry == Permutations(Namespace) \cup Permutations(Lookup)

MCSpec == NewManager /\ [][(Next \/ ClearUncached) /\ Split']_vars
=============================================================================
