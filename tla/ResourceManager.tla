--------------------------- MODULE ResourceManager ---------------------------
(***************************************************************************)
(* The in-memory resource graph of pkg/resources/resource_manager.go.      *)
(*                                                                         *)
(* Every resource is a vertex of pkg/util/linker, held in a tree of its    *)
(* kind under the key name/namespace, with named edges to other vertices.  *)
(* Each public operation runs under the lock of its namespace, so one      *)
(* operation is one action here; the lock itself is module KeyLock.  The   *)
(* exception is GetDomainsByPriority: RLockMain does not exclude a holder  *)
(* of a namespace, so its reading and its caching of the domains are two   *)
(* steps.                                                                  *)
(*                                                                         *)
(* A resource is <<kind, name, namespace>>.  An edge between a route and a *)
(* service or a module is <<route, other, namespace>>: both ends always    *)
(* lie in one namespace.                                                   *)
(***************************************************************************)
EXTENDS Naturals, FiniteSets, Sequences

CONSTANTS
    Namespace,   \* namespace names
    Name,        \* resource names, as numbers: domains are ordered by name
    Names,       \* Names[k]: the names that resources of kind k may take
    Priority,    \* domain priorities
    Lookup,      \* goroutines that ask for the domains by priority
    NoService    \* a route's empty ServiceName

Kind == {"routes", "services", "modules", "domains", "collections", "secrets"}

ASSUME NamesAssumption ==
    /\ Name \subseteq Nat
    /\ Priority \subseteq Nat
    /\ Names \in [Kind -> SUBSET Name]
    /\ NoService \notin Name

VARIABLES
    namespaces,  \* keys of the namespaces tree
    tree,        \* resources found in the tree of their kind
    nsLinks,     \* edges of the namespace vertices, one per linked resource
    backLinks,   \* "namespace" edges of the resource vertices
    rtItem,      \* value of a route vertex: what the last AddRoute asked for
    rtService,   \* "service" edges of the route vertices
    svcRoutes,   \* "routes" edges of the service vertices
    rtModules,   \* "modules" edges of route vertices, to a vertex in the tree
    rtStale,     \* "modules" edges of route vertices, to a removed vertex
    modRoutes,   \* "routes" edges of the module vertices
    domPriority, \* Priority of each domain's value
    domainCache, \* priorityDomainCache; nil is the empty sequence
    looking,     \* the lookups inside domainsByPriority
    listed,      \* the slice each lookup has sorted and is about to cache
    overtaken,   \* history: those of them that a change of domains came after
    late,        \* history: an overtaken lookup stored the cached list
    result       \* how the last operation ended

graphVars == <<rtItem, rtService, svcRoutes, rtModules, rtStale, modRoutes>>
lookupVars == <<looking, listed, overtaken, late>>
domainVars == <<domPriority, domainCache, lookupVars>>
state == <<namespaces, tree, nsLinks, backLinks, graphVars, domainVars>>
vars == <<state, result>>

Key == Name \X Namespace
Resource == Kind \X Name \X Namespace
Edge == Name \X Name \X Namespace
Item == [service : Name \cup {NoService}, modules : SUBSET Name]
NoItem == [service |-> NoService, modules |-> {}]
Result == {"ok", "error", "link_panic", "schema_panic"}

-----------------------------------------------------------------------------
(* Reading the graph. *)

\* The edges of E that belong to route r of namespace ns.
OfRoute(E, r, ns) == {e \in E : e[1] = r /\ e[3] = ns}

\* The edges of E whose other end is x of namespace ns.
OfTarget(E, x, ns) == {e \in E : e[2] = x /\ e[3] = ns}

\* Len(edge) of a namespace vertex is positive.
HasLinks(ns, k) == \E x \in nsLinks : x[1] = k /\ x[3] = ns

\* The domains as the sort sees them: name, namespace and priority.
DomainRecords ==
    {<<x[2], x[3], domPriority[<<x[2], x[3]>>]>> : x \in {y \in tree : y[1] = "domains"}}

\* Priority descending, then name descending.  sort.Slice is not stable: two
\* domains of one name, priority and different namespaces come in any order.
Before(d1, d2) == d1[3] > d2[3] \/ (d1[3] = d2[3] /\ d1[1] >= d2[1])

\* The slices the sort may leave for the domains D.
SortedListings(D) ==
    {s \in [1..Cardinality(D) -> D] :
        /\ \A d \in D : \E i \in DOMAIN s : s[i] = d
        /\ \A i, j \in DOMAIN s : i < j => Before(s[i], s[j])}

-----------------------------------------------------------------------------
NewManager ==
    /\ namespaces = {}
    /\ tree = {}
    /\ nsLinks = {}
    /\ backLinks = {}
    /\ rtItem = [rk \in Key |-> NoItem]
    /\ rtService = {} /\ svcRoutes = {}
    /\ rtModules = {} /\ rtStale = {} /\ modRoutes = {}
    /\ domPriority = [rk \in Key |-> 0]
    /\ domainCache = <<>>
    /\ looking = {} /\ overtaken = {} /\ late = FALSE
    /\ listed = [l \in Lookup |-> <<>>]
    /\ result = "ok"

\* An early return with an error, or a panic, before anything was written.
Refuse(how) == result' = how /\ UNCHANGED state

-----------------------------------------------------------------------------
(* Namespaces *)

AddNamespace(ns) ==
    /\ namespaces' = namespaces \cup {ns}
    /\ result' = "ok"
    /\ UNCHANGED <<tree, nsLinks, backLinks, graphVars, domainVars>>

\* Mutant of NamespaceRemovable: only routes and services are asked for.
NamespaceRemovableUnlessServing(ns) ==
    /\ ns \in namespaces
    /\ \A k \in {"routes", "services"} : ~HasLinks(ns, k)

\* Refused while anything but a secret is linked to the namespace.
NamespaceRemovable(ns) ==
    /\ ns \in namespaces
    /\ \A k \in Kind \ {"secrets"} : ~HasLinks(ns, k)

RemoveNamespace(ns) ==
    \/ /\ NamespaceRemovable(ns)
       /\ namespaces' = namespaces \ {ns}
       /\ nsLinks' = {x \in nsLinks : x[3] # ns}
       /\ result' = "ok"
       /\ UNCHANGED <<tree, backLinks, graphVars, domainVars>>
    \/ /\ ~NamespaceRemovable(ns)
       /\ Refuse("error")

-----------------------------------------------------------------------------
(* Linking a resource to its namespace, shared by every kind but routes: an *)
(* existing vertex only has its value replaced.                             *)

Insert(x) ==
    IF x \in tree
    THEN UNCHANGED <<tree, nsLinks, backLinks>>
    ELSE /\ tree' = tree \cup {x}
         /\ nsLinks' = nsLinks \cup {x}
         /\ backLinks' = backLinks \cup {x}

Delete(x) ==
    /\ tree' = tree \ {x}
    /\ nsLinks' = nsLinks \ {x}
    /\ backLinks' = backLinks \ {x}

-----------------------------------------------------------------------------
(* Services *)

AddService(s, ns) ==
    \/ /\ ns \in namespaces
       /\ Insert(<<"services", s, ns>>)
       /\ result' = "ok"
       /\ UNCHANGED <<namespaces, graphVars, domainVars>>
    \/ /\ ns \notin namespaces
       /\ Refuse("error")

\* Link.Get panics when the edge has more than one target.
RemoveService(s, ns) ==
    LET found == <<"services", s, ns>> \in tree /\ ns \in namespaces
        linked == OfTarget(svcRoutes, s, ns)
        many == \E e1, e2 \in linked : e1 # e2
    IN \/ /\ found /\ linked = {}
          /\ Delete(<<"services", s, ns>>)
          /\ result' = "ok"
          /\ UNCHANGED <<namespaces, graphVars, domainVars>>
       \/ /\ found /\ linked # {}
          /\ Refuse(IF many THEN "link_panic" ELSE "error")
       \/ /\ ~found
          /\ Refuse("error")

-----------------------------------------------------------------------------
(* Modules *)

\* decoded: the payload is valid base64.
AddModule(m, ns, decoded) ==
    \/ /\ ns \in namespaces /\ decoded
       /\ Insert(<<"modules", m, ns>>)
       /\ result' = "ok"
       /\ UNCHANGED <<namespaces, graphVars, domainVars>>
    \/ /\ ns \notin namespaces \/ ~decoded
       /\ Refuse("error")

\* Mutant of ModuleRemovable: the routes of the module are not asked for.
ModuleRemovableInUse(m, ns) == <<"modules", m, ns>> \in tree /\ ns \in namespaces

ModuleRemovable(m, ns) ==
    /\ <<"modules", m, ns>> \in tree
    /\ OfTarget(modRoutes, m, ns) = {}
    /\ ns \in namespaces

\* The edges that routes still have to the vertex outlive it.
RemoveModule(m, ns) ==
    \/ /\ ModuleRemovable(m, ns)
       /\ Delete(<<"modules", m, ns>>)
       /\ rtModules' = rtModules \ OfTarget(rtModules, m, ns)
       /\ rtStale' = rtStale \cup OfTarget(rtModules, m, ns)
       /\ result' = "ok"
       /\ UNCHANGED <<namespaces, rtItem, rtService, svcRoutes, modRoutes, domainVars>>
    \/ /\ ~ModuleRemovable(m, ns)
       /\ Refuse("error")

-----------------------------------------------------------------------------
(* Routes *)

\* transformRoute: everything the route names must exist.
RouteResolves(ns, s, M) ==
    /\ ns \in namespaces
    /\ s # NoService => <<"services", s, ns>> \in tree
    /\ \A m \in M : <<"modules", m, ns>> \in tree

\* Mutant of UnlinkedModules: the edges are left alone.
NothingUnlinked(r, ns) == {}

\* What unlinkRoute takes away: the route's service edge, at both ends, and the
\* route's edge at every module it links.  The route keeps its own "modules"
\* edges.
UnlinkedServices(r, ns) == OfRoute(rtService, r, ns)
UnlinkedModules(r, ns) == OfRoute(rtModules, r, ns)

\* Mutant of Relinks: the edges of the route's earlier value are never undone.
NeverRelinks(r, ns, s) == FALSE

\* relinkRoute unlinks an existing route only when the new one has a service.
Relinks(r, ns, s) == <<"routes", r, ns>> \in tree /\ s # NoService

AddRoute(r, ns, s, M) ==
    \/ /\ RouteResolves(ns, s, M)
       /\ LET oldSvc == IF Relinks(r, ns, s) THEN UnlinkedServices(r, ns) ELSE {}
              oldMod == IF Relinks(r, ns, s) THEN UnlinkedModules(r, ns) ELSE {}
              newSvc == IF s = NoService THEN {} ELSE {<<r, s, ns>>}
              newMod == {<<r, m, ns>> : m \in M}
          IN /\ rtService' = (rtService \ oldSvc) \cup newSvc
             /\ svcRoutes' = (svcRoutes \ oldSvc) \cup newSvc
             /\ modRoutes' = (modRoutes \ oldMod) \cup newMod
             /\ rtModules' = rtModules \cup newMod
             /\ rtStale' = rtStale \ newMod
       /\ rtItem' = [rtItem EXCEPT ![<<r, ns>>] = [service |-> s, modules |-> M]]
       /\ tree' = tree \cup {<<"routes", r, ns>>}
       /\ nsLinks' = nsLinks \cup {<<"routes", r, ns>>}
       /\ backLinks' = backLinks \cup {<<"routes", r, ns>>}
       /\ result' = "ok"
       /\ UNCHANGED <<namespaces, domainVars>>
    \/ /\ ~RouteResolves(ns, s, M)
       /\ Refuse("error")

RouteRemovable(r, ns) == ns \in namespaces /\ <<"routes", r, ns>> \in tree

\* The vertex leaves the tree with the edges it still has.
RemoveRoute(r, ns) ==
    \/ /\ RouteRemovable(r, ns)
       /\ Delete(<<"routes", r, ns>>)
       /\ rtService' = rtService \ UnlinkedServices(r, ns)
       /\ svcRoutes' = svcRoutes \ UnlinkedServices(r, ns)
       /\ modRoutes' = modRoutes \ UnlinkedModules(r, ns)
       /\ rtModules' = rtModules \ OfRoute(rtModules, r, ns)
       /\ rtStale' = rtStale \ OfRoute(rtStale, r, ns)
       /\ rtItem' = [rtItem EXCEPT ![<<r, ns>>] = NoItem]
       /\ result' = "ok"
       /\ UNCHANGED <<namespaces, domainVars>>
    \/ /\ ~RouteRemovable(r, ns)
       /\ Refuse("error")

-----------------------------------------------------------------------------
(* Domains *)

\* The domains have changed: the lookups under way hold an old list.
Overtake ==
    /\ overtaken' = looking
    /\ UNCHANGED <<looking, listed>>

\* The deferred reset of priorityDomainCache.  It falls after the change, but a
\* list that is cached in between is dropped with the old one.
ResetCache == domainCache' = <<>> /\ late' = FALSE

\* Mutant of AddDomain: a replaced domain leaves the cache alone.
AddDomainKeepingCache(d, ns, p) ==
    \/ /\ ns \in namespaces
       /\ Insert(<<"domains", d, ns>>)
       /\ domPriority' = [domPriority EXCEPT ![<<d, ns>>] = p]
       /\ IF <<"domains", d, ns>> \in tree THEN UNCHANGED <<domainCache, late>> ELSE ResetCache
       /\ Overtake
       /\ result' = "ok"
       /\ UNCHANGED <<namespaces, graphVars>>
    \/ /\ ns \notin namespaces
       /\ Refuse("error")

AddDomain(d, ns, p) ==
    \/ /\ ns \in namespaces
       /\ Insert(<<"domains", d, ns>>)
       /\ domPriority' = [domPriority EXCEPT ![<<d, ns>>] = p]
       /\ ResetCache
       /\ Overtake
       /\ result' = "ok"
       /\ UNCHANGED <<namespaces, graphVars>>
    \/ /\ ns \notin namespaces
       /\ Refuse("error")

\* The cache is dropped even when there is nothing to remove.
RemoveDomain(d, ns) ==
    /\ ResetCache
    /\ \/ /\ <<"domains", d, ns>> \in tree /\ ns \in namespaces
          /\ Delete(<<"domains", d, ns>>)
          /\ domPriority' = [domPriority EXCEPT ![<<d, ns>>] = 0]
          /\ Overtake
          /\ result' = "ok"
       \/ /\ ~(<<"domains", d, ns>> \in tree /\ ns \in namespaces)
          /\ result' = "error"
          /\ UNCHANGED <<tree, nsLinks, backLinks, domPriority, looking, listed, overtaken>>
    /\ UNCHANGED <<namespaces, graphVars>>

\* A cached list is returned as it is; otherwise domainsByPriority reads the tree
\* in one piece (Each holds the tree's lock) and sorts what it read.
GetDomainsByPriority(l) ==
    /\ l \notin looking
    /\ \/ /\ domainCache # <<>>
          /\ result' = "ok"
          /\ UNCHANGED lookupVars
       \/ /\ domainCache = <<>>
          /\ looking' = looking \cup {l}
          /\ \E s \in SortedListings(DomainRecords) : listed' = [listed EXCEPT ![l] = s]
          /\ UNCHANGED <<overtaken, late, result>>
    /\ UNCHANGED <<namespaces, tree, nsLinks, backLinks, graphVars, domPriority, domainCache>>

\* The end of domainsByPriority: the list is cached, whatever came meanwhile.
CacheDomains(l) ==
    /\ l \in looking
    /\ domainCache' = listed[l]
    /\ late' = (l \in overtaken)
    /\ looking' = looking \ {l}
    /\ overtaken' = overtaken \ {l}
    /\ listed' = [listed EXCEPT ![l] = <<>>]
    /\ result' = "ok"
    /\ UNCHANGED <<namespaces, tree, nsLinks, backLinks, graphVars, domPriority>>

-----------------------------------------------------------------------------
(* Collections and secrets *)

\* compiles: the schema compiles; MustCompileString panics otherwise.
AddCollection(c, ns, compiles) ==
    \/ /\ ns \in namespaces /\ compiles
       /\ Insert(<<"collections", c, ns>>)
       /\ result' = "ok"
       /\ UNCHANGED <<namespaces, graphVars, domainVars>>
    \/ /\ ns \in namespaces /\ ~compiles
       /\ Refuse("schema_panic")
    \/ /\ ns \notin namespaces
       /\ Refuse("error")

RemoveCollection(c, ns) ==
    \/ /\ <<"collections", c, ns>> \in tree /\ ns \in namespaces
       /\ Delete(<<"collections", c, ns>>)
       /\ result' = "ok"
       /\ UNCHANGED <<namespaces, graphVars, domainVars>>
    \/ /\ ~(<<"collections", c, ns>> \in tree /\ ns \in namespaces)
       /\ Refuse("error")

\* decoded: the data is valid base64.
AddSecret(c, ns, decoded) ==
    \/ /\ ns \in namespaces /\ decoded
       /\ Insert(<<"secrets", c, ns>>)
       /\ result' = "ok"
       /\ UNCHANGED <<namespaces, graphVars, domainVars>>
    \/ /\ ns \notin namespaces \/ ~decoded
       /\ Refuse("error")

\* A secret has no "routes" edge, so the test for linked routes never refuses.
RemoveSecret(c, ns) ==
    \/ /\ <<"secrets", c, ns>> \in tree /\ ns \in namespaces
       /\ Delete(<<"secrets", c, ns>>)
       /\ result' = "ok"
       /\ UNCHANGED <<namespaces, graphVars, domainVars>>
    \/ /\ ~(<<"secrets", c, ns>> \in tree /\ ns \in namespaces)
       /\ Refuse("error")

\* Every tree is emptied; priorityDomainCache is left as it is.  Clear has no
\* caller in the program and is no part of Next.
Clear ==
    /\ namespaces' = {} /\ tree' = {} /\ nsLinks' = {} /\ backLinks' = {}
    /\ rtItem' = [rk \in Key |-> NoItem]
    /\ rtService' = {} /\ svcRoutes' = {}
    /\ rtModules' = {} /\ rtStale' = {} /\ modRoutes' = {}
    /\ domPriority' = [rk \in Key |-> 0]
    /\ overtaken' = looking
    /\ result' = "ok"
    /\ UNCHANGED <<domainCache, looking, listed, late>>

-----------------------------------------------------------------------------
\* The operations the rest of the program calls.
NamespaceNext == \E ns \in Namespace : AddNamespace(ns) \/ RemoveNamespace(ns)

ServiceNext ==
    \E s \in Names["services"], ns \in Namespace : AddService(s, ns) \/ RemoveService(s, ns)

ModuleNext ==
    \E m \in Names["modules"], ns \in Namespace :
        (\E decoded \in BOOLEAN : AddModule(m, ns, decoded)) \/ RemoveModule(m, ns)

RouteNext ==
    \E r \in Names["routes"], ns \in Namespace :
        \/ \E s \in Names["services"] \cup {NoService}, M \in SUBSET Names["modules"] :
              AddRoute(r, ns, s, M)
        \/ RemoveRoute(r, ns)

DomainNext ==
    \/ \E d \in Names["domains"], ns \in Namespace :
          (\E p \in Priority : AddDomain(d, ns, p)) \/ RemoveDomain(d, ns)
    \/ \E l \in Lookup : GetDomainsByPriority(l) \/ CacheDomains(l)

CollectionNext ==
    \E c \in Names["collections"], ns \in Namespace :
        (\E compiles \in BOOLEAN : AddCollection(c, ns, compiles)) \/ RemoveCollection(c, ns)

SecretNext ==
    \E c \in Names["secrets"], ns \in Namespace :
        (\E decoded \in BOOLEAN : AddSecret(c, ns, decoded)) \/ RemoveSecret(c, ns)

Next ==
    \/ NamespaceNext \/ ServiceNext \/ ModuleNext \/ RouteNext
    \/ DomainNext \/ CollectionNext \/ SecretNext

Spec == NewManager /\ [][Next]_vars

-----------------------------------------------------------------------------
(* Properties *)

\* Every variable has its type (the trees, edges and values of ResourceManager).
TypeOK ==
    /\ namespaces \in SUBSET Namespace
    /\ tree \in SUBSET Resource
    /\ nsLinks \in SUBSET Resource
    /\ backLinks \in SUBSET Resource
    /\ rtItem \in [Key -> Item]
    /\ rtService \in SUBSET Edge
    /\ svcRoutes \in SUBSET Edge
    /\ rtModules \in SUBSET Edge
    /\ rtStale \in SUBSET Edge
    /\ modRoutes \in SUBSET Edge
    /\ domPriority \in [Key -> Nat]
    /\ looking \in SUBSET Lookup
    /\ DOMAIN listed = Lookup
    /\ overtaken \in SUBSET looking
    /\ late \in BOOLEAN
    /\ result \in Result

\* For every kind but secrets, a resource is in its tree exactly when its
\* namespace exists and links it, and it links its namespace back: no removal
\* leaves a dangling edge, and GetXByNamespace lists what GetX lists.
NamespaceLinksExact ==
    \A x \in Resource : x[1] # "secrets" =>
        /\ x \in tree <=> x \in nsLinks
        /\ x \in tree <=> x \in backLinks
        /\ x \in tree => x[3] \in namespaces

\* A service and a route agree on whether they are linked, and both ends of
\* the edge exist: what RemoveService looks at is what the routes use.
ServiceEndsAgree ==
    /\ rtService = svcRoutes
    /\ \A e \in rtService : /\ <<"routes", e[1], e[3]>> \in tree
                            /\ <<"services", e[2], e[3]>> \in tree

\* A route vertex has at most one "service" edge: LinkOneOne in relinkRoute and
\* Get("service") in unlinkRoute panic exactly when this fails.
OneServicePerRoute ==
    \A e1, e2 \in rtService : (e1[1] = e2[1] /\ e1[3] = e2[3]) => e1 = e2

\* The edges between routes and services are right: no series of calls leaves one
\* end behind, or a route with two services.
ServiceEdgesAgree == ServiceEndsAgree /\ OneServicePerRoute

\* What the last AddRoute asked for stays in place while the route exists: its
\* service and its modules are in their trees, linked from the route and, for
\* RemoveService and RemoveModule to see, back to the route.
RouteReferencesHold ==
    \A x \in tree : x[1] = "routes" =>
        LET it == rtItem[<<x[2], x[3]>>]
        IN /\ it.service # NoService =>
                /\ <<"services", it.service, x[3]>> \in tree
                /\ <<x[2], it.service, x[3]>> \in rtService
           /\ \A m \in it.modules :
                /\ <<"modules", m, x[3]>> \in tree
                /\ <<x[2], m, x[3]>> \in modRoutes
                /\ <<x[2], m, x[3]>> \in rtModules

\* A module's "routes" edge always has its counterpart at the route, so
\* RemoveRoute finds every module that counts the route as a user.
ModuleBackEdgesCovered ==
    /\ modRoutes \subseteq rtModules
    /\ rtModules \cap rtStale = {}
    /\ \A e \in rtModules : /\ <<"routes", e[1], e[3]>> \in tree
                            /\ <<"modules", e[2], e[3]>> \in tree

\* The cached list that requests are matched against is a listing of the domains
\* as they are, each once, in the order FindNamespaceByRequest relies on, unless
\* the lookup that stored it was overtaken by AddDomain or RemoveDomain: then the
\* domains of before the change may be matched until the next one.
DomainCacheFresh ==
    (domainCache # <<>> /\ ~late) => domainCache \in SortedListings(DomainRecords)
=============================================================================
