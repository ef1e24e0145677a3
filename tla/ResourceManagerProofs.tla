------------------------ MODULE ResourceManagerProofs ------------------------
(***************************************************************************)
(* Proofs about ResourceManager, for every set of namespaces, names and    *)
(* priorities.                                                             *)
(*                                                                         *)
(* The link invariants are inductive only together.  RemoveService and     *)
(* RemoveModule look at the edges of the removed vertex, so that a route's *)
(* references survive them needs the edges to mirror the routes' values;   *)
(* that AddRoute never leaves two service edges needs the edges of an      *)
(* absent route to be gone, which needs both ends to exist.                *)
(*                                                                         *)
(* The cached list of domains is up to date because of what the lookups    *)
(* under way are about to store: LookupsFresh.                             *)
(*                                                                         *)
(* An operation is one action because the manager takes the lock of its    *)
(* namespace around it; what that lock guarantees, in KeyLock, is proved   *)
(* at the end.                                                             *)
(***************************************************************************)
EXTENDS ResourceManager, KeyLock, TLAPS

Links ==
    /\ NamespaceLinksExact
    /\ ServiceEndsAgree
    /\ OneServicePerRoute
    /\ RouteReferencesHold
    /\ ModuleBackEdgesCovered

IInv == TypeOK /\ Links

-----------------------------------------------------------------------------
(* Type correctness *)

LEMMA InitTyped == NewManager => TypeOK
<1> SUFFICES ASSUME NewManager PROVE TypeOK
  OBVIOUS
<1>1. late \in BOOLEAN
  BY DEF NewManager
<1>2. rtItem \in [Key -> Item] /\ domPriority \in [Key -> Nat]
  BY DEF NewManager, Item, NoItem
<1>3. DOMAIN listed = Lookup
  BY DEF NewManager
<1> QED
  BY <1>1, <1>2, <1>3 DEF NewManager, TypeOK, Result

LEMMA ExceptTyped ==
  ASSUME NEW S, NEW T, NEW f \in [S -> T], NEW i \in S, NEW v \in T
  PROVE  [f EXCEPT ![i] = v] \in [S -> T]
  OBVIOUS

LEMMA ItemTyped ==
  /\ NoItem \in Item
  /\ \A s \in Name \cup {NoService}, M \in SUBSET Name :
        [service |-> s, modules |-> M] \in Item
  BY DEF NoItem, Item

LEMMA NextTyped ==
  ASSUME TypeOK, [Next]_vars
  PROVE  TypeOK'
<1> USE NamesAssumption DEF TypeOK, Result, Resource, Edge, Kind,
        state, graphVars, domainVars, lookupVars, Refuse, ResetCache, Overtake
<1>1. CASE UNCHANGED vars
  BY <1>1 DEF vars
<1>2. CASE NamespaceNext
  BY <1>2 DEF NamespaceNext, AddNamespace, RemoveNamespace
<1>3. CASE ServiceNext
  BY <1>3 DEF ServiceNext, AddService, RemoveService, Insert, Delete
<1>4. CASE ModuleNext
  BY <1>4 DEF ModuleNext, AddModule, RemoveModule, Insert, Delete, OfTarget
<1>5. CASE RouteNext
  <2>1. ASSUME NEW r \in Names["routes"], NEW ns \in Namespace,
               NEW s \in Names["services"] \cup {NoService},
               NEW M \in SUBSET Names["modules"], AddRoute(r, ns, s, M)
        PROVE  TypeOK'
    <3> DEFINE newSvc == IF s = NoService THEN {} ELSE {<<r, s, ns>>}
               newMod == {<<r, m, ns>> : m \in M}
               new == [service |-> s, modules |-> M]
    <3>1. newSvc \subseteq Edge /\ newMod \subseteq Edge
      OBVIOUS
    <3>2. <<r, ns>> \in Key /\ new \in Item
      BY ItemTyped DEF Key
    <3>3. [rtItem EXCEPT ![<<r, ns>>] = new] \in [Key -> Item]
      BY <3>2, ExceptTyped
    <3>4. CASE RouteResolves(ns, s, M)
      BY <2>1, <3>1, <3>3, <3>4 DEF AddRoute
    <3>5. CASE ~RouteResolves(ns, s, M)
      BY <2>1, <3>5 DEF AddRoute
    <3> QED
      BY <3>4, <3>5
  <2>2. ASSUME NEW r \in Names["routes"], NEW ns \in Namespace, RemoveRoute(r, ns)
        PROVE  TypeOK'
    <3>1. [rtItem EXCEPT ![<<r, ns>>] = NoItem] \in [Key -> Item]
      BY ItemTyped, ExceptTyped DEF Key
    <3> QED
      BY <2>2, <3>1 DEF RemoveRoute, Delete
  <2> QED
    BY <1>5, <2>1, <2>2 DEF RouteNext
<1>6. CASE DomainNext
  <2>1. ASSUME NEW d \in Names["domains"], NEW ns \in Namespace,
               NEW p \in Priority, AddDomain(d, ns, p)
        PROVE  TypeOK'
    <3>1. [domPriority EXCEPT ![<<d, ns>>] = p] \in [Key -> Nat]
      BY ExceptTyped DEF Key
    <3>2. CASE ns \in namespaces
      <4>1. domPriority' \in [Key -> Nat]
        BY <2>1, <3>1, <3>2 DEF AddDomain
      <4>2. tree' \in SUBSET Resource /\ nsLinks' \in SUBSET Resource
                                     /\ backLinks' \in SUBSET Resource
        BY <2>1, <3>2 DEF AddDomain, Insert
      <4> QED
        BY <2>1, <3>2, <4>1, <4>2 DEF AddDomain
    <3>3. CASE ns \notin namespaces
      BY <2>1, <3>3 DEF AddDomain
    <3> QED
      BY <3>2, <3>3
  <2>2. ASSUME NEW d \in Names["domains"], NEW ns \in Namespace, RemoveDomain(d, ns)
        PROVE  TypeOK'
    <3>1. [domPriority EXCEPT ![<<d, ns>>] = 0] \in [Key -> Nat]
      BY ExceptTyped DEF Key
    <3>2. CASE <<"domains", d, ns>> \in tree /\ ns \in namespaces
      BY <2>2, <3>1, <3>2 DEF RemoveDomain, Delete
    <3>3. CASE ~(<<"domains", d, ns>> \in tree /\ ns \in namespaces)
      BY <2>2, <3>3 DEF RemoveDomain
    <3> QED
      BY <3>2, <3>3
  <2>3. ASSUME NEW l \in Lookup, GetDomainsByPriority(l)
        PROVE  TypeOK'
    BY <2>3 DEF GetDomainsByPriority
  <2>4. ASSUME NEW l \in Lookup, CacheDomains(l)
        PROVE  TypeOK'
    <3>1. late' \in BOOLEAN
      BY <2>4 DEF CacheDomains
    <3> QED
      BY <2>4, <3>1 DEF CacheDomains
  <2> QED
    BY <1>6, <2>1, <2>2, <2>3, <2>4 DEF DomainNext
<1>7. CASE CollectionNext
  BY <1>7 DEF CollectionNext, AddCollection, RemoveCollection, Insert, Delete
<1>8. CASE SecretNext
  BY <1>8 DEF SecretNext, AddSecret, RemoveSecret, Insert, Delete
<1> QED
  BY <1>1, <1>2, <1>3, <1>4, <1>5, <1>6, <1>7, <1>8 DEF Next

\* The trees, edges and values keep their types in every reachable state.
THEOREM TypeCorrect == Spec => []TypeOK
  BY InitTyped, NextTyped, PTL DEF Spec

-----------------------------------------------------------------------------
(* The links.  First what the shared helpers keep, then one lemma for each *)
(* operation that changes the links of routes, services and modules.       *)

LEMMA RefuseKeepsLinks ==
  ASSUME Links, UNCHANGED state
  PROVE  Links'
  BY DEF Links, NamespaceLinksExact, ServiceEndsAgree, OneServicePerRoute,
         RouteReferencesHold, ModuleBackEdgesCovered, state, graphVars

LEMMA InsertKeepsLinks ==
  ASSUME IInv, NEW k \in Kind \ {"routes"}, NEW n \in Name, NEW ns \in namespaces,
         Insert(<<k, n, ns>>), UNCHANGED <<namespaces, graphVars>>
  PROVE  Links'
<1> USE DEF IInv, TypeOK, Links, Resource, Edge, Kind, graphVars, Insert
<1>1. NamespaceLinksExact'
  BY DEF NamespaceLinksExact
<1>2. ServiceEndsAgree' /\ OneServicePerRoute' /\ ModuleBackEdgesCovered'
  BY DEF ServiceEndsAgree, OneServicePerRoute, ModuleBackEdgesCovered
<1>3. RouteReferencesHold'
  <2>1. tree \subseteq tree' /\ \A x \in tree' : x[1] = "routes" => x \in tree
    OBVIOUS
  <2> QED
    BY <2>1 DEF RouteReferencesHold
<1> QED
  BY <1>1, <1>2, <1>3

LEMMA DeleteKeepsLinks ==
  ASSUME IInv, NEW k \in {"domains", "collections", "secrets"}, NEW n \in Name,
         NEW ns \in Namespace, Delete(<<k, n, ns>>), UNCHANGED <<namespaces, graphVars>>
  PROVE  Links'
<1> USE DEF IInv, TypeOK, Links, Resource, Edge, Kind, graphVars, Delete
<1>1. NamespaceLinksExact'
  BY DEF NamespaceLinksExact
<1>2. ServiceEndsAgree' /\ OneServicePerRoute' /\ ModuleBackEdgesCovered'
  BY DEF ServiceEndsAgree, OneServicePerRoute, ModuleBackEdgesCovered
<1>3. RouteReferencesHold'
  BY DEF RouteReferencesHold
<1> QED
  BY <1>1, <1>2, <1>3

LEMMA NamespaceKeepsLinks ==
  ASSUME IInv, NamespaceNext
  PROVE  Links'
<1> USE DEF IInv, TypeOK, Links, Resource, graphVars
<1>1. ASSUME NEW ns \in Namespace, AddNamespace(ns)
      PROVE  Links'
  BY <1>1 DEF AddNamespace, NamespaceLinksExact, ServiceEndsAgree, OneServicePerRoute,
              RouteReferencesHold, ModuleBackEdgesCovered
<1>2. ASSUME NEW ns \in Namespace, RemoveNamespace(ns)
      PROVE  Links'
  <2>1. CASE NamespaceRemovable(ns)
    <3>1. NamespaceLinksExact'
      BY <1>2, <2>1 DEF RemoveNamespace, NamespaceRemovable, HasLinks, NamespaceLinksExact
    <3> QED
      BY <1>2, <2>1, <3>1 DEF RemoveNamespace, ServiceEndsAgree, OneServicePerRoute,
             RouteReferencesHold, ModuleBackEdgesCovered
  <2>2. CASE ~NamespaceRemovable(ns)
    BY <1>2, <2>2, RefuseKeepsLinks DEF RemoveNamespace, Refuse
  <2> QED
    BY <2>1, <2>2
<1> QED
  BY <1>1, <1>2 DEF NamespaceNext

\* A service is removed only when no route's value names it.
LEMMA ServiceKeepsLinks ==
  ASSUME IInv, ServiceNext
  PROVE  Links'
<1>1. PICK s \in Names["services"], ns \in Namespace :
        AddService(s, ns) \/ RemoveService(s, ns)
  BY DEF ServiceNext
<1>2. s \in Name
  BY NamesAssumption DEF Kind
<1>3. CASE AddService(s, ns) /\ ns \in namespaces
  BY <1>2, <1>3, InsertKeepsLinks DEF AddService, Kind
<1>4. CASE RemoveService(s, ns) /\ Delete(<<"services", s, ns>>)
           /\ OfTarget(svcRoutes, s, ns) = {} /\ UNCHANGED <<namespaces, graphVars>>
  <2> USE <1>2, <1>4 DEF IInv, TypeOK, Links, Resource, Edge, Kind, graphVars, Delete, OfTarget
  <2>1. NamespaceLinksExact'
    BY DEF NamespaceLinksExact
  <2>2. ServiceEndsAgree' /\ OneServicePerRoute' /\ ModuleBackEdgesCovered'
    BY DEF ServiceEndsAgree, OneServicePerRoute, ModuleBackEdgesCovered
  <2>3. RouteReferencesHold'
    <3>1. \A x \in tree' : x \in tree
      OBVIOUS
    <3>2. \A x \in tree : x = <<"services", s, ns>> \/ x \in tree'
      OBVIOUS
    <3>3. \A r \in Name : <<r, s, ns>> \notin rtService
      BY DEF ServiceEndsAgree
    <3> QED
      BY <3>1, <3>2, <3>3 DEF RouteReferencesHold
  <2> QED
    BY <2>1, <2>2, <2>3
<1>5. CASE UNCHANGED state
  BY <1>5, RefuseKeepsLinks DEF IInv
<1> QED
  BY <1>1, <1>3, <1>4, <1>5 DEF AddService, RemoveService, Refuse

\* A module is removed only when no route's value names it; edges that routes
\* kept from an earlier value become stale.
LEMMA ModuleKeepsLinks ==
  ASSUME IInv, ModuleNext
  PROVE  Links'
<1>1. PICK m \in Names["modules"], ns \in Namespace :
        (\E decoded \in BOOLEAN : AddModule(m, ns, decoded)) \/ RemoveModule(m, ns)
  BY DEF ModuleNext
<1>2. m \in Name
  BY NamesAssumption DEF Kind
<1>3. ASSUME NEW decoded \in BOOLEAN, AddModule(m, ns, decoded)
      PROVE  Links'
  <2>1. CASE ns \in namespaces /\ decoded
    BY <1>2, <1>3, <2>1, InsertKeepsLinks DEF AddModule, Kind
  <2>2. CASE ~(ns \in namespaces /\ decoded)
    BY <1>3, <2>2, RefuseKeepsLinks DEF AddModule, Refuse, IInv
  <2> QED
    BY <2>1, <2>2
<1>4. ASSUME RemoveModule(m, ns), ModuleRemovable(m, ns)
      PROVE  Links'
  <2> DEFINE x0 == <<"modules", m, ns>>
             gone == OfTarget(rtModules, m, ns)
  <2>0. /\ Delete(x0)
        /\ rtModules' = rtModules \ gone
        /\ rtStale' = rtStale \cup gone
        /\ UNCHANGED <<namespaces, rtItem, rtService, svcRoutes, modRoutes>>
        /\ OfTarget(modRoutes, m, ns) = {}
    BY <1>4 DEF RemoveModule, ModuleRemovable
  <2> USE <1>2, <2>0 DEF IInv, TypeOK, Links, Resource, Edge, Kind, Delete, OfTarget
  <2>1. NamespaceLinksExact'
    BY DEF NamespaceLinksExact
  <2>2. \A x \in tree : x = x0 \/ x \in tree'
    OBVIOUS
  <2>3. ServiceEndsAgree' /\ OneServicePerRoute'
    BY <2>2 DEF ServiceEndsAgree, OneServicePerRoute
  <2>4. ModuleBackEdgesCovered'
    BY <2>2 DEF ModuleBackEdgesCovered
  <2>5. \A r \in Name : <<r, m, ns>> \notin modRoutes
    OBVIOUS
  <2>6. RouteReferencesHold'
    <3>1. SUFFICES ASSUME NEW x \in tree', x[1] = "routes"
                   PROVE  LET it == rtItem[<<x[2], x[3]>>]
                          IN /\ it.service # NoService =>
                                  /\ <<"services", it.service, x[3]>> \in tree'
                                  /\ <<x[2], it.service, x[3]>> \in rtService
                             /\ \A n \in it.modules :
                                  /\ <<"modules", n, x[3]>> \in tree'
                                  /\ <<x[2], n, x[3]>> \in modRoutes
                                  /\ <<x[2], n, x[3]>> \in rtModules'
      BY DEF RouteReferencesHold
    <3> QED
      BY <2>2, <2>5, <3>1 DEF RouteReferencesHold
  <2> QED
    BY <2>1, <2>3, <2>4, <2>6
<1>5. CASE RemoveModule(m, ns) /\ ~ModuleRemovable(m, ns)
  BY <1>5, RefuseKeepsLinks DEF RemoveModule, Refuse, IInv
<1> QED
  BY <1>1, <1>3, <1>4, <1>5

\* AddRoute, new or over an existing route.  A new route has no edges; over an
\* existing one, a service in the request replaces all of the route's edges at
\* its service and modules, and no service in it leaves them where they are.
LEMMA AddRouteKeepsLinks ==
  ASSUME IInv, NEW r \in Name, NEW ns \in Namespace,
         NEW s \in Name \cup {NoService}, NEW M \in SUBSET Name,
         AddRoute(r, ns, s, M), RouteResolves(ns, s, M)
  PROVE  Links'
<1> DEFINE x0 == <<"routes", r, ns>>
           oldSvc == IF Relinks(r, ns, s) THEN OfRoute(rtService, r, ns) ELSE {}
           oldMod == IF Relinks(r, ns, s) THEN OfRoute(rtModules, r, ns) ELSE {}
           newSvc == IF s = NoService THEN {} ELSE {<<r, s, ns>>}
           newMod == {<<r, m, ns>> : m \in M}
           new == [service |-> s, modules |-> M]
<1>1. /\ rtService' = (rtService \ oldSvc) \cup newSvc
      /\ svcRoutes' = (svcRoutes \ oldSvc) \cup newSvc
      /\ modRoutes' = (modRoutes \ oldMod) \cup newMod
      /\ rtModules' = rtModules \cup newMod
      /\ rtStale' = rtStale \ newMod
      /\ rtItem' = [rtItem EXCEPT ![<<r, ns>>] = new]
      /\ tree' = tree \cup {x0}
      /\ nsLinks' = nsLinks \cup {x0}
      /\ backLinks' = backLinks \cup {x0}
      /\ namespaces' = namespaces
  BY DEF AddRoute, UnlinkedServices, UnlinkedModules
<1>2. /\ ns \in namespaces
      /\ s # NoService => <<"services", s, ns>> \in tree
      /\ \A m \in M : <<"modules", m, ns>> \in tree
  BY DEF RouteResolves
<1> USE DEF IInv, TypeOK, Links, Resource, Edge, Kind
<1>3. NamespaceLinksExact'
  BY <1>1, <1>2 DEF NamespaceLinksExact
<1>4. ServiceEndsAgree'
  <2>1. rtService' = svcRoutes'
    BY <1>1 DEF ServiceEndsAgree
  <2>2. \A e \in rtService' : e \in rtService \/ (s # NoService /\ e = <<r, s, ns>>)
    BY <1>1
  <2>3. tree \subseteq tree' /\ x0 \in tree'
    BY <1>1
  <2> QED
    BY <1>2, <2>1, <2>2, <2>3 DEF ServiceEndsAgree
<1>5. OneServicePerRoute'
  <2>1. CASE s = NoService
    BY <1>1, <2>1 DEF OneServicePerRoute, Relinks
  <2>2. CASE s # NoService
    <3>1. \A e \in rtService \ oldSvc : ~(e[1] = r /\ e[3] = ns)
      BY <2>2 DEF ServiceEndsAgree, Relinks, OfRoute
    <3>2. rtService' = (rtService \ oldSvc) \cup {<<r, s, ns>>}
      BY <1>1, <2>2
    <3> QED
      BY <3>1, <3>2 DEF OneServicePerRoute
  <2> QED
    BY <2>1, <2>2
<1>6. ModuleBackEdgesCovered'
  <2>1. modRoutes' \subseteq rtModules' /\ rtModules' \cap rtStale' = {}
    BY <1>1 DEF ModuleBackEdgesCovered
  <2>2. \A e \in rtModules' : e \in rtModules \/ \E m \in M : e = <<r, m, ns>>
    BY <1>1
  <2>3. tree \subseteq tree' /\ x0 \in tree'
    BY <1>1
  <2> QED
    BY <1>2, <2>1, <2>2, <2>3 DEF ModuleBackEdgesCovered
<1>7. RouteReferencesHold'
  <2>1. SUFFICES ASSUME NEW x \in tree', x[1] = "routes"
                 PROVE  LET it == rtItem'[<<x[2], x[3]>>]
                        IN /\ it.service # NoService =>
                                /\ <<"services", it.service, x[3]>> \in tree'
                                /\ <<x[2], it.service, x[3]>> \in rtService'
                           /\ \A n \in it.modules :
                                /\ <<"modules", n, x[3]>> \in tree'
                                /\ <<x[2], n, x[3]>> \in modRoutes'
                                /\ <<x[2], n, x[3]>> \in rtModules'
    BY DEF RouteReferencesHold
  <2>2. CASE x = x0
    <3>1. rtItem'[<<r, ns>>] = new
      BY <1>1 DEF Key
    <3> QED
      BY <1>1, <1>2, <2>2, <3>1
  <2>3. CASE x # x0
    <3>1. x \in tree /\ (x[2] # r \/ x[3] # ns)
      BY <1>1, <2>1, <2>3
    <3>2. rtItem'[<<x[2], x[3]>>] = rtItem[<<x[2], x[3]>>]
      BY <1>1, <3>1 DEF Key
    <3>3. \A n \in Name : /\ <<x[2], n, x[3]>> \notin oldSvc
                          /\ <<x[2], n, x[3]>> \notin oldMod
      BY <3>1 DEF OfRoute
    <3>4. /\ rtItem[<<x[2], x[3]>>].modules \subseteq Name
          /\ rtItem[<<x[2], x[3]>>].service \in Name \cup {NoService}
      BY <3>1 DEF Key, Item
    <3> DEFINE it == rtItem[<<x[2], x[3]>>]
    <3>5. /\ it.service # NoService =>
               /\ <<"services", it.service, x[3]>> \in tree
               /\ <<x[2], it.service, x[3]>> \in rtService
          /\ \A n \in it.modules : /\ <<"modules", n, x[3]>> \in tree
                                   /\ <<x[2], n, x[3]>> \in modRoutes
                                   /\ <<x[2], n, x[3]>> \in rtModules
      BY <2>1, <3>1 DEF RouteReferencesHold
    <3> HIDE DEF it, oldSvc, oldMod, newSvc, newMod, new
    <3>6. /\ tree \subseteq tree' /\ rtModules \subseteq rtModules'
          /\ rtService \ oldSvc \subseteq rtService'
          /\ modRoutes \ oldMod \subseteq modRoutes'
      BY <1>1
    <3>7. it.modules \subseteq Name /\ it.service \in Name \cup {NoService}
      BY <3>4 DEF it
    <3>8. /\ it.service # NoService =>
               /\ <<"services", it.service, x[3]>> \in tree'
               /\ <<x[2], it.service, x[3]>> \in rtService'
          /\ \A n \in it.modules : /\ <<"modules", n, x[3]>> \in tree'
                                   /\ <<x[2], n, x[3]>> \in modRoutes'
                                   /\ <<x[2], n, x[3]>> \in rtModules'
      BY <3>3, <3>5, <3>6, <3>7
    <3> QED
      BY <3>2, <3>8 DEF it
  <2> QED
    BY <2>2, <2>3
<1> QED
  BY <1>3, <1>4, <1>5, <1>6, <1>7

LEMMA RemoveRouteKeepsLinks ==
  ASSUME IInv, NEW r \in Name, NEW ns \in Namespace,
         RemoveRoute(r, ns), RouteRemovable(r, ns)
  PROVE  Links'
<1> DEFINE x0 == <<"routes", r, ns>>
<1>1. /\ Delete(x0)
      /\ rtService' = rtService \ OfRoute(rtService, r, ns)
      /\ svcRoutes' = svcRoutes \ OfRoute(rtService, r, ns)
      /\ modRoutes' = modRoutes \ OfRoute(rtModules, r, ns)
      /\ rtModules' = rtModules \ OfRoute(rtModules, r, ns)
      /\ rtStale' = rtStale \ OfRoute(rtStale, r, ns)
      /\ rtItem' = [rtItem EXCEPT ![<<r, ns>>] = NoItem]
      /\ namespaces' = namespaces
  BY DEF RemoveRoute, UnlinkedServices, UnlinkedModules
<1> USE DEF IInv, TypeOK, Links, Resource, Edge, Kind, Delete
<1>2. NamespaceLinksExact'
  BY <1>1 DEF NamespaceLinksExact
<1>3. \A x \in tree : x = x0 \/ x \in tree'
  BY <1>1
<1>4. ServiceEndsAgree' /\ OneServicePerRoute'
  BY <1>1, <1>3 DEF ServiceEndsAgree, OneServicePerRoute, OfRoute
<1>5. ModuleBackEdgesCovered'
  BY <1>1, <1>3 DEF ModuleBackEdgesCovered, OfRoute
<1>6. RouteReferencesHold'
  <2>1. SUFFICES ASSUME NEW x \in tree', x[1] = "routes"
                 PROVE  LET it == rtItem'[<<x[2], x[3]>>]
                        IN /\ it.service # NoService =>
                                /\ <<"services", it.service, x[3]>> \in tree'
                                /\ <<x[2], it.service, x[3]>> \in rtService'
                           /\ \A n \in it.modules :
                                /\ <<"modules", n, x[3]>> \in tree'
                                /\ <<x[2], n, x[3]>> \in modRoutes'
                                /\ <<x[2], n, x[3]>> \in rtModules'
    BY DEF RouteReferencesHold
  <2>2. x \in tree /\ x # x0 /\ (x[2] # r \/ x[3] # ns)
    BY <1>1, <2>1
  <2>3. rtItem'[<<x[2], x[3]>>] = rtItem[<<x[2], x[3]>>]
    BY <1>1, <2>2 DEF Key
  <2> DEFINE it == rtItem[<<x[2], x[3]>>]
  <2>4. /\ it.service # NoService =>
             /\ <<"services", it.service, x[3]>> \in tree
             /\ <<x[2], it.service, x[3]>> \in rtService
        /\ \A n \in it.modules : /\ <<"modules", n, x[3]>> \in tree
                                 /\ <<x[2], n, x[3]>> \in modRoutes
                                 /\ <<x[2], n, x[3]>> \in rtModules
    BY <2>1, <2>2 DEF RouteReferencesHold
  <2>5. \A E, n : <<x[2], n, x[3]>> \notin OfRoute(E, r, ns)
    BY <2>2 DEF OfRoute
  <2> HIDE DEF it
  <2>6. /\ it.service # NoService =>
             /\ <<"services", it.service, x[3]>> \in tree'
             /\ <<x[2], it.service, x[3]>> \in rtService'
        /\ \A n \in it.modules : /\ <<"modules", n, x[3]>> \in tree'
                                 /\ <<x[2], n, x[3]>> \in modRoutes'
                                 /\ <<x[2], n, x[3]>> \in rtModules'
    BY <1>1, <1>3, <2>4, <2>5
  <2> QED
    BY <2>3, <2>6 DEF it
<1> QED
  BY <1>2, <1>4, <1>5, <1>6

LEMMA RouteKeepsLinks ==
  ASSUME IInv, RouteNext
  PROVE  Links'
<1> USE NamesAssumption DEF Kind
<1>1. ASSUME NEW r \in Names["routes"], NEW ns \in Namespace,
             NEW s \in Names["services"] \cup {NoService},
             NEW M \in SUBSET Names["modules"], AddRoute(r, ns, s, M)
      PROVE  Links'
  <2>1. r \in Name /\ s \in Name \cup {NoService} /\ M \in SUBSET Name
    OBVIOUS
  <2>2. CASE RouteResolves(ns, s, M)
    BY <1>1, <2>1, <2>2, AddRouteKeepsLinks
  <2>3. CASE ~RouteResolves(ns, s, M)
    BY <1>1, <2>3, RefuseKeepsLinks DEF AddRoute, Refuse, IInv
  <2> QED
    BY <2>2, <2>3
<1>2. ASSUME NEW r \in Names["routes"], NEW ns \in Namespace, RemoveRoute(r, ns)
      PROVE  Links'
  <2>1. r \in Name
    OBVIOUS
  <2>2. CASE RouteRemovable(r, ns)
    BY <1>2, <2>1, <2>2, RemoveRouteKeepsLinks
  <2>3. CASE ~RouteRemovable(r, ns)
    BY <1>2, <2>3, RefuseKeepsLinks DEF RemoveRoute, Refuse, IInv
  <2> QED
    BY <2>2, <2>3
<1> QED
  BY <1>1, <1>2 DEF RouteNext

\* Domains, collections and secrets have no edges but those to their namespace.
LEMMA OtherKeepsLinks ==
  ASSUME IInv, DomainNext \/ CollectionNext \/ SecretNext
  PROVE  Links'
<1> USE NamesAssumption DEF Kind
<1>1. ASSUME NEW k \in {"domains", "collections", "secrets"}, NEW n \in Names[k],
             NEW ns \in Namespace, UNCHANGED <<namespaces, graphVars>>,
             \/ ns \in namespaces /\ Insert(<<k, n, ns>>)
             \/ Delete(<<k, n, ns>>)
             \/ UNCHANGED <<tree, nsLinks, backLinks>>
      PROVE  Links'
  <2>1. n \in Name
    OBVIOUS
  <2>2. CASE UNCHANGED <<tree, nsLinks, backLinks>>
    BY <1>1, <2>2 DEF IInv, Links, NamespaceLinksExact, ServiceEndsAgree, OneServicePerRoute,
                RouteReferencesHold, ModuleBackEdgesCovered, graphVars
  <2> QED
    BY <1>1, <2>1, <2>2, InsertKeepsLinks, DeleteKeepsLinks
<1> USE DEF state
<1>2. ASSUME NEW d \in Names["domains"], NEW ns \in Namespace,
             (\E p \in Priority : AddDomain(d, ns, p)) \/ RemoveDomain(d, ns)
      PROVE  Links'
  BY <1>1, <1>2 DEF AddDomain, RemoveDomain, Refuse
<1>3. ASSUME NEW l \in Lookup, GetDomainsByPriority(l) \/ CacheDomains(l)
      PROVE  Links'
  BY <1>3 DEF GetDomainsByPriority, CacheDomains, IInv, Links, NamespaceLinksExact, ServiceEndsAgree,
              OneServicePerRoute, RouteReferencesHold, ModuleBackEdgesCovered, graphVars
<1>4. ASSUME NEW c \in Names["collections"], NEW ns \in Namespace,
             (\E b \in BOOLEAN : AddCollection(c, ns, b)) \/ RemoveCollection(c, ns)
      PROVE  Links'
  BY <1>1, <1>4 DEF AddCollection, RemoveCollection, Refuse
<1>5. ASSUME NEW c \in Names["secrets"], NEW ns \in Namespace,
             (\E b \in BOOLEAN : AddSecret(c, ns, b)) \/ RemoveSecret(c, ns)
      PROVE  Links'
  BY <1>1, <1>5 DEF AddSecret, RemoveSecret, Refuse
<1> QED
  BY <1>2, <1>3, <1>4, <1>5 DEF DomainNext, CollectionNext, SecretNext

LEMMA InitLinks == NewManager => Links
  BY DEF NewManager, Links, NamespaceLinksExact, ServiceEndsAgree, OneServicePerRoute,
         RouteReferencesHold, ModuleBackEdgesCovered

LEMMA NextLinks ==
  ASSUME IInv, [Next]_vars
  PROVE  IInv'
<1>1. TypeOK'
  BY NextTyped DEF IInv
<1>2. Links'
  <2>1. CASE UNCHANGED vars
    BY <2>1, RefuseKeepsLinks DEF vars, IInv
  <2>2. CASE Next
    BY <2>2, NamespaceKeepsLinks, ServiceKeepsLinks, ModuleKeepsLinks,
       RouteKeepsLinks, OtherKeepsLinks DEF Next
  <2> QED
    BY <2>1, <2>2
<1> QED
  BY <1>1, <1>2 DEF IInv

LEMMA Inductive == Spec => []IInv
<1>1. NewManager => IInv
  BY InitTyped, InitLinks DEF IInv
<1> QED
  BY <1>1, NextLinks, PTL DEF Spec

\* No operation leaves a dangling edge between a namespace and its resources:
\* the trees and the per-namespace listings always agree.
THEOREM NamespaceLinksAlwaysExact == Spec => []NamespaceLinksExact
  BY Inductive, PTL DEF IInv, Links

\* What a route was given last, service and modules, exists and is linked at
\* both ends for as long as the route does.
THEOREM RouteReferencesAlwaysHold == Spec => []RouteReferencesHold
  BY Inductive, PTL DEF IInv, Links

\* relinkRoute and unlinkRoute never meet a second service edge, so they never
\* panic, and the service sees the edges that the routes have.
THEOREM ServiceEdgesAlwaysAgree == Spec => []ServiceEdgesAgree
  BY Inductive, PTL DEF IInv, Links, ServiceEdgesAgree

\* RemoveRoute reaches every module that counts the route as a user.
THEOREM ModuleBackEdgesAlwaysCovered == Spec => []ModuleBackEdgesCovered
  BY Inductive, PTL DEF IInv, Links

-----------------------------------------------------------------------------
(* The cache of the domains by priority *)

LEMMA SameDomains ==
  ASSUME domPriority' = domPriority,
         {y \in tree' : y[1] = "domains"} = {y \in tree : y[1] = "domains"}
  PROVE  DomainRecords' = DomainRecords
  BY DEF DomainRecords

\* What a lookup that nothing has overtaken is about to cache is up to date.
LookupsFresh ==
    /\ overtaken \subseteq looking /\ looking \subseteq Lookup
    /\ DOMAIN listed = Lookup
    /\ \A l \in looking \ overtaken : listed[l] \in SortedListings(DomainRecords)

CacheInv == DomainCacheFresh /\ LookupsFresh

\* A step that touches no domain, no lookup and not the cache.
LEMMA ForeignStepKeepsCache ==
  ASSUME CacheInv, UNCHANGED domainVars,
         {y \in tree' : y[1] = "domains"} = {y \in tree : y[1] = "domains"}
  PROVE  CacheInv'
<1>1. DomainRecords' = DomainRecords
  BY SameDomains DEF domainVars
<1>2. SortedListings(DomainRecords)' = SortedListings(DomainRecords)
  BY <1>1 DEF SortedListings, Before
<1>3. UNCHANGED <<domainCache, looking, listed, overtaken, late>>
  BY DEF domainVars, lookupVars
<1> QED
  BY <1>2, <1>3 DEF CacheInv, DomainCacheFresh, LookupsFresh

\* A change of the domains empties the cache and overtakes every lookup.
LEMMA ChangeKeepsCache ==
  ASSUME CacheInv, ResetCache, Overtake
  PROVE  CacheInv'
  BY DEF CacheInv, DomainCacheFresh, LookupsFresh, ResetCache, Overtake

LEMMA LookupKeepsCache ==
  ASSUME CacheInv, NEW l \in Lookup, GetDomainsByPriority(l) \/ CacheDomains(l)
  PROVE  CacheInv'
<1>1. DomainRecords' = DomainRecords
  BY SameDomains DEF GetDomainsByPriority, CacheDomains
<1>2. SortedListings(DomainRecords)' = SortedListings(DomainRecords)
  BY <1>1 DEF SortedListings, Before
<1>3. PICK S : S = SortedListings(DomainRecords)
  OBVIOUS
<1>4. CASE GetDomainsByPriority(l) /\ domainCache # <<>>
  BY <1>2, <1>4 DEF GetDomainsByPriority, CacheInv, DomainCacheFresh, LookupsFresh, lookupVars
<1>5. CASE GetDomainsByPriority(l) /\ domainCache = <<>>
  <2>1. /\ looking' = looking \cup {l} /\ l \notin looking
        /\ \E s \in S : listed' = [listed EXCEPT ![l] = s]
        /\ UNCHANGED <<overtaken, late, domainCache>>
    BY <1>3, <1>5 DEF GetDomainsByPriority
  <2>2. \A m \in looking' \ overtaken' : listed'[m] \in S
    BY <1>3, <2>1 DEF CacheInv, LookupsFresh
  <2>3. DOMAIN listed' = Lookup
    BY <2>1 DEF CacheInv, LookupsFresh
  <2> QED
    BY <1>2, <1>3, <1>5, <2>1, <2>2, <2>3 DEF CacheInv, DomainCacheFresh, LookupsFresh
<1>6. CASE CacheDomains(l)
  <2>1. /\ l \in looking /\ domainCache' = listed[l] /\ late' = (l \in overtaken)
        /\ looking' = looking \ {l} /\ overtaken' = overtaken \ {l}
        /\ listed' = [listed EXCEPT ![l] = <<>>]
    BY <1>6 DEF CacheDomains
  <2>2. DomainCacheFresh'
    BY <1>2, <2>1 DEF CacheInv, DomainCacheFresh, LookupsFresh
  <2>3. \A m \in looking' \ overtaken' : m # l /\ listed'[m] = listed[m] /\ m \in looking \ overtaken
    BY <2>1 DEF CacheInv, LookupsFresh
  <2>4. \A m \in looking' \ overtaken' : listed'[m] \in S
    BY <1>3, <2>3 DEF CacheInv, LookupsFresh
  <2> QED
    BY <1>2, <1>3, <2>1, <2>2, <2>4 DEF CacheInv, LookupsFresh
<1> QED
  BY <1>4, <1>5, <1>6

LEMMA NextKeepsCache ==
  ASSUME CacheInv, [Next]_vars
  PROVE  CacheInv'
<1> USE DEF state, Refuse
<1>1. CASE UNCHANGED vars
  BY <1>1, ForeignStepKeepsCache DEF vars
<1>2. CASE NamespaceNext
  BY <1>2, ForeignStepKeepsCache DEF NamespaceNext, AddNamespace, RemoveNamespace
<1>3. CASE ServiceNext
  BY <1>3, ForeignStepKeepsCache DEF ServiceNext, AddService, RemoveService, Insert, Delete
<1>4. CASE ModuleNext
  BY <1>4, ForeignStepKeepsCache DEF ModuleNext, AddModule, RemoveModule, Insert, Delete
<1>5. CASE RouteNext
  <2>1. ASSUME NEW r, NEW ns, NEW s, NEW M, AddRoute(r, ns, s, M)
        PROVE  CacheInv'
    <3>1. UNCHANGED domainVars
      BY <2>1 DEF AddRoute
    <3>2. tree' = tree \cup {<<"routes", r, ns>>} \/ tree' = tree
      BY <2>1 DEF AddRoute
    <3> QED
      BY <3>1, <3>2, ForeignStepKeepsCache
  <2>2. ASSUME NEW r, NEW ns, RemoveRoute(r, ns)
        PROVE  CacheInv'
    BY <2>2, ForeignStepKeepsCache DEF RemoveRoute, Delete
  <2> QED
    BY <1>5, <2>1, <2>2 DEF RouteNext
<1>6. CASE DomainNext
  <2>1. ASSUME NEW d, NEW ns, NEW p, AddDomain(d, ns, p)
        PROVE  CacheInv'
    <3>1. CASE ns \in namespaces
      BY <2>1, <3>1, ChangeKeepsCache DEF AddDomain
    <3>2. CASE ns \notin namespaces
      BY <2>1, <3>2, ForeignStepKeepsCache DEF AddDomain
    <3> QED
      BY <3>1, <3>2
  <2>2. ASSUME NEW d, NEW ns, RemoveDomain(d, ns)
        PROVE  CacheInv'
    <3>1. CASE Overtake
      BY <2>2, <3>1, ChangeKeepsCache DEF RemoveDomain
    <3>2. CASE UNCHANGED <<tree, domPriority, looking, listed, overtaken>>
      <4>1. SortedListings(DomainRecords)' = SortedListings(DomainRecords)
        BY <3>2 DEF SortedListings, Before, DomainRecords
      <4> QED
        BY <2>2, <3>2, <4>1 DEF RemoveDomain, ResetCache, CacheInv, DomainCacheFresh, LookupsFresh
    <3> QED
      BY <2>2, <3>1, <3>2 DEF RemoveDomain
  <2> QED
    BY <1>6, <2>1, <2>2, LookupKeepsCache DEF DomainNext
<1>7. CASE CollectionNext
  <2>1. ASSUME NEW c, NEW ns, NEW b, AddCollection(c, ns, b)
        PROVE  CacheInv'
    BY <2>1, ForeignStepKeepsCache DEF AddCollection, Insert
  <2>2. ASSUME NEW c, NEW ns, RemoveCollection(c, ns)
        PROVE  CacheInv'
    BY <2>2, ForeignStepKeepsCache DEF RemoveCollection, Delete
  <2> QED
    BY <1>7, <2>1, <2>2 DEF CollectionNext
<1>8. CASE SecretNext
  BY <1>8, ForeignStepKeepsCache DEF SecretNext, AddSecret, RemoveSecret, Insert, Delete
<1> QED
  BY <1>1, <1>2, <1>3, <1>4, <1>5, <1>6, <1>7, <1>8 DEF Next

\* Any number of lookups interleave with the changes of the domains: the cached
\* list is out of date only if the lookup that stored it was overtaken by one.
THEOREM DomainCacheAlwaysFresh == Spec => []DomainCacheFresh
<1>1. NewManager => CacheInv
  BY DEF NewManager, CacheInv, DomainCacheFresh, LookupsFresh
<1>2. CacheInv => DomainCacheFresh
  BY DEF CacheInv
<1> QED
  BY <1>1, <1>2, NextKeepsCache, PTL DEF Spec

-----------------------------------------------------------------------------
(* The lock that the operations run under: any number of goroutines, keys    *)
(* and mutexes.                                                              *)

KeyOps == {"Lock", "RLock"}

\* Nobody replaces the mutex of a key that was in the map from the start.
WarmKept ==
    /\ \A k \in Warm : locks[k] = WarmLock[k]
    /\ \A p \in Goroutine : stage[p] = "create" => key[p] \notin Warm

\* Who comes with such a key waits for, and holds, that mutex.
WarmFound ==
    \A p \in Goroutine : (stage[p] \in {"wait", "held"} /\ op[p] \in KeyOps /\ key[p] \in Warm)
                        => mtx[p] = WarmLock[key[p]]

\* A writer is the only holder of its mutex.
MutexExclusive ==
    \A p, q \in Goroutine : (p # q /\ stage[p] = "held" /\ stage[q] = "held"
                        /\ op[p] = "Lock" /\ op[q] \in KeyOps) => mtx[p] # mtx[q]

LockIInv == LockTypeOK /\ WarmKept /\ WarmFound /\ MutexExclusive

-----------------------------------------------------------------------------
LEMMA WarmTypes == \A k \in Warm : k \in LockKey /\ WarmLock[k] \in Mutex /\ WarmLock[k] # NoMutex
  BY KeyLockAssumption

LEMMA LockInitInv == LockInit => LockIInv
  <1> SUFFICES ASSUME LockInit PROVE LockIInv
    OBVIOUS
  <1>1. LockTypeOK
    BY WarmTypes DEF LockInit, LockTypeOK, Calls
  <1>2. WarmKept /\ WarmFound /\ MutexExclusive
    BY WarmTypes DEF LockInit, WarmKept, WarmFound, MutexExclusive
  <1> QED
    BY <1>1, <1>2 DEF LockIInv

LEMMA CallKeeps ==
  ASSUME LockIInv, NEW p \in Goroutine, Call(p)
  PROVE  LockIInv'
  <1>1. PICK o \in Ops, k \in LockKey :
            /\ op' = [op EXCEPT ![p] = o] /\ key' = [key EXCEPT ![p] = k]
            /\ stage' = [stage EXCEPT ![p] = IF o \in KeyOps THEN "find" ELSE "wait"]
    BY DEF Call, LockGoto, KeyOps
  <1>2. UNCHANGED <<locks, allocated, mtx>> /\ o \in Calls
    BY KeyLockAssumption DEF Call
  <1>3. LockTypeOK'
    BY <1>1, <1>2 DEF LockIInv, LockTypeOK
  <1>4. WarmKept'
    BY <1>1, <1>2 DEF LockIInv, LockTypeOK, WarmKept
  <1>5. WarmFound'
    BY <1>1, <1>2 DEF LockIInv, LockTypeOK, WarmFound, KeyOps
  <1>6. MutexExclusive'
    BY <1>1, <1>2 DEF LockIInv, LockTypeOK, MutexExclusive
  <1> QED
    BY <1>3, <1>4, <1>5, <1>6 DEF LockIInv

\* The mutex found for a key of Warm is its own, and a miss is of another key.
LEMMA findLockKeeps ==
  ASSUME LockIInv, NEW p \in Goroutine, findLock(p)
  PROVE  LockIInv'
  <1>1. UNCHANGED <<locks, allocated, op, key>> /\ stage[p] = "find"
    BY DEF findLock
  <1>2. \/ /\ mtx' = [mtx EXCEPT ![p] = locks[key[p]]]
           /\ stage' = [stage EXCEPT ![p] = "wait"]
        \/ locks[key[p]] = NoMutex /\ mtx' = mtx /\ stage' = [stage EXCEPT ![p] = "create"]
    BY DEF findLock, LockGoto
  <1>3. LockTypeOK'
    BY <1>1, <1>2 DEF LockIInv, LockTypeOK
  <1>4. WarmKept'
    BY <1>1, <1>2, WarmTypes DEF LockIInv, LockTypeOK, WarmKept
  <1>5. WarmFound'
    BY <1>1, <1>2 DEF LockIInv, LockTypeOK, WarmKept, WarmFound
  <1>6. MutexExclusive'
    BY <1>1, <1>2 DEF LockIInv, LockTypeOK, MutexExclusive
  <1> QED
    BY <1>3, <1>4, <1>5, <1>6 DEF LockIInv

\* The map changes only at a key outside Warm.
LEMMA createLockKeeps ==
  ASSUME LockIInv, NEW p \in Goroutine, createLock(p)
  PROVE  LockIInv'
  <1>1. PICK m \in Mutex \ allocated :
            /\ locks' = [locks EXCEPT ![key[p]] = m] /\ allocated' = allocated \cup {m}
            /\ mtx' = [mtx EXCEPT ![p] = m]
    BY DEF createLock
  <1>2. /\ UNCHANGED <<op, key>> /\ stage[p] = "create" /\ stage' = [stage EXCEPT ![p] = "wait"]
        /\ key[p] \notin Warm
    BY DEF createLock, LockGoto, LockIInv, WarmKept
  <1>3. LockTypeOK'
    BY <1>1, <1>2 DEF LockIInv, LockTypeOK
  <1>4. WarmKept'
    BY <1>1, <1>2, WarmTypes DEF LockIInv, LockTypeOK, WarmKept
  <1>5. WarmFound'
    BY <1>1, <1>2 DEF LockIInv, LockTypeOK, WarmFound
  <1>6. MutexExclusive'
    BY <1>1, <1>2 DEF LockIInv, LockTypeOK, MutexExclusive
  <1> QED
    BY <1>3, <1>4, <1>5, <1>6 DEF LockIInv

LEMMA AcquireKeeps ==
  ASSUME LockIInv, NEW p \in Goroutine, Acquire(p)
  PROVE  LockIInv'
  <1>1. /\ UNCHANGED <<locks, allocated, op, key, mtx>>
        /\ stage[p] = "wait" /\ stage' = [stage EXCEPT ![p] = "held"]
    BY DEF Acquire, LockGoto
  <1>2. ASSUME op[p] = "Lock", NEW q \in Goroutine, stage[q] = "held", op[q] \in KeyOps
        PROVE  mtx[q] # mtx[p]
    <2>1. ~WritesMutex(q, mtx[p]) /\ ~ReadsMutex(q, mtx[p])
      BY <1>2 DEF Acquire, Acquirable
    <2> QED
      BY <1>2, <2>1 DEF WritesMutex, ReadsMutex, KeyOps
  <1>3. ASSUME op[p] \in KeyOps, NEW q \in Goroutine, stage[q] = "held", op[q] = "Lock"
        PROVE  mtx[q] # mtx[p]
    <2>1. ~WritesMutex(q, mtx[p])
      BY <1>3 DEF Acquire, Acquirable, KeyOps
    <2> QED
      BY <1>3, <2>1 DEF WritesMutex
  <1>4. LockTypeOK'
    BY <1>1 DEF LockIInv, LockTypeOK
  <1>5. WarmKept' /\ WarmFound'
    BY <1>1 DEF LockIInv, LockTypeOK, WarmKept, WarmFound
  <1>6. MutexExclusive'
    BY <1>1, <1>2, <1>3 DEF LockIInv, LockTypeOK, MutexExclusive, KeyOps
  <1> QED
    BY <1>4, <1>5, <1>6 DEF LockIInv

LEMMA UnlockKeeps ==
  ASSUME LockIInv, NEW p \in Goroutine, Unlock(p)
  PROVE  LockIInv'
  <1>1. /\ UNCHANGED <<locks, allocated, op, key>>
        /\ stage' = [stage EXCEPT ![p] = "idle"] /\ mtx' = [mtx EXCEPT ![p] = NoMutex]
    BY DEF Unlock, LockGoto
  <1>2. LockTypeOK'
    BY <1>1 DEF LockIInv, LockTypeOK
  <1>3. WarmKept' /\ WarmFound' /\ MutexExclusive'
    BY <1>1 DEF LockIInv, LockTypeOK, WarmKept, WarmFound, MutexExclusive
  <1> QED
    BY <1>2, <1>3 DEF LockIInv

-----------------------------------------------------------------------------
\* LockIInv holds in every state.
THEOREM LockInductive == LockSpec => []LockIInv
  <1>1. LockInit => LockIInv
    BY LockInitInv
  <1>2. LockIInv /\ [LockNext]_lockVars => LockIInv'
    <2> SUFFICES ASSUME LockIInv, [LockNext]_lockVars PROVE LockIInv'
      OBVIOUS
    <2>1. ASSUME NEW p \in Goroutine, LockStep(p) PROVE LockIInv'
      BY <2>1, CallKeeps, findLockKeeps, createLockKeeps, AcquireKeeps, UnlockKeeps DEF LockStep
    <2>2. CASE UNCHANGED lockVars
      BY <2>2 DEF lockVars, LockIInv, LockTypeOK, WarmKept, WarmFound, MutexExclusive
    <2> QED
      BY <2>1, <2>2 DEF LockNext
  <1> QED
    BY <1>1, <1>2, PTL DEF LockSpec

\* findLock and createLock give a call a mutex or none, and the map holds nothing
\* but mutexes, for every number of goroutines and keys.
THEOREM LockTypeCorrect == LockSpec => []LockTypeOK
  <1>1. LockIInv => LockTypeOK
    BY DEF LockIInv
  <1> QED
    BY <1>1, LockInductive, PTL

\* Lock(key) excludes every other holder of a key that is in the map, however the
\* first uses of other keys and the Main calls interleave with it.
THEOREM WarmKeysAlwaysExclusive == LockSpec => []WarmKeysExclusive
  <1>1. LockIInv => WarmKeysExclusive
    <2> SUFFICES ASSUME LockIInv, NEW p \in Goroutine, NEW q \in Goroutine, NEW k \in Warm,
                        p # q, Holds(p, k), Holds(q, k)
                 PROVE  op[p] = "RLock" /\ op[q] = "RLock"
      BY DEF WarmKeysExclusive, ExclusiveOn
    <2>1. mtx[p] = WarmLock[k] /\ mtx[q] = WarmLock[k]
      BY DEF LockIInv, WarmFound, Holds, KeyOps
    <2> QED
      BY <2>1 DEF LockIInv, MutexExclusive, Holds, KeyOps
  <1> QED
    BY <1>1, LockInductive, PTL
=============================================================================
