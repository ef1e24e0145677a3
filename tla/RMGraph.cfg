SPECIFICATION MCSpec
CONSTANTS
    Namespace = {n1, n2}
    Name = {1, 2}
    Names <- MCNames
    Priority = {0, 1}
    Lookup = {l1, l2}
    NoService = NoService
SYMMETRY Symmetry
INVARIANTS
    NamespaceLinksExact
    ServiceEdgesAgree
    RouteReferencesHold
    ModuleBackEdgesCovered
    DomainCacheFresh
