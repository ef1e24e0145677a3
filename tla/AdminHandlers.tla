---------------------------- MODULE AdminHandlers ----------------------------
(***************************************************************************)
(* The admin API's handlers on one gateway, alone or in a raft cluster: of *)
(* documents, of the collection they are in and of one resource of each    *)
(* other kind.  A handler checks, applies the change log and, after a PUT, *)
(* waits for the change; other handlers, raft and the FSM run in between.  *)
(* With raft a change of a document goes into the leader's docCache first  *)
(* and into the store when it is committed; a reload writes docCache to    *)
(* the store as well.                                                      *)
(***************************************************************************)
EXTENDS Integers, Sequences, FiniteSets, SequencesExt

CONSTANTS
    Doc,          \* IDs of documents, as numbers
    AskedDoc,     \* those that the requests are about
    Kind,         \* kinds of resources that the requests are about
    MaxCalls,     \* bound: calls of this gateway's handlers
    MaxOthers,    \* bound: changes that another leader commits
    MaxLeadChanges  \* bound: changes of the lead

ASSUME AdminHandlersAssumption ==
    /\ Doc \subseteq Nat \ {0} /\ IsFiniteSet(Doc) /\ AskedDoc \subseteq Doc
    /\ Kind \subseteq {"namespace", "route", "service", "module", "domain", "secret"}
    /\ {MaxCalls, MaxOthers, MaxLeadChanges} \subseteq Nat

VARIABLES
    raft,      \* raft is enabled
    memory,    \* the store is a MemStore, not a FileStore
    st,        \* the state of the gateway
    calls,     \* handlers at work
    log,       \* committed entries, from the first of a document on
    applied,   \* entries the FSM of this gateway has applied
    lead,      \* this gateway is the leader
    flushed,   \* history: documents written from docCache
    beside,    \* history: two handlers were at work at once, or the lead changed
    asked, others, leadChanges

handlerVars == <<raft, memory, st, calls, log, applied, lead, flushed, beside, asked, others, leadChanges>>

\* Change logs; a document's version is the number of the call, and 1 before the
\* first.  An addition may be unfit (it names a namespace, a service or a module
\* that is not there, or cannot be decoded) or broken (it leaves a route with a
\* module that does not compile); a removal may be of what is still linked.
Change(op, kind, d, v) == [op |-> op, kind |-> kind, doc |-> d, ver |-> v]
Put(d, v) == Change("put", "document", d, v)
Del(d) == Change("delete", "document", d, 0)
DelNoId == Change("delete_no_id", "document", 0, 0)
PutCol(type) == Change(type, "collection", 0, 0)
DelCol == Change("remove", "collection", 0, 0)
Resource(op, kind) == Change(op, kind, 0, 0)
Delete(kind) == Resource("remove", kind)
NoChange == Change("none", "none", 0, 0)
FailedReload == Change("reload", "none", 0, 0)
Type == {"document", "untyped"}
AddOp == {"add", "add_unfit", "add_broken"}
RemoveOp == {"remove", "remove_linked"}

\* The gateway is fresh, or has the collection, one resource of each kind and
\* documents with version 1: any without raft; with raft the last at most, put by
\* this leader, which keeps it in docCache until a reload.
HandlersInit ==
    /\ raft \in BOOLEAN /\ memory \in BOOLEAN
    /\ \E docs \in SUBSET Doc, cached, fresh \in BOOLEAN :
          LET entries == IF raft /\ docs # {} THEN <<Put(Max(Doc), 1)>> ELSE <<>>
          IN /\ fresh => docs = {}
             /\ raft => docs \subseteq {Max(Doc)}
             /\ st = [col |-> IF fresh THEN "none" ELSE "document",
                      has |-> IF fresh THEN {} ELSE Kind,
                      store |-> [d \in Doc |-> IF d \in docs THEN 1 ELSE 0],
                      cache |-> IF cached THEN entries ELSE <<>>, pending |-> FALSE,
                      broken |-> FALSE, restart |-> NoChange, logged |-> ~fresh, halted |-> FALSE]
             /\ log = entries /\ applied = Len(log)
    /\ calls = {} /\ lead = raft
    /\ flushed = {} /\ beside = FALSE
    /\ asked = 0 /\ others = 0 /\ leadChanges = 0

-----------------------------------------------------------------------------
(* The store *)

\* What IterateValuesPrefix goes through.
Stored(s) == {d \in Doc : s.store[d] # 0}

StoreDocument(m, e) == [m EXCEPT ![e.doc] = e.ver]

\* The places of a document in a sequence of changes, and the version that the
\* last of them leaves.
Places(d, s, n) == {i \in 1..n : s[i].doc = d}
LastVersion(d, s, n) == s[CHOOSE i \in Places(d, s, n) : \A j \in Places(d, s, n) : j <= i].ver

\* One after the other, so that the last of each document stays.
StoreDocuments(m, docs) ==
    [d \in Doc |-> IF Places(d, docs, Len(docs)) = {} THEN m[d]
                   ELSE LastVersion(d, docs, Len(docs))]

\* A MemStore does not delete what it does not have; a FileStore does not mind.
DeleteFails(m, e) ==
    memory /\ \/ e.op = "delete" /\ m[e.doc] = 0
              \/ e.op = "delete_no_id"

\* FetchDocuments: the document at which the limit is reached is left out, and
\* those behind it are not.
FetchDocuments(s, limit, offset) ==
    LET nth(i) == CHOOSE d \in Stored(s) : Cardinality({x \in Stored(s) : x < d}) = i - 1
        left == Cardinality(Stored(s)) - offset
    IN IF limit = 0 THEN <<>>
       ELSE [i \in 1..(IF limit <= left THEN left - 1 ELSE left) |->
               nth(offset + (IF i < limit THEN i ELSE i + 1))]

\* BinarySearch in docCache, which is in the order of arrival: 0 if not found.
BinarySearch(cache, d) ==
    LET find[low \in 1..(Len(cache) + 1), high \in 0..Len(cache)] ==
            LET mid == low + (high - low) \div 2
            IN IF low > high THEN 0
               ELSE IF cache[mid].doc = d THEN mid
               ELSE IF cache[mid].doc > d THEN find[low, mid - 1]
               ELSE find[mid + 1, high]
    IN find[1, Len(cache)]

-----------------------------------------------------------------------------
(* processChangeLog *)

\* Nor does the manager delete what it does not have or what is linked, or add
\* what names something it does not have.
Refused(s, e, store) ==
    \/ e.op \in {"add_unfit", "remove_linked"}
    \/ e = DelCol /\ s.col = "none"
    \/ e.op = "remove" /\ e.kind \in Kind \ s.has
    \/ store /\ DeleteFails(s.store, e)

\* Mutant of processDocument: on the leader nothing is stored.
processDocumentCached(s, e, store) ==
    IF e.op = "put" THEN [s EXCEPT !.cache = Append(@, e)] ELSE s

\* docCache and a FileStore have no document without an ID.
processDocument(s, e, store) ==
    CASE e.op = "put" /\ store -> [s EXCEPT !.store = StoreDocument(@, e)]
      [] e.op = "delete" /\ store -> [s EXCEPT !.store[e.doc] = 0]
      [] e.op = "put" /\ ~store -> [s EXCEPT !.cache = Append(@, e)]
      [] e.op = "delete" /\ ~store ->
            LET i == BinarySearch(s.cache, e.doc)
            IN IF i \in 1..Len(s.cache) THEN [s EXCEPT !.cache = RemoveAt(@, i)] ELSE s
      [] OTHER -> s

\* A route has a module that does not compile, until the route or the module
\* is replaced or the route is deleted.
BrokenAfter(s, e) ==
    \/ e.op = "add_broken"
    \/ s.broken /\ ~(e.op = "add" /\ e.kind \in {"route", "module"}) /\ e # Delete("route")

processResource(s, e) ==
    CASE e.op \in Type -> [s EXCEPT !.col = e.op]
      [] e.op \in AddOp -> [s EXCEPT !.has = @ \cup {e.kind}, !.broken = BrokenAfter(s, e)]
      [] e = DelCol -> [s EXCEPT !.col = "none"]
      [] e.op = "remove" /\ e # DelCol ->
            [s EXCEPT !.has = @ \ {e.kind}, !.broken = BrokenAfter(s, e)]
      [] OTHER -> s

IsRelatedToRoutes(e) == e.kind \in {"namespace", "route", "service", "module"}
Reloads(s, e, reload) == reload /\ (s.pending \/ IsRelatedToRoutes(e))

storeCachedDocuments(s) == [s EXCEPT !.store = StoreDocuments(@, s.cache), !.cache = <<>>]

\* reconfigureState does not compile the modules.
ReloadFails(s, e, reload) == Reloads(s, e, reload) /\ BrokenAfter(s, e)

\* An error starts a goroutine that restarts the state; what was done before it,
\* the flush of docCache included, stays.
processChangeLog(s, e, reload, store) ==
    LET done == processResource(processDocument(s, e, store), e)
    IN IF Refused(s, e, store) THEN [s EXCEPT !.restart = e]
       ELSE IF ReloadFails(s, e, reload)
       THEN [storeCachedDocuments(done) EXCEPT !.restart = FailedReload]
       ELSE IF Reloads(s, e, reload)
       THEN [storeCachedDocuments(done) EXCEPT !.pending = FALSE, !.logged = @ \/ store]
       ELSE [done EXCEPT !.pending = @ \/ ~reload, !.logged = @ \/ store]

Flushing(s, e, reload, store) ==
    IF Refused(s, e, store) \/ ~Reloads(s, e, reload) THEN {}
    ELSE {<<x.doc, x.ver>> : x \in ToSet(processDocument(s, e, store).cache)}

\* restartState holds the lock that processChangeLog asks for, so it hangs;
\* only with raft and no change log it returns before.  rm.Empty clears nothing.
restartState ==
    /\ st.restart # NoChange /\ ~st.halted
    /\ st' = IF raft /\ ~st.logged
             THEN [st EXCEPT !.restart = NoChange, !.pending = FALSE]
             ELSE [st EXCEPT !.halted = TRUE]
    /\ UNCHANGED <<raft, memory, calls, log, applied, lead, flushed, beside, asked, others, leadChanges>>

-----------------------------------------------------------------------------
(* Handlers *)

\* The deletion of a collection of documents asks for one document after the
\* first.
Guarded(s) == s.col = "document" /\ FetchDocuments(s, 1, 1) # <<>>

\* A handler: what it looks up before it applies, its change log, and whether it
\* waits for the change.
Handler(admitted, change, waits) == [admitted |-> admitted, change |-> change, waits |-> waits]

PutNamespace(op) == Handler(TRUE, Resource(op, "namespace"), TRUE)
DeleteNamespace(op) == Handler(TRUE, Resource(op, "namespace"), FALSE)
PutRoute(op) == Handler(TRUE, Resource(op, "route"), TRUE)
DeleteRoute(op) == Handler(TRUE, Resource(op, "route"), FALSE)
PutService(op) == Handler(TRUE, Resource(op, "service"), TRUE)
DeleteService(op) == Handler(TRUE, Resource(op, "service"), FALSE)
PutModule(op) == Handler(TRUE, Resource(op, "module"), TRUE)
DeleteModule(op) == Handler(TRUE, Resource(op, "module"), FALSE)
PutSecret(op) == Handler(TRUE, Resource(op, "secret"), TRUE)
DeleteSecret(op) == Handler(TRUE, Resource(op, "secret"), FALSE)
PutDomain(op) == Handler(TRUE, Resource(op, "domain"), TRUE)

\* Mutant of DeleteDomain: the domain is not looked up.
DeleteDomainUnchecked(op) == Handler(TRUE, Resource(op, "domain"), FALSE)

DeleteDomain(op) == Handler("domain" \in st.has, Resource(op, "domain"), FALSE)

\* The PUT of a collection asks for no documents and gets none.
PutCollection(op) == Handler(FetchDocuments(st, 0, 0) = <<>>, PutCol(op), TRUE)
DeleteCollection == Handler(st.col # "none" /\ ~Guarded(st), DelCol, FALSE)
PutDocument(d) == Handler(st.col # "none", Put(d, asked + 2), TRUE)
DeleteDocument == Handler(st.col # "none", DelNoId, FALSE)

\* For a missing document a FileStore returns no error and the handler panics.
DeleteDocumentByID(d) == Handler(st.col # "none" /\ st.store[d] # 0, Del(d), FALSE)

\* What may be asked of the resources of a kind: a namespace names nothing, only
\* routes and modules are compiled, and only three kinds are not deleted while
\* other resources are linked with them.
Ops(kind) ==
    (AddOp \cup RemoveOp) \
        ((IF kind = "namespace" THEN {"add_unfit"} ELSE {}) \cup
         (IF kind \in {"route", "module"} THEN {} ELSE {"add_broken"}) \cup
         (IF kind \in {"namespace", "service", "module"} THEN {} ELSE {"remove_linked"}))

ResourceHandlers ==
    (UNION {{PutNamespace(op), PutRoute(op), PutService(op), PutModule(op), PutDomain(op),
             PutSecret(op)} : op \in AddOp}) \cup
    (UNION {{DeleteNamespace(op), DeleteRoute(op), DeleteService(op), DeleteModule(op),
             DeleteDomain(op), DeleteSecret(op)} : op \in RemoveOp})

Handlers ==
    {h \in ResourceHandlers : h.change.kind \in Kind /\ h.change.op \in Ops(h.change.kind)} \cup
    {PutCollection(op) : op \in Type \cup {"add_unfit"}} \cup {DeleteCollection, DeleteDocument} \cup
    {PutDocument(d) : d \in AskedDoc} \cup {DeleteDocumentByID(d) : d \in AskedDoc}

\* The middleware sends PUT and DELETE to the leader; the handler parses and
\* checks.
Begin(h) ==
    /\ raft => lead
    /\ h.admitted
    /\ asked' = asked + 1
    /\ beside' = (beside \/ calls # {})
    /\ calls' = calls \cup {[n |-> asked + 1, change |-> h.change, waits |-> h.waits,
                            at |-> "apply", index |-> 0]}
    /\ UNCHANGED <<raft, memory, st, log, applied, lead, flushed, others, leadChanges>>

\* ApplyChangeLog without raft.
ApplyAlone(c) ==
    /\ ~raft /\ c.at = "apply" /\ ~st.halted
    /\ st' = processChangeLog(st, c.change, TRUE, TRUE)
    /\ calls' = calls \ {c}
    /\ UNCHANGED <<raft, memory, log, applied, lead, flushed, beside, asked, others, leadChanges>>

\* ApplyChangeLog with raft: the leader's own state first.
ApplyLocally(c) ==
    /\ raft /\ c.at = "apply" /\ ~st.halted
    /\ IF ~lead
       THEN calls' = calls \ {c} /\ UNCHANGED <<st, flushed>>
       ELSE /\ st' = processChangeLog(st, c.change, TRUE, FALSE)
            /\ flushed' = flushed \cup Flushing(st, c.change, TRUE, FALSE)
            /\ calls' = (calls \ {c}) \cup
                        (IF Refused(st, c.change, FALSE) \/ ReloadFails(st, c.change, TRUE)
                         THEN {} ELSE {[c EXCEPT !.at = "raft"]})
    /\ UNCHANGED <<raft, memory, log, applied, lead, beside, asked, others, leadChanges>>

\* ApplyLog: committed and applied here, as its future waits for both; or, when
\* the lead is lost, an error.
CommitLog(c) ==
    /\ c.at = "raft" /\ lead
    /\ log' = Append(log, c.change)
    /\ calls' = (calls \ {c}) \cup {[c EXCEPT !.at = "future", !.index = Len(log) + 1]}
    /\ UNCHANGED <<raft, memory, st, applied, lead, flushed, beside, asked, others, leadChanges>>

\* Mutant of CommitFails: an entry that was not committed is not given up.
CommitFailsAfter(c) ==
    /\ c.at = "future" /\ ~lead
    /\ calls' = calls \ {c}
    /\ UNCHANGED <<raft, memory, st, log, applied, lead, flushed, beside, asked, others, leadChanges>>

CommitFails(c) ==
    /\ c.at \in {"raft", "future"} /\ ~lead
    /\ calls' = calls \ {c}
    /\ UNCHANGED <<raft, memory, st, log, applied, lead, flushed, beside, asked, others, leadChanges>>

FutureDone(c) ==
    /\ c.at = "future" /\ applied >= c.index
    /\ calls' = (calls \ {c}) \cup (IF c.waits THEN {[c EXCEPT !.at = "wait"]} ELSE {})
    /\ UNCHANGED <<raft, memory, st, log, applied, lead, flushed, beside, asked, others, leadChanges>>

\* WaitForChanges: the leader's barrier waits for its FSM; a follower asks the
\* leader for one and does not wait for its own.
WaitForChanges(c) == c.at = "wait" /\ (lead => applied = Len(log))

\* 201.
Respond(c) ==
    /\ WaitForChanges(c)
    /\ calls' = calls \ {c}
    /\ UNCHANGED <<raft, memory, st, log, applied, lead, flushed, beside, asked, others, leadChanges>>

-----------------------------------------------------------------------------
(* The FSM and the cluster *)

\* Mutant of ApplyEntry: the leader skips what it has applied locally.
ApplyEntrySkippingOwn(reload) ==
    /\ applied < Len(log) /\ ~st.halted
    /\ LET e == log[applied + 1]
       IN IF lead THEN UNCHANGED <<st, flushed>>
          ELSE /\ st' = processChangeLog(st, e, reload, TRUE)
               /\ flushed' = flushed \cup Flushing(st, e, reload, TRUE)
    /\ applied' = applied + 1
    /\ UNCHANGED <<raft, memory, calls, log, lead, beside, asked, others, leadChanges>>

\* An entry, of which the last of a batch reloads.
ApplyEntry(reload) ==
    /\ applied < Len(log) /\ ~st.halted
    /\ LET e == log[applied + 1]
       IN /\ st' = processChangeLog(st, e, reload, TRUE)
          /\ flushed' = flushed \cup Flushing(st, e, reload, TRUE)
    /\ applied' = applied + 1
    /\ UNCHANGED <<raft, memory, calls, log, lead, beside, asked, others, leadChanges>>

LeadChanges ==
    /\ raft /\ leadChanges < MaxLeadChanges
    /\ lead' = ~lead
    /\ leadChanges' = leadChanges + 1
    /\ beside' = TRUE
    /\ UNCHANGED <<raft, memory, st, calls, log, applied, flushed, asked, others>>

\* Another leader, which has the whole log, commits a change of a document.
OtherCommits(e) ==
    /\ raft /\ ~lead /\ others < MaxOthers
    /\ log' = Append(log, e)
    /\ others' = others + 1
    /\ UNCHANGED <<raft, memory, st, calls, applied, lead, flushed, beside, asked, leadChanges>>

Progress ==
    \/ \E c \in calls : \/ ApplyAlone(c) \/ ApplyLocally(c) \/ CommitLog(c) \/ CommitFails(c)
                        \/ FutureDone(c) \/ Respond(c)
    \/ \E reload \in BOOLEAN : ApplyEntry(reload)
    \/ restartState

HandlersNext ==
    \/ Progress
    \/ asked < MaxCalls /\ \E h \in Handlers : Begin(h)
    \/ LeadChanges
    \/ \E d \in AskedDoc : OtherCommits(Put(d, MaxCalls + others + 2)) \/ OtherCommits(Del(d))

HandlersSpec == HandlersInit /\ [][HandlersNext]_handlerVars /\ WF_handlerVars(Progress)

-----------------------------------------------------------------------------
(* Properties *)

\* The document's version that the applied log leaves.
LogVersion(d) ==
    IF Places(d, log, applied) = {} THEN 0 ELSE LastVersion(d, log, applied)

\* The store holds for every document what the applied log says, through the
\* leader's double application and any change of the lead; only a reload may have
\* written another version from docCache: one that was deleted or replaced since
\* it was cached, or one that ApplyLocally cached and that was not committed yet
\* or never will be.
StoreFollowsLog ==
    raft => \A d \in Doc : \/ st.store[d] = LogVersion(d)
                           \/ <<d, st.store[d]>> \in flushed

\* Requests one at a time, under one leader, make the gateway restart its state
\* (and hang) in these cases only: an addition names what is not there; a resource
\* is deleted that others are linked with, or one that is not there and that its
\* handler does not look up; a module that a route uses does not compile, so that
\* the reload fails; a MemStore is asked to delete a document without an ID; or
\* the leader of a cluster deletes a resource, which it does twice.  Putting and
\* deleting documents by their IDs never does, nor deleting domains and
\* collections on a gateway alone.
OneByOneKeepsRunning ==
    (~beside /\ st.restart # NoChange) =>
        \/ st.restart.op \in {"add_unfit", "remove_linked", "reload"}
        \/ st.restart.op = "remove" /\ st.restart.kind \notin {"domain", "collection"}
        \/ memory /\ st.restart = DelNoId
        \/ raft /\ st.restart.op = "remove"

\* A collection that was deleted has no documents left: "please delete existing
\* documents before deleting" (collection_routes.go:391), with one request at a
\* time on a gateway alone.
DeletedIsEmpty == (st.col = "none" /\ ~raft /\ ~beside) => Stored(st) = {}

\* Whoever gets 201 for a document from a node of a cluster finds it in the node's
\* store, unless another change of it was committed later or a reload wrote another
\* version from docCache, older or newer and not committed.
CreatedIsStored ==
    [][\A c \in calls : (Respond(c) /\ c.change.kind = "document") =>
          \/ st.store[c.change.doc] = c.change.ver
          \/ \E i \in (c.index + 1)..Len(log) : log[i].doc = c.change.doc
          \/ <<c.change.doc, st.store[c.change.doc]>> \in flushed]_handlerVars

\* Every request is answered, unless the gateway hangs in a restart.
RequestsAnswered ==
    \A n \in 1..MaxCalls :
        (\E c \in calls : c.n = n) ~> (st.halted \/ ~\E c \in calls : c.n = n)
=============================================================================
