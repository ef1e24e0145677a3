---------------------------- MODULE ServiceProxy ----------------------------
(***************************************************************************)
(* Requests of one route from routing to the last byte: proxy_handler.go   *)
(* with the module's functions, the reverse proxy builder, the retrying    *)
(* transport and the response writer tracker.  A reload may close the      *)
(* route's provider under them, whose context is the one they run in.      *)
(* RequestServing models the pools that the runtimes come from.            *)
(***************************************************************************)
EXTENDS Integers, FiniteSets

CONSTANTS
    Request,    \* requests
    Writes,     \* those that are a POST or a PUT
    Url,        \* URLs of the service
    First,      \* the first of them
    Retries,    \* retries of the service
    MaxNewProviders \* bound: reloads

ASSUME ServiceProxyAssumption ==
    /\ First \in Url /\ Writes \subseteq Request /\ "shared" \notin Request
    /\ {Retries, MaxNewProviders} \subseteq Nat

Fn == {"requestModifier", "responseModifier", "errorHandler", "requestHandler"}

VARIABLES
    route,    \* [service, module, fns, timeout]: timeout if requestTimeout # 0
    req,      \* each request
    builder,  \* reverse proxy builders: the provider's and the clones
    closed,   \* the provider is closed, its context cancelled
    newProviders

proxyVars == <<route, req, builder, closed, newProviders>>

\* A request is at one of idle, fetch, modify, build, rewrite, try, await,
\* modify_response, copy, fail, handle, handle_error, done and panicked; or at
\* spin, in a function of the module that does not return, or at silent and
\* stream, with an upstream that never answers or never ends its answer.  Of the
\* statuses 200 and 307 are a module's, 201 the upstream's, and 0 is none.

\* createModuleExtractorFunc: a module has a function for the upstream and one
\* for errors in any case.
ProxyInit ==
    /\ route \in [service : BOOLEAN, module : BOOLEAN, fns : SUBSET Fn, timeout : BOOLEAN]
    /\ ~route.module => route.fns = {}
    /\ IF route.service THEN "requestHandler" \notin route.fns
       ELSE "responseModifier" \notin route.fns
    /\ req = [p \in Request |->
                [at |-> "idle", url |-> First, target |-> First, delivered |-> 0,
                 tries |-> 0, err |-> "none", detached |-> FALSE, sent |-> 0, status |-> 0,
                 early |-> FALSE, disturbed |-> FALSE]]
    /\ builder = [b \in Request \cup {"shared"} |-> First]
    /\ closed = FALSE
    /\ newProviders = 0

Set(p, r) == req' = [req EXCEPT ![p] = r] /\ UNCHANGED <<route, builder, closed, newProviders>>

HeadersSent(r) == r.status # 0

\* The tracker keeps the last status, net/http sends the first.
WriteHeader(r, s) == [r EXCEPT !.status = s, !.sent = IF @ = 0 THEN s ELSE @]

At(r, l) == [r EXCEPT !.at = l]
Fails(r, s) == At(WriteHeader(r, s), "done")

\* ResponseWriterWrapper.End.
End(r) == IF HeadersSent(r) THEN r ELSE WriteHeader(r, 200)

\* Redirect and RedirectPermanent do not look whether something was sent.
Redirect(r) == [WriteHeader(r, 307) EXCEPT !.early = @ \/ HeadersSent(r)]

\* What a function of the module writes: nothing, an answer, a redirection, or
\* a redirection after its own answer.
Writing == {"nothing", "answer", "redirect", "both"}
Written(r, w) ==
    LET e == IF w \in {"answer", "both"} THEN End(r) ELSE r
    IN IF w \in {"redirect", "both"} THEN Redirect(e) ELSE e

\* A function of the module writes, and it ends in order, in an error, or in a
\* promise that is given up after 30 seconds.  r.early: a status was written
\* although one was sent or another step follows.
Runs(r, w, ok, last) ==
    [Written(r, w) EXCEPT !.early = @ \/ (w # "nothing" /\ (~ok \/ ~last))]

-----------------------------------------------------------------------------
\* HandleRoute and proxyHandler: the request's context is the provider's.  A
\* provider that is closed has no pool for the module's runtimes.
Arrive(p) ==
    /\ req[p].at = "idle"
    /\ LET r == [req[p] EXCEPT !.disturbed = closed]
       IN Set(p, IF closed /\ route.module THEN Fails(r, 500)
                 ELSE At(r, IF route.service THEN "fetch" ELSE "modify"))

\* handleServiceProxy: the module's upstream, or the first URL.
FetchUpstream(p) ==
    /\ req[p].at = "fetch"
    /\ \/ ~route.module /\ Set(p, At([req[p] EXCEPT !.url = First], "modify"))
       \/ /\ route.module
          /\ \E u \in Url, w \in Writing, ok \in BOOLEAN :
               LET r == Runs(req[p], w, ok, FALSE)
               IN Set(p, IF ok THEN At([r EXCEPT !.url = u], "modify") ELSE Fails(r, 500))

\* RequestModifierFunc, in both handlers.
RequestModifier(p) ==
    LET next == IF route.service THEN "build" ELSE "handle" IN
    /\ req[p].at = "modify"
    /\ \/ "requestModifier" \notin route.fns /\ Set(p, At(req[p], next))
       \/ /\ "requestModifier" \in route.fns
          /\ \E w \in Writing, ok \in BOOLEAN :
               LET r == Runs(req[p], w, ok, FALSE)
               IN Set(p, IF ok THEN At(r, next) ELSE Fails(r, 500))

\* Mutant of Clone: the provider's builder itself.
CloneShared(p) == "shared"

Clone(p) == p

\* Build notes the upstream in the builder; the proxy's Rewrite reads it there.
Build(p) ==
    /\ req[p].at = "build"
    /\ builder' = [builder EXCEPT ![Clone(p)] = req[p].url]
    /\ req' = [req EXCEPT ![p] = At(@, "rewrite")]
    /\ UNCHANGED <<route, closed, newProviders>>

Rewrite(p) ==
    /\ req[p].at = "rewrite"
    /\ Set(p, At([req[p] EXCEPT !.target = builder[Clone(p)]], "try"))

-----------------------------------------------------------------------------
(* retryRoundTripper *)

\* Mutant of AttemptFails: PUT and POST are tried again too, as its comment says.
AttemptFailsComment(p, e) ==
    IF req[p].tries < Retries
    THEN [req[p] EXCEPT !.at = "try", !.tries = @ + 1]
    ELSE [req[p] EXCEPT !.at = "fail", !.tries = @ + 1, !.err = e]

\* Mutant of AttemptFails: one attempt less.
AttemptFailsShort(p, e) ==
    IF req[p].tries + 1 < Retries /\ p \notin Writes
    THEN [req[p] EXCEPT !.at = "try", !.tries = @ + 1]
    ELSE [req[p] EXCEPT !.at = "fail", !.tries = @ + 1, !.err = e]

\* Mutant of AttemptFails: a cancellation is not counted.
AttemptFailsUncounted(p, e) ==
    IF e = "canceled" THEN [req[p] EXCEPT !.at = "try"]
    ELSE IF req[p].tries < Retries /\ p \notin Writes
    THEN [req[p] EXCEPT !.at = "try", !.tries = @ + 1]
    ELSE [req[p] EXCEPT !.at = "fail", !.tries = @ + 1, !.err = e]

\* A POST or a PUT is not tried again, nor is anything after the last retry.
AttemptFails(p, e) ==
    IF req[p].tries < Retries /\ p \notin Writes
    THEN [req[p] EXCEPT !.at = "try", !.tries = @ + 1]
    ELSE [req[p] EXCEPT !.at = "fail", !.tries = @ + 1, !.err = e]

\* An attempt fails at once if the context is cancelled; it finds no connection,
\* or the upstream gets the request.
RoundTrip(p) ==
    /\ req[p].at = "try"
    /\ \/ closed /\ Set(p, AttemptFails(p, "canceled"))
       \/ ~closed /\ Set(p, AttemptFails(p, "network"))
       \/ ~closed /\ Set(p, At([req[p] EXCEPT !.delivered = @ + 1], "await"))

\* The upstream answers, breaks off, or does not answer: then requestTimeout ends
\* the attempt, if the service has one (it has none by default), and otherwise
\* only a reload does.
Answer(p) ==
    /\ req[p].at = "await"
    /\ \/ Set(p, At(req[p], "modify_response"))
       \/ \E e \in {"network", "eof"} : Set(p, AttemptFails(p, e))
       \/ route.timeout /\ Set(p, AttemptFails(p, "deadline"))
       \/ ~route.timeout /\ Set(p, At(req[p], "silent"))
       \/ closed /\ Set(p, AttemptFails(p, "canceled"))

Silent(p) ==
    /\ req[p].at = "silent" /\ closed
    /\ Set(p, AttemptFails(p, "canceled"))

-----------------------------------------------------------------------------
(* The response *)

\* ModuleContextWithResponse takes the response writer away from the module.
ModifyResponse(p) ==
    LET r == [req[p] EXCEPT !.detached = TRUE] IN
    /\ req[p].at = "modify_response"
    /\ \/ "responseModifier" \notin route.fns /\ Set(p, At(req[p], "copy"))
       \/ /\ "responseModifier" \in route.fns
          /\ \/ Set(p, At(r, "copy"))
             \/ Set(p, At([r EXCEPT !.err = "module"], "fail"))

\* A body that breaks off (the upstream's fault, a closed provider, or the context
\* of requestTimeout, cancelled when RoundTrip returned) is cut without a sign:
\* ReverseProxy panics on it only in a server's context, which is lost here.
\* Without requestTimeout a body may never end, until a reload cuts it.
CopyResponse(p) ==
    /\ req[p].at = "copy"
    /\ \/ Set(p, At(WriteHeader(req[p], 201), "done"))
       \/ ~route.timeout /\ Set(p, At(WriteHeader(req[p], 201), "stream"))

Stream(p) ==
    /\ req[p].at = "stream" /\ closed
    /\ Set(p, At(req[p], "done"))

\* DefaultErrorHandlerFunction.
DefaultErrorHandler(r) ==
    IF HeadersSent(r) THEN r
    ELSE WriteHeader(r, IF r.err \in {"canceled", "eof"} THEN 499 ELSE 502)

BadGateway(r) == IF HeadersSent(r) THEN r ELSE WriteHeader(r, 502)

\* The ErrorHandler of the reverse proxy.  Without a response writer the default
\* function of a module is a nil dereference.
ErrorHandler(p) ==
    /\ req[p].at = "fail"
    /\ \/ HeadersSent(req[p]) /\ Set(p, At(req[p], "done"))
       \/ /\ ~HeadersSent(req[p]) /\ ~route.module
          /\ Set(p, At(BadGateway(req[p]), "done"))
       \/ /\ ~HeadersSent(req[p]) /\ route.module /\ "errorHandler" \notin route.fns
          /\ Set(p, IF req[p].detached THEN At(req[p], "panicked")
                    ELSE At(BadGateway(DefaultErrorHandler(req[p])), "done"))
       \/ /\ ~HeadersSent(req[p]) /\ "errorHandler" \in route.fns
          /\ \E w \in Writing, ok \in BOOLEAN :
               LET r == Runs(req[p], w, ok, TRUE)
               IN /\ req[p].detached => w = "nothing"
                  /\ Set(p, IF ok THEN At(BadGateway(r), "done") ELSE Fails(r, 500))

-----------------------------------------------------------------------------
(* A route without a service *)

\* requestHandlerModule.
RequestHandler(p) ==
    /\ req[p].at = "handle"
    /\ \/ "requestHandler" \notin route.fns /\ Set(p, Fails(req[p], 501))
       \/ /\ "requestHandler" \in route.fns
          /\ \E w \in Writing, ok \in BOOLEAN :
               LET r == Runs(req[p], w, ok, TRUE)
               IN Set(p, IF ~ok THEN At([r EXCEPT !.err = "module"], "handle_error")
                         ELSE IF HeadersSent(r) THEN At(r, "done") ELSE Fails(r, 204))

HandlerError(p) ==
    /\ req[p].at = "handle_error"
    /\ \/ /\ "errorHandler" \notin route.fns
          /\ Set(p, At(DefaultErrorHandler(req[p]), "done"))
       \/ /\ "errorHandler" \in route.fns
          /\ \E w \in Writing, ok \in BOOLEAN :
               LET r == Runs(req[p], w, ok, TRUE)
               IN Set(p, IF ok THEN At(r, "done") ELSE Fails(r, 500))

-----------------------------------------------------------------------------
(* Reloads *)

\* A function of the module is running and does not return.
Spin(p) ==
    /\ \/ req[p].at = "fetch" /\ route.module
       \/ req[p].at = "modify" /\ "requestModifier" \in route.fns
       \/ req[p].at = "modify_response" /\ "responseModifier" \in route.fns
       \/ req[p].at = "fail" /\ "errorHandler" \in route.fns /\ ~HeadersSent(req[p])
       \/ req[p].at = "handle" /\ "requestHandler" \in route.fns
       \/ req[p].at = "handle_error" /\ "errorHandler" \in route.fns
    /\ Set(p, At(req[p], "spin"))

InFlight == {p \in Request : req[p].at \notin {"idle", "done", "panicked"}}

\* Close of the provider that a reload replaces.
CloseOldProvider ==
    /\ ~closed /\ newProviders < MaxNewProviders
    /\ closed' = TRUE
    /\ newProviders' = newProviders + 1
    /\ req' = [p \in Request |-> [req[p] EXCEPT !.disturbed = @ \/ p \in InFlight]]
    /\ UNCHANGED <<route, builder>>

\* The new mux waits for the requests; the new provider has a builder of its own.
ReplaceProvider ==
    /\ closed /\ InFlight = {}
    /\ closed' = FALSE
    /\ builder' = [builder EXCEPT !["shared"] = First]
    /\ UNCHANGED <<route, req, newProviders>>

Proceed(p) ==
    \/ FetchUpstream(p) \/ RequestModifier(p) \/ Build(p) \/ Rewrite(p)
    \/ RoundTrip(p) \/ Answer(p) \/ Silent(p) \/ ModifyResponse(p) \/ CopyResponse(p)
    \/ Stream(p) \/ ErrorHandler(p) \/ RequestHandler(p) \/ HandlerError(p)

ProxyNext ==
    \/ \E p \in Request : Arrive(p) \/ Proceed(p) \/ Spin(p)
    \/ CloseOldProvider
    \/ ReplaceProvider

\* Goroutines run, a connection is made or fails, and a module's promise ends or is
\* given up.  That a function returns or an upstream answers is not assumed: Spin,
\* silent and stream are the cases where they do not.
ProxyFairness == \A p \in Request : WF_proxyVars(Proceed(p))

ProxySpec == ProxyInit /\ [][ProxyNext]_proxyVars /\ ProxyFairness

-----------------------------------------------------------------------------
(* Properties *)

\* The upstream gets a POST or a PUT once at most, whatever fails afterwards.  The
\* comment at proxy_transport.go:117 says the opposite (see RetriesWrites).
WritesDeliveredOnce == \A p \in Writes : req[p].delivered <= 1

\* "Retry only on network errors or if the request is a PUT or POST"
\* (proxy_transport.go:117): an attempt at a PUT or a POST that fails is followed by
\* another one as long as the service has retries.
RetriesWrites ==
    \A p \in Writes : req[p].err \in {"network", "eof", "deadline"} => req[p].tries = Retries + 1

\* A request is sent to the URL that was chosen for it, whatever the other
\* requests of the route build meanwhile.
OwnUpstream ==
    \A p \in Request :
        req[p].at \in {"try", "await", "silent", "modify_response", "copy", "stream"} =>
            req[p].target = req[p].url

\* A client is told of an upstream error only after exactly the attempts that its
\* method and the service allow have failed, and the error is a cancellation only
\* if a reload has closed the provider under the request.
FailsForCause ==
    \A p \in Request : req[p].err \notin {"none", "module"} =>
        /\ req[p].tries = IF p \in Writes THEN 1 ELSE Retries + 1
        /\ req[p].err = "canceled" => req[p].disturbed

\* What the tracker reports (to logs and metrics) is what the client was sent,
\* unless a function of the module wrote a status and another one followed: its
\* own redirection, or what the request's next step wrote.
ReportsWhatWasSent(p) == req[p].early \/ req[p].status = req[p].sent

\* Somebody gave the request a status, and not the implicit 200 of net/http,
\* unless the errorHandler of a route without service keeps silent.
AnsweredExplicitly(p) ==
    \/ HeadersSent(req[p])
    \/ ~route.service /\ req[p].err = "module" /\ "errorHandler" \in route.fns

\* What a request may wait for in vain: a function of the module, or, without a
\* requestTimeout, the upstream.
WaitsInVain(p) ==
    \/ req[p].at = "spin" /\ route.module
    \/ req[p].at \in {"silent", "stream"} /\ ~route.timeout /\ ~closed

\* Every request comes to its end, answered and rightly recorded; or it panics,
\* for the lack of an errorHandler when the responseModifier fails; or it waits
\* for a module or an upstream that does not come back, and that nothing bounds.
RequestsEnd ==
    \A p \in Request : (p \in InFlight) ~>
        \/ req[p].at = "done" /\ ReportsWhatWasSent(p) /\ AnsweredExplicitly(p)
        \/ req[p].at = "panicked" /\ "errorHandler" \notin route.fns /\ req[p].err = "module"
        \/ WaitsInVain(p)
=============================================================================
