----------------------------- MODULE Dispatcher -----------------------------
(***************************************************************************)
(* The dispatcher's two tables of routes, the threads of the loop that     *)
(* route requests and upgrades through them, and the application, which    *)
(* adds, removes and destroys routes at any time (a GlobalRoute does so in *)
(* its constructor and destructor).                                        *)
(*                                                                         *)
(* A request is known by how it fits each route: no match, or a score and  *)
(* what Route's operator() does with it.  An upgrade is known by what      *)
(* canOpen of each route says of it.                                       *)
(***************************************************************************)
EXTENDS Naturals, Sequences, SequencesExt

CONSTANTS
    Threads,    \* threads of the loop
    NoThread,   \* nobody: a mutex is free
    NoRoute,    \* no match; nothing chosen
    Routes,     \* RouteBase objects of the application
    WSRoutes,   \* WSRouteBase objects
    Scores,     \* bound: scores of a match
    Refusals,   \* statuses of a route that does not call its handler
    MaxRequests \* bound: requests over the whole run

ASSUME DispatcherAssumption ==
    /\ NoThread \notin Threads
    /\ Routes \cap WSRoutes = {}
    /\ NoRoute \notin Routes \cup WSRoutes
    /\ Scores \subseteq Nat
    /\ Refusals \subseteq {405, 500}
    /\ MaxRequests \in Nat

VARIABLES
    routes, ws_routes,          \* the tables, in the order of registration
    routes_mutex, ws_mutex,     \* who holds them
    alive,                      \* routes that are not destroyed
    pc, request, chosen,        \* of each thread: where it is and with what
    answers,                    \* the statuses it wrote for its request
    protocol,                   \* of the connection it handles
    requests                    \* history: how many there were

tables == <<routes, ws_routes, alive>>
mutexes == <<routes_mutex, ws_mutex>>
local == <<pc, request, chosen, answers, protocol>>
vars == <<routes, ws_routes, routes_mutex, ws_mutex, alive, pc, request, chosen,
          answers, protocol, requests>>

\* regex_match, the score, and the status with which the route's operator()
\* refuses a method (405) or an argument that does not convert (500): 0 when
\* it calls the handler.
Fits == {NoRoute} \cup [score : Scores, refusal : Refusals \cup {0}]

\* canOpen: FALSE (also without a match); TRUE; it throws; or, when an argument
\* does not convert, TRUE without the handler being asked.
Verdicts == {"refused", "accepted", "throws", "unasked"}

Init == /\ routes = <<>> /\ ws_routes = <<>>
        /\ routes_mutex = NoThread /\ ws_mutex = NoThread
        /\ alive = Routes \cup WSRoutes
        /\ pc = [t \in Threads |-> "idle"]
        /\ request = [t \in Threads |-> <<>>]
        /\ chosen = [t \in Threads |-> NoRoute]
        /\ answers = [t \in Threads |-> <<>>]
        /\ protocol = [t \in Threads |-> "http"]
        /\ requests = 0

Goto(t, where) == pc' = [pc EXCEPT ![t] = where]

\* Mutant: the status is never set.
FaultyWrite(t, status) == answers' = [answers EXCEPT ![t] = Append(@, 0)]

Write(t, status) == answers' = [answers EXCEPT ![t] = Append(@, status)]

\* Mutant: the error is swallowed.
FaultyAnswerError(t) == UNCHANGED <<answers, protocol>>

\* The catch clauses of onDataReceived: from 500 on, the protocol is dropped.
AnswerError(t) ==
    \/ Write(t, 400) /\ UNCHANGED protocol
    \/ Write(t, 500) /\ protocol' = [protocol EXCEPT ![t] = "none"]

\* onDataReceived is done with the request.
Done(t) == /\ Goto(t, "idle")
           /\ request' = [request EXCEPT ![t] = <<>>]
           /\ chosen' = [chosen EXCEPT ![t] = NoRoute]

\* A connection's complete request reaches onDataReceived in thread t.
Arrive(t, q, where) ==
    /\ pc[t] = "idle" /\ requests < MaxRequests
    /\ requests' = requests + 1
    /\ request' = [request EXCEPT ![t] = q]
    /\ answers' = [answers EXCEPT ![t] = <<>>]
    /\ protocol' = [protocol EXCEPT ![t] = "http"]
    /\ Goto(t, where)
    /\ UNCHANGED <<tables, mutexes, chosen>>

(***************************************************************************)
(* route                                                                   *)
(***************************************************************************)

Matching(q) == {k \in DOMAIN routes : q[routes[k]] # NoRoute}

\* max_element: the first of those with the highest score.
IsBest(q, k) == /\ k \in Matching(q)
                /\ \A m \in Matching(q) :
                      \/ q[routes[m]].score < q[routes[k]].score
                      \/ q[routes[m]].score = q[routes[k]].score /\ m >= k

\* No route, or one whose operator() throws before it calls the handler.
RouteRefuses(t) ==
    LET q == request[t]
    IN /\ pc[t] = "route" /\ routes_mutex = NoThread
       /\ \/ Matching(q) = {} /\ Write(t, 404)
          \/ \E k \in Matching(q) : /\ IsBest(q, k) /\ q[routes[k]].refusal # 0
                                   /\ Write(t, q[routes[k]].refusal)
       /\ Done(t)
       /\ UNCHANGED <<tables, mutexes, protocol, requests>>

\* Mutant: the mutex protects the search only.
FaultyHold(t) == UNCHANGED routes_mutex

Hold(t) == routes_mutex' = t

\* The best route's handler is called; the mutex stays locked.
RouteCalls(t) ==
    /\ pc[t] = "route" /\ routes_mutex = NoThread
    /\ \E k \in Matching(request[t]) :
          /\ IsBest(request[t], k) /\ request[t][routes[k]].refusal = 0
          /\ chosen' = [chosen EXCEPT ![t] = routes[k]]
    /\ Hold(t)
    /\ Goto(t, "handle")
    /\ UNCHANGED <<tables, ws_mutex, request, answers, protocol, requests>>

\* The handler returns a response, none (404), or throws: route returns.
HandlerReturns(t) ==
    /\ pc[t] = "handle"
    /\ \E status \in {200, 404, 500} : Write(t, status)
    /\ routes_mutex' = NoThread
    /\ Done(t)
    /\ UNCHANGED <<tables, ws_mutex, protocol, requests>>

(***************************************************************************)
(* connection_upgrade and routeWS                                          *)
(***************************************************************************)

\* The first route that does not refuse.
Ends(verdict) == verdict \in {"accepted", "throws", "unasked"}
IsFirst(q, k) == /\ Ends(q[ws_routes[k]])
                 /\ \A m \in 1..(k - 1) : ~Ends(q[ws_routes[m]])

\* Mutant: the mutex stays locked.
FaultyUnlock == UNCHANGED ws_mutex

Unlock == ws_mutex' = NoThread

\* routeWS asks canOpen of the routes with the mutex locked.
UpgradeLocks(t) ==
    /\ pc[t] = "upgrade" /\ ws_mutex = NoThread
    /\ ws_mutex' = t
    /\ Goto(t, "canOpen")
    /\ UNCHANGED <<tables, routes_mutex, request, chosen, answers, protocol, requests>>

\* It throws 404, which onDataReceived answers, ...
UpgradeRefused(t) ==
    /\ pc[t] = "canOpen"
    /\ ~\E k \in DOMAIN ws_routes : IsFirst(request[t], k)
    /\ Unlock
    /\ Write(t, 404)
    /\ Done(t)
    /\ UNCHANGED <<tables, routes_mutex, protocol, requests>>

\* ... or canOpen does throw, ...
CanOpenThrows(t) ==
    /\ pc[t] = "canOpen"
    /\ \E k \in DOMAIN ws_routes :
          IsFirst(request[t], k) /\ request[t][ws_routes[k]] = "throws"
    /\ Unlock
    /\ AnswerError(t)
    /\ Done(t)
    /\ UNCHANGED <<tables, routes_mutex, requests>>

\* ... or routeWS returns a reference to the route and unlocks.
UpgradeRouted(t) ==
    /\ pc[t] = "canOpen"
    /\ \E k \in DOMAIN ws_routes :
          /\ IsFirst(request[t], k) /\ request[t][ws_routes[k]] # "throws"
          /\ chosen' = [chosen EXCEPT ![t] = ws_routes[k]]
    /\ Unlock
    /\ Goto(t, "switch")
    /\ UNCHANGED <<tables, routes_mutex, request, answers, protocol, requests>>

SwitchProtocols(t) ==
    /\ pc[t] = "switch"
    /\ Write(t, 101)
    /\ Goto(t, "onOpen")
    /\ UNCHANGED <<tables, mutexes, request, chosen, protocol, requests>>

\* onOpen returns (when an argument does not convert, without calling the
\* handler), or throws: it takes its own arguments of the resource, so also for
\* a route whose canOpen was not asked.
OnOpenReturns(t) ==
    /\ pc[t] = "onOpen" /\ chosen[t] \in alive
    /\ Goto(t, "setHandler")
    /\ UNCHANGED <<tables, mutexes, request, chosen, answers, protocol, requests>>

OnOpenThrows(t) ==
    /\ pc[t] = "onOpen" /\ chosen[t] \in alive
    /\ AnswerError(t)
    /\ Done(t)
    /\ UNCHANGED <<tables, mutexes, requests>>

SetHandler(t) ==
    /\ pc[t] = "setHandler" /\ chosen[t] \in alive
    /\ protocol' = [protocol EXCEPT ![t] = "websocket"]
    /\ Done(t)
    /\ UNCHANGED <<tables, mutexes, answers, requests>>

\* The route was removed and destroyed since routeWS returned it: what the use
\* of its memory does is undefined; here the thread ends.
UseDestroyed(t) ==
    /\ pc[t] \in {"onOpen", "setHandler"} /\ chosen[t] \notin alive
    /\ Goto(t, "undefined")
    /\ UNCHANGED <<tables, mutexes, request, chosen, answers, protocol, requests>>

Step(t) == \/ RouteRefuses(t) \/ RouteCalls(t) \/ HandlerReturns(t)
           \/ UpgradeLocks(t) \/ UpgradeRefused(t) \/ CanOpenThrows(t) \/ UpgradeRouted(t)
           \/ SwitchProtocols(t) \/ OnOpenReturns(t) \/ OnOpenThrows(t)
           \/ SetHandler(t) \/ UseDestroyed(t)

(***************************************************************************)
(* addRoute, removeRoute, and the application's destructors                *)
(***************************************************************************)

AddRoute(r) ==
    /\ r \in alive
    /\ \/ /\ r \in Routes \ ToSet(routes) /\ routes_mutex = NoThread
          /\ routes' = Append(routes, r) /\ UNCHANGED ws_routes
       \/ /\ r \in WSRoutes \ ToSet(ws_routes) /\ ws_mutex = NoThread
          /\ ws_routes' = Append(ws_routes, r) /\ UNCHANGED routes
    /\ UNCHANGED <<mutexes, alive, local, requests>>

\* Of a route that is registered: otherwise end() would be erased.
RemoveRoute(r) ==
    /\ \/ /\ routes_mutex = NoThread
          /\ \E k \in DOMAIN routes : routes[k] = r /\ routes' = RemoveAt(routes, k)
          /\ UNCHANGED ws_routes
       \/ /\ ws_mutex = NoThread
          /\ \E k \in DOMAIN ws_routes : ws_routes[k] = r /\ ws_routes' = RemoveAt(ws_routes, k)
          /\ UNCHANGED routes
    /\ UNCHANGED <<mutexes, alive, local, requests>>

\* The application destroys a route that it has removed.
Destroy(r) ==
    /\ r \in alive \ (ToSet(routes) \cup ToSet(ws_routes))
    /\ alive' = alive \ {r}
    /\ UNCHANGED <<routes, ws_routes, mutexes, local, requests>>

\* Arriving requests, the steps of the threads, and the application; Server says
\* which thread may take a request when.
Request(t) == \/ \E q \in [Routes -> Fits] : Arrive(t, q, "route")
              \/ \E q \in [WSRoutes -> Verdicts] : Arrive(t, q, "upgrade")

Application == \E r \in Routes \cup WSRoutes : AddRoute(r) \/ RemoveRoute(r) \/ Destroy(r)

(***************************************************************************)
(* Properties                                                              *)
(***************************************************************************)

\* Every variable has its type.
TypeOK ==
    /\ ToSet(routes) \subseteq Routes /\ ToSet(ws_routes) \subseteq WSRoutes
    /\ routes_mutex \in Threads \cup {NoThread} /\ ws_mutex \in Threads \cup {NoThread}
    /\ alive \subseteq Routes \cup WSRoutes
    /\ pc \in [Threads -> {"idle", "route", "handle", "upgrade", "canOpen", "switch",
                           "onOpen", "setHandler", "undefined"}]
    /\ chosen \in [Threads -> Routes \cup WSRoutes \cup {NoRoute}]
    /\ \A t \in Threads : ToSet(answers[t]) \subseteq {101, 200, 400, 404, 405, 500}
    /\ protocol \in [Threads -> {"http", "websocket", "none"}]

\* While a route's handler runs, the route exists and is still the best of
\* those that are registered, whatever the application does to the table.
HandlerOnBestRoute ==
    \A t \in Threads : pc[t] = "handle" =>
        \E k \in DOMAIN routes : /\ routes[k] = chosen[t] /\ chosen[t] \in alive
                                 /\ IsBest(request[t], k)

\* A request gets one answer.  Only an upgrade may get two, its 101 and the
\* error of an onOpen that threw; it is a websocket only after the 101 alone.
AnsweredOnce ==
    [][\A t \in Threads : request[t] # <<>> /\ request'[t] = <<>> =>
          /\ Len(answers'[t]) = 1 \/ answers'[t] \in {<<101, 400>>, <<101, 500>>}
          /\ protocol'[t] = "websocket" <=> answers'[t] = <<101>>]_vars

\* Every request is answered and every upgrade ends although threads and the
\* application compete for the tables, unless a destroyed route was used.
EveryRequestEnds ==
    \A t \in Threads : pc[t] # "idle" ~> pc[t] \in {"idle", "undefined"}
=============================================================================
