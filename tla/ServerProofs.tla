----------------------------- MODULE ServerProofs -----------------------------
(***************************************************************************)
(* Proofs about Server and the Dispatcher that it extends, for any number  *)
(* of threads, routes, scores and requests.                                *)
(***************************************************************************)
EXTENDS Server, SequenceTheorems, TLAPS

Places == {"idle", "route", "handle", "upgrade", "canOpen", "switch", "onOpen",
           "setHandler", "undefined"}

\* What a thread may have written for its request.
Errors == {400, 404, 405, 500}
Switching == <<101>>
Written == {<<>>} \cup {<<s>> : s \in {101, 200} \cup Errors}
                  \cup {<<101, s>> : s \in {400, 500}}

\* The tables hold routes that exist.
TableInv ==
    /\ routes \in Seq(Routes \cap alive) /\ ws_routes \in Seq(WSRoutes \cap alive)
    /\ alive \subseteq Routes \cup WSRoutes

LocalInv ==
    /\ pc \in [Threads -> Places]
    /\ chosen \in [Threads -> Routes \cup WSRoutes \cup {NoRoute}]
    /\ request \in [Threads -> {<<>>} \cup [Routes -> Fits] \cup [WSRoutes -> Verdicts]]
    /\ answers \in [Threads -> Written]
    /\ protocol \in [Threads -> {"http", "websocket", "none"}]

\* Who is in a handler or asks canOpen, and nobody else, holds the mutex.
MutexInv ==
    /\ routes_mutex \in Threads \cup {NoThread} /\ ws_mutex \in Threads \cup {NoThread}
    /\ \A t \in Threads : /\ pc[t] = "handle" => routes_mutex = t
                          /\ pc[t] = "canOpen" => ws_mutex = t

\* What has been written for the request, by where its thread is.
AnswerInv(t) ==
    /\ pc[t] = "idle" => request[t] = <<>>
    /\ pc[t] \in {"route", "handle"} => request[t] \in [Routes -> Fits]
    /\ pc[t] \in {"route", "handle", "upgrade", "canOpen", "switch"} =>
          answers[t] = <<>> /\ protocol[t] = "http"
    /\ pc[t] \in {"onOpen", "setHandler"} =>
          answers[t] = <<101>> /\ protocol[t] = "http"

DispatcherInv == /\ TableInv /\ LocalInv /\ MutexInv
                 /\ \A t \in Threads : AnswerInv(t)
                 /\ HandlerOnBestRoute

(***************************************************************************)
(* The steps of a thread                                                   *)
(***************************************************************************)

LEMMA PairsEqual ==
    ASSUME NEW S, NEW a \in Seq(S), NEW b \in Seq(S),
           Len(a) = 2, Len(b) = 2, a[1] = b[1], a[2] = b[2]
    PROVE  a = b
BY SeqEqual

LEMMA Writing ==
    /\ \A s \in {101, 200} \cup Errors : Append(<<>>, s) = <<s>> /\ <<s>> \in Written
    /\ \A s \in {400, 500} : Append(<<101>>, s) = <<101, s>> /\ <<101, s>> \in Written
    /\ <<>> \in Written
<1>1. ASSUME NEW s \in {101, 200} \cup Errors
      PROVE  Append(<<>>, s) = <<s>> /\ <<s>> \in Written
  BY DEF Written
<1>2. ASSUME NEW s \in {400, 500}
      PROVE  Append(<<101>>, s) = <<101, s>> /\ <<101, s>> \in Written
  <2>1. Append(<<101>>, s) = <<101, s>>
    <3>1. <<101>> \in Seq(Nat) /\ s \in Nat /\ <<101, s>> \in Seq(Nat)
      OBVIOUS
    <3>2. /\ Append(<<101>>, s) \in Seq(Nat) /\ Len(Append(<<101>>, s)) = 2
          /\ Append(<<101>>, s)[1] = 101 /\ Append(<<101>>, s)[2] = s
      BY <3>1, AppendProperties
    <3>3. Len(<<101, s>>) = 2 /\ <<101, s>>[1] = 101 /\ <<101, s>>[2] = s
      OBVIOUS
    <3> DEFINE left == Append(<<101>>, s)
               right == <<101, s>>
    <3>4. /\ left \in Seq(Nat) /\ Len(left) = 2 /\ left[1] = 101 /\ left[2] = s
          /\ right \in Seq(Nat) /\ Len(right) = 2 /\ right[1] = 101 /\ right[2] = s
      BY <3>1, <3>2, <3>3
    <3> HIDE DEF left, right
    <3>5. left = right
      BY <3>4, PairsEqual
    <3> QED BY <3>5 DEF left, right
  <2>2. <<101, s>> \in Written
    BY DEF Written
  <2> QED BY <2>1, <2>2
<1>3. <<>> \in Written
  BY DEF Written
<1> QED BY <1>1, <1>2, <1>3

\* What a thread does to its own data leaves those of the others alone.
LEMMA OthersKept ==
    ASSUME DispatcherInv, NEW t \in Threads,
           UNCHANGED <<routes, ws_routes, alive>>,
           \A u \in Threads \ {t} :
              /\ pc'[u] = pc[u] /\ request'[u] = request[u] /\ chosen'[u] = chosen[u]
              /\ answers'[u] = answers[u] /\ protocol'[u] = protocol[u],
           LocalInv', MutexInv', AnswerInv(t)',
           pc'[t] = "handle" =>
              \E k \in DOMAIN routes : /\ routes[k] = chosen'[t] /\ chosen'[t] \in alive
                                       /\ IsBest(request'[t], k)
    PROVE  DispatcherInv'
<1>1. TableInv'
  BY DEF DispatcherInv, TableInv
<1>2. \A u \in Threads : AnswerInv(u)'
  BY DEF DispatcherInv, AnswerInv
<1>3. HandlerOnBestRoute'
  BY DEF DispatcherInv, HandlerOnBestRoute, IsBest, Matching
<1> QED BY <1>1, <1>2, <1>3 DEF DispatcherInv

LEMMA Somebody == \A t \in Threads : t # NoThread
BY DispatcherAssumption DEF DispatcherAssumption

LEMMA Refused == \A s \in Refusals : s \in Errors
BY DispatcherAssumption DEF DispatcherAssumption, Errors

\* A thread is done with its request.
LEMMA DoneStep ==
    ASSUME LocalInv, NEW t \in Threads, Done(t)
    PROVE  /\ pc' \in [Threads -> Places]
           /\ chosen' \in [Threads -> Routes \cup WSRoutes \cup {NoRoute}]
           /\ request' \in [Threads -> {<<>>} \cup [Routes -> Fits] \cup [WSRoutes -> Verdicts]]
           /\ pc'[t] = "idle" /\ request'[t] = <<>>
           /\ \A u \in Threads \ {t} :
                 pc'[u] = pc[u] /\ request'[u] = request[u] /\ chosen'[u] = chosen[u]
<1>1. pc' \in [Threads -> Places] /\ pc'[t] = "idle"
  BY DEF Done, Goto, LocalInv, Places
<1>2. chosen' \in [Threads -> Routes \cup WSRoutes \cup {NoRoute}]
  BY DEF Done, LocalInv
<1>3. /\ request' \in [Threads -> {<<>>} \cup [Routes -> Fits] \cup [WSRoutes -> Verdicts]]
      /\ request'[t] = <<>>
  BY DEF Done, LocalInv
<1>4. \A u \in Threads \ {t} :
         pc'[u] = pc[u] /\ request'[u] = request[u] /\ chosen'[u] = chosen[u]
  BY DEF Done, Goto, LocalInv
<1> QED BY <1>1, <1>2, <1>3, <1>4

\* What it has written for its request changes to now.
LEMMA AnswersStep ==
    ASSUME LocalInv, NEW t \in Threads, NEW now \in Written,
           answers' = [answers EXCEPT ![t] = now]
    PROVE  /\ answers' \in [Threads -> Written] /\ answers'[t] = now
           /\ \A u \in Threads \ {t} : answers'[u] = answers[u]
BY DEF LocalInv

\* It writes the first status of its request, ...
LEMMA WriteStep ==
    ASSUME LocalInv, NEW t \in Threads, answers[t] = <<>>,
           NEW s \in {101, 200} \cup Errors, Write(t, s)
    PROVE  /\ answers' \in [Threads -> Written] /\ answers'[t] = <<s>>
           /\ \A u \in Threads \ {t} : answers'[u] = answers[u]
<1>1. Append(answers[t], s) = <<s>> /\ <<s>> \in Written
  BY Writing
<1> QED BY <1>1, AnswersStep DEF Write

\* ... or the error of an onOpen that threw, after the 101.
LEMMA WriteErrorStep ==
    ASSUME LocalInv, NEW t \in Threads, answers[t] = Switching,
           NEW s \in {400, 500}, Write(t, s)
    PROVE  /\ answers' \in [Threads -> Written] /\ answers'[t] = <<101, s>>
           /\ \A u \in Threads \ {t} : answers'[u] = answers[u]
<1> DEFINE before == <<101>>
           now == <<101, s>>
<1>1. answers[t] = before
  BY DEF Switching
<1>2. Append(before, s) = now /\ now \in Written
  BY Writing
<1> HIDE DEF before, now
<1>3. answers' = [answers EXCEPT ![t] = now]
  BY <1>1, <1>2 DEF Write
<1>4. /\ answers' \in [Threads -> Written] /\ answers'[t] = now
      /\ \A u \in Threads \ {t} : answers'[u] = answers[u]
  BY <1>2, <1>3 DEF LocalInv
<1> QED BY <1>4 DEF now

LEMMA RouteRefusesStep ==
    ASSUME DispatcherInv, NEW t \in Threads, RouteRefuses(t)
    PROVE  DispatcherInv' /\ \E s \in Errors : answers'[t] = <<s>> /\ protocol'[t] = "http"
<1> USE DEF RouteRefuses, mutexes, tables
<1>1. request[t] \in [Routes -> Fits] /\ answers[t] = <<>> /\ protocol[t] = "http"
  BY DEF DispatcherInv, AnswerInv
<1>2. PICK s \in Errors : Write(t, s)
  <2>1. CASE Write(t, 404)
    BY <2>1 DEF Errors
  <2>2. ASSUME NEW k \in Matching(request[t]), request[t][routes[k]].refusal # 0,
               Write(t, request[t][routes[k]].refusal)
        PROVE  \E s \in Errors : Write(t, s)
    <3>1. routes[k] \in Routes
      BY <2>2 DEF Matching, DispatcherInv, TableInv
    <3>2. request[t][routes[k]] \in [score : Scores, refusal : Refusals \cup {0}]
      BY <1>1, <2>2, <3>1 DEF Matching, Fits
    <3>3. request[t][routes[k]].refusal \in Refusals
      BY <2>2, <3>2
    <3> QED BY <2>2, <3>3, Refused
  <2> QED BY <2>1, <2>2
<1>3. /\ answers' \in [Threads -> Written] /\ answers'[t] = <<s>>
      /\ \A u \in Threads \ {t} : answers'[u] = answers[u]
  BY <1>1, <1>2, WriteStep DEF DispatcherInv
<1>4. LocalInv'
  BY <1>3, DoneStep DEF DispatcherInv, LocalInv
<1>5. MutexInv'
  BY DoneStep DEF DispatcherInv, MutexInv
<1>6. AnswerInv(t)' /\ pc'[t] # "handle"
  BY DoneStep DEF DispatcherInv, AnswerInv
<1>7. \A u \in Threads \ {t} :
         /\ pc'[u] = pc[u] /\ request'[u] = request[u] /\ chosen'[u] = chosen[u]
         /\ answers'[u] = answers[u] /\ protocol'[u] = protocol[u]
  BY <1>3, DoneStep DEF DispatcherInv
<1> QED BY <1>1, <1>3, <1>4, <1>5, <1>6, <1>7, OthersKept

LEMMA RouteCallsStep ==
    ASSUME DispatcherInv, NEW t \in Threads, RouteCalls(t)
    PROVE  DispatcherInv'
<1> USE DEF RouteCalls, Hold, Goto, tables
<1>1. PICK k \in Matching(request[t]) :
         IsBest(request[t], k) /\ chosen' = [chosen EXCEPT ![t] = routes[k]]
  OBVIOUS
<1>2. k \in DOMAIN routes /\ routes[k] \in Routes \cap alive
  BY <1>1 DEF Matching, DispatcherInv, TableInv
<1>3. LocalInv'
  BY <1>1, <1>2 DEF DispatcherInv, LocalInv, Places
<1>4. MutexInv'
  BY Somebody DEF DispatcherInv, MutexInv, LocalInv
<1>5. AnswerInv(t)'
  BY DEF DispatcherInv, LocalInv, AnswerInv
<1>6. \A u \in Threads \ {t} :
         /\ pc'[u] = pc[u] /\ request'[u] = request[u] /\ chosen'[u] = chosen[u]
         /\ answers'[u] = answers[u] /\ protocol'[u] = protocol[u]
  BY <1>1 DEF DispatcherInv, LocalInv
<1>7. routes[k] = chosen'[t] /\ chosen'[t] \in alive /\ request'[t] = request[t]
  BY <1>1, <1>2 DEF DispatcherInv, LocalInv
<1> QED BY <1>1, <1>2, <1>3, <1>4, <1>5, <1>6, <1>7, OthersKept

LEMMA HandlerReturnsStep ==
    ASSUME DispatcherInv, NEW t \in Threads, HandlerReturns(t)
    PROVE  /\ DispatcherInv'
           /\ \E s \in {200} \cup Errors : answers'[t] = <<s>> /\ protocol'[t] = "http"
<1> USE DEF HandlerReturns, tables
<1>1. answers[t] = <<>> /\ protocol[t] = "http"
  BY DEF DispatcherInv, AnswerInv
<1>2. PICK s \in {200} \cup Errors : Write(t, s)
  BY DEF Errors
<1> HIDE DEF HandlerReturns
<1>3. /\ answers' \in [Threads -> Written] /\ answers'[t] = <<s>>
      /\ \A u \in Threads \ {t} : answers'[u] = answers[u]
  BY <1>1, <1>2, WriteStep DEF DispatcherInv
<1> USE DEF HandlerReturns
<1>4. LocalInv'
  BY <1>3, DoneStep DEF DispatcherInv, LocalInv
<1>5. MutexInv'
  BY DoneStep, Somebody DEF DispatcherInv, MutexInv
<1>6. AnswerInv(t)' /\ pc'[t] # "handle"
  BY DoneStep DEF DispatcherInv, AnswerInv
<1>7. \A u \in Threads \ {t} :
         /\ pc'[u] = pc[u] /\ request'[u] = request[u] /\ chosen'[u] = chosen[u]
         /\ answers'[u] = answers[u] /\ protocol'[u] = protocol[u]
  BY <1>3, DoneStep DEF DispatcherInv
<1> QED BY <1>1, <1>3, <1>4, <1>5, <1>6, <1>7, OthersKept

\* The first steps of an upgrade write nothing.
LEMMA UpgradeSteps ==
    ASSUME DispatcherInv, NEW t \in Threads,
           UpgradeLocks(t) \/ UpgradeRouted(t) \/ OnOpenReturns(t) \/ UseDestroyed(t)
    PROVE  DispatcherInv'
<1> USE DEF UpgradeLocks, UpgradeRouted, OnOpenReturns, UseDestroyed, Unlock, Goto,
            tables, mutexes
<1>1. /\ pc' \in [Threads -> Places] /\ pc'[t] \in {"canOpen", "switch", "setHandler", "undefined"}
      /\ \A u \in Threads \ {t} : pc'[u] = pc[u]
  BY DEF DispatcherInv, LocalInv, Places
<1>2. /\ chosen' \in [Threads -> Routes \cup WSRoutes \cup {NoRoute}]
      /\ \A u \in Threads \ {t} : chosen'[u] = chosen[u]
  <2>1. \A k \in DOMAIN ws_routes : ws_routes[k] \in WSRoutes
    BY DEF DispatcherInv, TableInv
  <2> QED BY <2>1 DEF DispatcherInv, LocalInv
<1>3. LocalInv'
  BY <1>1, <1>2 DEF DispatcherInv, LocalInv
<1>4. MutexInv'
  BY <1>1, Somebody DEF DispatcherInv, MutexInv, LocalInv
<1>5. AnswerInv(t)'
  BY DEF DispatcherInv, LocalInv, AnswerInv
<1> QED BY <1>1, <1>2, <1>3, <1>4, <1>5, OthersKept

LEMMA SwitchStep ==
    ASSUME DispatcherInv, NEW t \in Threads, SwitchProtocols(t)
    PROVE  DispatcherInv'
<1> USE DEF SwitchProtocols, Goto, tables, mutexes
<1>1. answers[t] = <<>> /\ protocol[t] = "http"
  BY DEF DispatcherInv, AnswerInv
<1>2. /\ answers' \in [Threads -> Written] /\ answers'[t] = <<101>>
      /\ \A u \in Threads \ {t} : answers'[u] = answers[u]
  BY <1>1, WriteStep DEF DispatcherInv
<1>3. /\ pc' \in [Threads -> Places] /\ pc'[t] = "onOpen"
      /\ \A u \in Threads \ {t} : pc'[u] = pc[u]
  BY DEF DispatcherInv, LocalInv, Places
<1>4. LocalInv'
  BY <1>2, <1>3 DEF DispatcherInv, LocalInv
<1>5. MutexInv'
  BY <1>3 DEF DispatcherInv, MutexInv
<1>6. AnswerInv(t)'
  BY <1>1, <1>2, <1>3 DEF AnswerInv
<1> QED BY <1>2, <1>3, <1>4, <1>5, <1>6, OthersKept

\* AnsweredOnce, of the thread t that is done.
Answered(t) ==
    /\ Len(answers[t]) = 1 \/ answers[t] \in {<<101, 400>>, <<101, 500>>}
    /\ protocol[t] = "websocket" <=> answers[t] = <<101>>

\* The upgrade is refused, or canOpen throws: nothing but the error was written.
LEMMA RefusedSteps ==
    ASSUME DispatcherInv, NEW t \in Threads, UpgradeRefused(t) \/ CanOpenThrows(t)
    PROVE  DispatcherInv' /\ Answered(t)'
<1> USE DEF UpgradeRefused, CanOpenThrows, Unlock, AnswerError, tables
<1>1. answers[t] = <<>> /\ protocol[t] = "http" /\ Done(t) /\ pc[t] = "canOpen"
  BY DEF DispatcherInv, AnswerInv
<1>2. PICK s \in Errors : Write(t, s)
  BY DEF Errors
<1>3. /\ answers' \in [Threads -> Written] /\ answers'[t] = <<s>>
      /\ \A u \in Threads \ {t} : answers'[u] = answers[u]
  BY <1>1, <1>2, WriteStep DEF DispatcherInv
<1>4. /\ protocol' \in [Threads -> {"http", "websocket", "none"}] /\ protocol'[t] # "websocket"
      /\ \A u \in Threads \ {t} : protocol'[u] = protocol[u]
  BY <1>1 DEF DispatcherInv, LocalInv
<1>5. LocalInv'
  BY <1>1, <1>3, <1>4, DoneStep DEF DispatcherInv, LocalInv
<1>6. MutexInv'
  BY <1>1, DoneStep, Somebody DEF DispatcherInv, MutexInv
<1>7. AnswerInv(t)' /\ pc'[t] # "handle"
  BY <1>1, DoneStep DEF DispatcherInv, AnswerInv
<1>8. \A u \in Threads \ {t} :
         /\ pc'[u] = pc[u] /\ request'[u] = request[u] /\ chosen'[u] = chosen[u]
         /\ answers'[u] = answers[u] /\ protocol'[u] = protocol[u]
  BY <1>1, <1>3, <1>4, DoneStep DEF DispatcherInv
<1>9. Answered(t)'
  BY <1>3, <1>4 DEF Answered, Errors
<1> QED BY <1>5, <1>6, <1>7, <1>8, <1>9, OthersKept

\* onOpen throws, or the connection becomes a websocket.
LEMMA OpenedSteps ==
    ASSUME DispatcherInv, NEW t \in Threads, OnOpenThrows(t) \/ SetHandler(t)
    PROVE  DispatcherInv' /\ Answered(t)'
<1> USE DEF OnOpenThrows, SetHandler, AnswerError, tables, mutexes
<1>1. answers[t] = <<101>> /\ protocol[t] = "http" /\ Done(t)
  BY DEF DispatcherInv, AnswerInv
<1>2. /\ answers' \in [Threads -> Written]
      /\ \A u \in Threads \ {t} : answers'[u] = answers[u]
      /\ IF OnOpenThrows(t) THEN \E s \in {400, 500} : answers'[t] = <<101, s>>
                            ELSE answers'[t] = <<101>>
  <2>1. ASSUME NEW s \in {400, 500}, Write(t, s)
        PROVE  /\ answers' \in [Threads -> Written] /\ answers'[t] = <<101, s>>
               /\ \A u \in Threads \ {t} : answers'[u] = answers[u]
    BY <1>1, <2>1, WriteErrorStep DEF DispatcherInv, Switching
  <2>2. CASE OnOpenThrows(t)
    BY <2>1, <2>2
  <2>3. CASE ~OnOpenThrows(t)
    BY <1>1, <2>3 DEF DispatcherInv, LocalInv
  <2> QED BY <2>2, <2>3
<1>3. /\ protocol' \in [Threads -> {"http", "websocket", "none"}]
      /\ \A u \in Threads \ {t} : protocol'[u] = protocol[u]
      /\ IF OnOpenThrows(t) THEN protocol'[t] # "websocket" ELSE protocol'[t] = "websocket"
  BY <1>1 DEF DispatcherInv, LocalInv
<1>4. LocalInv'
  BY <1>1, <1>2, <1>3, DoneStep DEF DispatcherInv, LocalInv
<1>5. MutexInv'
  BY <1>1, DoneStep DEF DispatcherInv, MutexInv
<1>6. AnswerInv(t)' /\ pc'[t] # "handle"
  BY <1>1, DoneStep DEF DispatcherInv, AnswerInv
<1>7. \A u \in Threads \ {t} :
         /\ pc'[u] = pc[u] /\ request'[u] = request[u] /\ chosen'[u] = chosen[u]
         /\ answers'[u] = answers[u] /\ protocol'[u] = protocol[u]
  BY <1>1, <1>2, <1>3, DoneStep DEF DispatcherInv
<1>8. Answered(t)'
  <2>1. CASE OnOpenThrows(t)
    BY <1>2, <1>3, <2>1 DEF Answered
  <2>2. CASE ~OnOpenThrows(t)
    BY <1>2, <1>3, <2>2 DEF Answered
  <2> QED BY <2>1, <2>2
<1> QED BY <1>4, <1>5, <1>6, <1>7, <1>8, OthersKept

LEMMA ArriveStep ==
    ASSUME DispatcherInv, NEW t \in Threads, Request(t)
    PROVE  DispatcherInv'
<1> USE DEF tables, mutexes, Goto
<1>1. PICK q, where :
         /\ Arrive(t, q, where)
         /\ \/ where = "route" /\ q \in [Routes -> Fits]
            \/ where = "upgrade" /\ q \in [WSRoutes -> Verdicts]
  BY DEF Request
<1> USE DEF Arrive
<1>2. /\ pc' \in [Threads -> Places] /\ pc'[t] = where
      /\ request' \in [Threads -> {<<>>} \cup [Routes -> Fits] \cup [WSRoutes -> Verdicts]]
      /\ request'[t] = q
      /\ \A u \in Threads \ {t} : pc'[u] = pc[u] /\ request'[u] = request[u]
  BY <1>1 DEF DispatcherInv, LocalInv, Places
<1>3. /\ answers' \in [Threads -> Written] /\ answers'[t] = <<>>
      /\ \A u \in Threads \ {t} : answers'[u] = answers[u]
  <2>1. <<>> \in Written /\ answers' = [answers EXCEPT ![t] = <<>>]
    BY <1>1, Writing
  <2> QED BY <2>1 DEF DispatcherInv, LocalInv
<1>4. /\ protocol' \in [Threads -> {"http", "websocket", "none"}] /\ protocol'[t] = "http"
      /\ \A u \in Threads \ {t} : protocol'[u] = protocol[u]
  BY <1>1 DEF DispatcherInv, LocalInv
<1>5. LocalInv'
  BY <1>1, <1>2, <1>3, <1>4 DEF DispatcherInv, LocalInv
<1>6. MutexInv'
  BY <1>1, <1>2 DEF DispatcherInv, MutexInv
<1>7. AnswerInv(t)'
  BY <1>1, <1>2, <1>3, <1>4 DEF AnswerInv
<1> QED BY <1>1, <1>2, <1>3, <1>4, <1>5, <1>6, <1>7, OthersKept

LEMMA ThreadStep ==
    ASSUME DispatcherInv, NEW t \in Threads, Step(t)
    PROVE  DispatcherInv' /\ (request[t] # <<>> /\ request'[t] = <<>> => Answered(t)')
<1>1. CASE RouteRefuses(t)
  <2>1. DispatcherInv' /\ \E s \in Errors : answers'[t] = <<s>> /\ protocol'[t] = "http"
    BY <1>1, RouteRefusesStep
  <2> QED BY <2>1 DEF Answered, Errors
<1>2. CASE RouteCalls(t)
  <2>1. request' = request
    BY <1>2 DEF RouteCalls
  <2> QED BY <1>2, <2>1, RouteCallsStep
<1>3. CASE HandlerReturns(t)
  <2>1. /\ DispatcherInv'
        /\ \E s \in {200} \cup Errors : answers'[t] = <<s>> /\ protocol'[t] = "http"
    BY <1>3, HandlerReturnsStep
  <2> QED BY <2>1 DEF Answered, Errors
<1>4. CASE UpgradeLocks(t) \/ UpgradeRouted(t) \/ OnOpenReturns(t) \/ UseDestroyed(t)
  <2>1. request' = request
    BY <1>4 DEF UpgradeLocks, UpgradeRouted, OnOpenReturns, UseDestroyed
  <2> QED BY <1>4, <2>1, UpgradeSteps
<1>5. CASE SwitchProtocols(t)
  <2>1. request' = request
    BY <1>5 DEF SwitchProtocols
  <2> QED BY <1>5, <2>1, SwitchStep
<1>6. CASE UpgradeRefused(t) \/ CanOpenThrows(t)
  BY <1>6, RefusedSteps
<1>7. CASE OnOpenThrows(t) \/ SetHandler(t)
  BY <1>7, OpenedSteps
<1> QED BY <1>1, <1>2, <1>3, <1>4, <1>5, <1>6, <1>7 DEF Step

LEMMA RequestKept ==
    ASSUME DispatcherInv, NEW u \in Threads, Step(u), NEW t \in Threads, t # u
    PROVE  request'[t] = request[t]
<1>1. Done(u) => request'[t] = request[t]
  BY DoneStep DEF DispatcherInv
<1>2. Done(u) \/ UNCHANGED request
  BY DEF Step, RouteRefuses, RouteCalls, HandlerReturns, UpgradeLocks, UpgradeRefused,
         CanOpenThrows, UpgradeRouted, SwitchProtocols, OnOpenReturns, OnOpenThrows,
         SetHandler, UseDestroyed
<1> QED BY <1>1, <1>2

(***************************************************************************)
(* The application                                                         *)
(***************************************************************************)

LEMMA Removing ==
    ASSUME NEW S, NEW s \in Seq(S), NEW k \in DOMAIN s
    PROVE  RemoveAt(s, k) \in Seq(S)
<1>1. k \in 1..Len(s) /\ Len(s) \in Nat
  BY LenProperties
<1>2. SubSeq(s, 1, k - 1) \in Seq(S) /\ SubSeq(s, k + 1, Len(s)) \in Seq(S)
  <2>1. \A i \in 1..(k - 1) : s[i] \in S
    BY <1>1, LenProperties
  <2>2. \A i \in (k + 1)..Len(s) : s[i] \in S
    BY <1>1, LenProperties
  <2> QED BY <1>1, <2>1, <2>2, SubSeqProperties
<1> QED BY <1>2, ConcatProperties DEF RemoveAt

\* While a handler runs the table stays as it is: the mutex is locked.
LEMMA TablesKept ==
    ASSUME DispatcherInv, UNCHANGED <<mutexes, local>>, TableInv',
           \/ UNCHANGED routes /\ \A k \in DOMAIN routes : routes[k] \in alive'
           \/ routes_mutex = NoThread
    PROVE  DispatcherInv'
<1>1. LocalInv' /\ MutexInv' /\ \A t \in Threads : AnswerInv(t)'
  BY DEF DispatcherInv, LocalInv, MutexInv, AnswerInv, mutexes, local
<1>2. HandlerOnBestRoute'
  <2>1. CASE routes_mutex = NoThread
    BY <2>1, Somebody DEF DispatcherInv, MutexInv, HandlerOnBestRoute, local
  <2>2. CASE UNCHANGED routes /\ \A k \in DOMAIN routes : routes[k] \in alive'
    BY <2>2 DEF DispatcherInv, HandlerOnBestRoute, IsBest, Matching, local
  <2> QED BY <2>1, <2>2
<1> QED BY <1>1, <1>2 DEF DispatcherInv

LEMMA ApplicationStep ==
    ASSUME DispatcherInv, Application
    PROVE  DispatcherInv'
<1>1. PICK r \in Routes \cup WSRoutes : AddRoute(r) \/ RemoveRoute(r) \/ Destroy(r)
  BY DEF Application
<1>2. /\ routes \in Seq(Routes \cap alive) /\ ws_routes \in Seq(WSRoutes \cap alive)
      /\ \A k \in DOMAIN routes : routes[k] \in Routes \cap alive
      /\ \A k \in DOMAIN ws_routes : ws_routes[k] \in WSRoutes \cap alive
  BY DEF DispatcherInv, TableInv
<1>3. CASE AddRoute(r)
  <2>1. r \in alive /\ UNCHANGED alive /\ UNCHANGED <<mutexes, local>>
    BY <1>3 DEF AddRoute
  <2>2. \/ /\ r \in Routes /\ routes_mutex = NoThread
           /\ routes' = Append(routes, r) /\ UNCHANGED ws_routes
        \/ /\ r \in WSRoutes /\ ws_routes' = Append(ws_routes, r) /\ UNCHANGED routes
    BY <1>3 DEF AddRoute
  <2>3. TableInv'
    <3>1. routes' \in Seq(Routes \cap alive)
      BY <1>2, <2>1, <2>2
    <3>2. ws_routes' \in Seq(WSRoutes \cap alive)
      BY <1>2, <2>1, <2>2
    <3> QED BY <2>1, <3>1, <3>2 DEF DispatcherInv, TableInv
  <2>4. CASE routes_mutex = NoThread
    BY <2>1, <2>3, <2>4, TablesKept
  <2>5. CASE UNCHANGED routes
    <3>1. \A k \in DOMAIN routes : routes[k] \in alive'
      BY <1>2, <2>1
    <3> QED BY <2>1, <2>3, <2>5, <3>1, TablesKept
  <2> QED BY <2>2, <2>4, <2>5
<1>4. CASE RemoveRoute(r)
  <2>1. /\ routes' \in Seq(Routes \cap alive) /\ ws_routes' \in Seq(WSRoutes \cap alive)
        /\ UNCHANGED alive
    BY <1>2, <1>4, Removing DEF RemoveRoute
  <2>2. TableInv'
    BY <2>1 DEF DispatcherInv, TableInv
  <2>3. UNCHANGED <<mutexes, local>> /\ (routes_mutex = NoThread \/ UNCHANGED routes)
    BY <1>4 DEF RemoveRoute
  <2>4. \A k \in DOMAIN routes : routes[k] \in alive'
    BY <1>2, <2>1
  <2> QED BY <2>2, <2>3, <2>4, TablesKept
<1>5. CASE Destroy(r)
  <2>1. /\ \A k \in DOMAIN routes : routes[k] \in Routes \cap alive'
        /\ \A k \in DOMAIN ws_routes : ws_routes[k] \in WSRoutes \cap alive'
    BY <1>2, <1>5 DEF Destroy, ToSet
  <2>2. routes \in Seq(Routes \cap alive') /\ ws_routes \in Seq(WSRoutes \cap alive')
    BY <1>2, <2>1, LenProperties
  <2>3. TableInv'
    BY <1>5, <2>2 DEF Destroy, DispatcherInv, TableInv
  <2>4. UNCHANGED <<mutexes, local>> /\ UNCHANGED routes
    BY <1>5 DEF Destroy
  <2> QED BY <2>1, <2>3, <2>4, TablesKept
<1> QED BY <1>1, <1>3, <1>4, <1>5

(***************************************************************************)
(* The listening socket, and the theorems                                  *)
(***************************************************************************)

\* Nobody is accepted who did not connect.
SocketInv == ServerTypeOK /\ waiting + accepted <= MaxRequests

IInv == DispatcherInv /\ SocketInv

LEMMA Bound == MaxRequests \in Nat
BY DispatcherAssumption DEF DispatcherAssumption

LEMMA InitIInv == ServerInit => IInv
<1> SUFFICES ASSUME ServerInit PROVE IInv
  OBVIOUS
<1> USE DEF ServerInit, Init
<1>1. TableInv
  BY DEF TableInv
<1>2. LocalInv
  BY Writing DEF LocalInv, Places
<1>3. MutexInv /\ HandlerOnBestRoute /\ \A t \in Threads : AnswerInv(t)
  BY DEF MutexInv, HandlerOnBestRoute, AnswerInv
<1>4. SocketInv
  <2>1. listening \in BOOLEAN /\ running \in BOOLEAN /\ early \in BOOLEAN
    BY Zenon
  <2>2. /\ waiting \in 0..MaxRequests /\ accepted \in 0..MaxRequests
        /\ waiting + accepted <= MaxRequests
    BY Bound
  <2> QED BY <2>1, <2>2 DEF SocketInv, ServerTypeOK
<1> QED BY <1>1, <1>2, <1>3, <1>4 DEF IInv, DispatcherInv

LEMMA DispatcherKept == DispatcherInv /\ UNCHANGED vars => DispatcherInv'
BY DEF vars, DispatcherInv, TableInv, LocalInv, MutexInv, AnswerInv, HandlerOnBestRoute,
       IsBest, Matching

LEMMA SocketSteps ==
    ASSUME SocketInv, AddListener \/ Listen \/ LoopStarts \/ ClientConnects \/ AcceptStep
    PROVE  SocketInv'
<1> USE Bound DEF SocketInv, ServerTypeOK, socketVars
<1>1. CASE AddListener \/ Listen \/ LoopStarts
  <2>1. listening' \in BOOLEAN /\ running' \in BOOLEAN
    BY <1>1 DEF AddListener, Listen, LoopStarts
  <2>2. early' \in BOOLEAN
    BY <1>1 DEF AddListener, Listen, LoopStarts
  <2>3. registered' \in {"no", "armed", "fired", "removed"}
    BY <1>1 DEF AddListener, Listen, LoopStarts
  <2> QED BY <1>1, <2>1, <2>2, <2>3 DEF AddListener, Listen, LoopStarts
<1>2. CASE ClientConnects
  BY <1>2 DEF ClientConnects
<1>3. CASE \E t \in Threads : Fire(t)
  BY <1>3 DEF Fire
<1>4. CASE Hangup \/ AcceptsNoMore \/ Rearm
  BY <1>4 DEF Hangup, AcceptsNoMore, Rearm, Rearmed
<1>5. CASE Accept
  BY <1>5 DEF Accept, Valid
<1> QED BY <1>1, <1>2, <1>3, <1>4, <1>5 DEF AcceptStep

LEMMA SocketKept == SocketInv /\ UNCHANGED serverVars => SocketInv'
BY DEF serverVars, SocketInv, ServerTypeOK

LEMMA NextIInv == IInv /\ [Next]_allVars => IInv'
<1> SUFFICES ASSUME IInv, [Next]_allVars PROVE IInv'
  OBVIOUS
<1> USE DEF IInv
<1>1. CASE AddListener \/ Listen \/ LoopStarts \/ ClientConnects \/ AcceptStep
  <2>1. UNCHANGED vars
    BY <1>1 DEF AddListener, Listen, LoopStarts, ClientConnects, AcceptStep, Fire, Hangup,
                Accept, AcceptsNoMore, Rearm, dispatcherVars
  <2> QED BY <1>1, <2>1, DispatcherKept, SocketSteps
<1>2. ASSUME NEW t \in Threads, Serve(t) PROVE IInv'
  BY <1>2, ArriveStep, ThreadStep, SocketKept DEF Serve
<1>3. CASE Application /\ UNCHANGED serverVars
  BY <1>3, ApplicationStep, SocketKept
<1>4. CASE UNCHANGED allVars
  BY <1>4, DispatcherKept, SocketKept DEF allVars
<1> QED BY <1>1, <1>2, <1>3, <1>4 DEF Next

\* The invariant that the theorems below follow from: the tables hold routes that
\* exist, whoever runs a handler holds the mutex, and what a thread has written
\* is what its place in route or connection_upgrade says.
THEOREM Invariance == Spec => []IInv
<1> QED BY InitIInv, NextIInv, PTL DEF Spec

\* Every variable of the dispatcher keeps its type.
THEOREM TypeCorrect == Spec => []TypeOK
<1>1. ASSUME IInv PROVE TypeOK
  <2>1. ToSet(routes) \subseteq Routes /\ ToSet(ws_routes) \subseteq WSRoutes
    BY <1>1 DEF IInv, DispatcherInv, TableInv, ToSet
  <2>2. \A w \in Written : ToSet(w) \subseteq {101, 200, 400, 404, 405, 500}
    BY DEF Written, Errors, ToSet
  <2>3. \A t \in Threads : ToSet(answers[t]) \subseteq {101, 200, 400, 404, 405, 500}
    BY <1>1, <2>2 DEF IInv, DispatcherInv, LocalInv
  <2> QED BY <1>1, <2>1, <2>3 DEF IInv, DispatcherInv, TableInv, LocalInv, MutexInv,
                                  Places, TypeOK
<1> QED BY <1>1, Invariance, PTL

\* Every variable of the server keeps its type: it never counts more clients than
\* have connected.
THEOREM ServerTypeCorrect == Spec => []ServerTypeOK
<1>1. IInv => ServerTypeOK
  BY DEF IInv, SocketInv
<1> QED BY <1>1, Invariance, PTL

\* Whatever routes the application adds, removes and destroys, a handler runs on
\* a route that exists and is the best of those registered, since route keeps the
\* mutex locked while it runs.
THEOREM HandlersOnBestRoute == Spec => []HandlerOnBestRoute
<1>1. IInv => HandlerOnBestRoute
  BY DEF IInv, DispatcherInv
<1> QED BY <1>1, Invariance, PTL

\* A request gets one answer, and a connection becomes a websocket after a lone
\* 101 only, for any threads and routes.
THEOREM OneAnswerEach == Spec => AnsweredOnce
<1>1. ASSUME IInv, [Next]_allVars, NEW t \in Threads, request[t] # <<>>, request'[t] = <<>>
      PROVE  Answered(t)'
  <2>1. request' # request
    BY <1>1
  <2>2. PICK u \in Threads : Serve(u)
    <3>1. CASE AddListener \/ Listen \/ LoopStarts \/ ClientConnects \/ AcceptStep
      BY <2>1, <3>1 DEF AddListener, Listen, LoopStarts, ClientConnects, AcceptStep, Fire,
                        Hangup, Accept, AcceptsNoMore, Rearm, dispatcherVars, vars
    <3>2. CASE Application
      BY <2>1, <3>2 DEF Application, AddRoute, RemoveRoute, Destroy, local
    <3>3. CASE UNCHANGED allVars
      BY <2>1, <3>3 DEF allVars, vars
    <3> QED BY <1>1, <3>1, <3>2, <3>3 DEF Next
  <2>3. CASE Step(u)
    <3>1. u = t
      BY <1>1, <2>3, RequestKept DEF IInv
    <3> QED BY <1>1, <2>3, <3>1, ThreadStep DEF IInv
  <2>4. CASE Request(u)
    <3>1. PICK q : request' = [request EXCEPT ![u] = q] /\ pc[u] = "idle"
      BY <2>4 DEF Request, Arrive
    <3>2. request[u] = <<>> /\ (u # t => request'[t] = request[t])
      BY <1>1, <3>1 DEF IInv, DispatcherInv, AnswerInv, LocalInv
    <3> QED BY <1>1, <3>2
  <2> QED BY <2>2, <2>3, <2>4 DEF Serve
<1>2. IInv /\ [Next]_allVars => [\A t \in Threads : request[t] # <<>> /\ request'[t] = <<>> =>
          /\ Len(answers'[t]) = 1 \/ answers'[t] \in {<<101, 400>>, <<101, 500>>}
          /\ protocol'[t] = "websocket" <=> answers'[t] = <<101>>]_vars
  BY <1>1 DEF Answered
<1> QED BY <1>2, Invariance, PTL DEF Spec, AnsweredOnce

=============================================================================
