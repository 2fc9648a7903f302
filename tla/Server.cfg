SPECIFICATION FairSpec
CONSTANTS
    Threads = {t1, t2}
    NoThread = NoThread
    NoRoute = NoRoute
    Routes = {r1, r2}
    WSRoutes = {w1}
    Scores = {1, 2}
    Refusals = {405}
    MaxRequests = 2
CHECK_DEADLOCK FALSE
INVARIANTS
    TypeOK
    ServerTypeOK
    HandlerOnBestRoute
PROPERTIES
    AnsweredOnce
    EveryRequestEnds
    EveryClientAccepted
