-------------------------------- MODULE Server --------------------------------
(***************************************************************************)
(* Server: the listening socket, whose handler accepts clients, and the    *)
(* dispatcher, which the threads of the loop share with it.  The client    *)
(* of an accepted connection sends one request; what a connection does     *)
(* with several is HttpProtocol's matter.                                  *)
(***************************************************************************)
EXTENDS Dispatcher

VARIABLES
    listening,      \* ss.listen was called
    registered,     \* the one-shot registration: "no", "armed", "fired", "removed"
    running,        \* the threads run the loop
    early,          \* history: they did so before ss.listen was called
    waiting,        \* clients in the backlog
    accepted,       \* connections that were handed to the loop
    acceptor,       \* the thread in the socket's handler
    acceptPc        \* where it is

socketVars == <<listening, registered, running, early>>
serverVars == <<listening, registered, running, early, waiting, accepted,
                acceptor, acceptPc>>
dispatcherVars == vars
allVars == <<vars, serverVars>>

ServerInit ==
    /\ Init
    /\ listening = FALSE /\ registered = "no" /\ running = FALSE /\ early = FALSE
    /\ waiting = 0 /\ accepted = 0 /\ acceptor = NoThread /\ acceptPc = "idle"

(***************************************************************************)
(* listen, and the threads that the application lets run the loop          *)
(***************************************************************************)

AddListener ==
    /\ registered = "no"
    /\ registered' = "armed"
    /\ UNCHANGED <<dispatcherVars, listening, running, early, waiting, accepted,
                   acceptor, acceptPc>>

Listen ==
    /\ registered # "no" /\ ~listening
    /\ listening' = TRUE
    /\ UNCHANGED <<dispatcherVars, registered, running, early, waiting, accepted,
                   acceptor, acceptPc>>

LoopStarts ==
    /\ ~running
    /\ running' = TRUE /\ early' = ~listening
    /\ UNCHANGED <<dispatcherVars, listening, registered, waiting, accepted,
                   acceptor, acceptPc>>

(***************************************************************************)
(* The handler of the listening socket                                     *)
(***************************************************************************)

ClientConnects ==
    /\ listening /\ waiting + accepted < MaxRequests
    /\ waiting' = waiting + 1
    /\ UNCHANGED <<dispatcherVars, socketVars, accepted, acceptor, acceptPc>>

Free(t) == pc[t] = "idle" /\ acceptor # t

\* epoll reports the socket: EPOLLIN, or EPOLLHUP before ss.listen.
Fire(t) ==
    /\ running /\ registered = "armed" /\ Free(t)
    /\ ~listening \/ waiting > 0
    /\ registered' = "fired"
    /\ acceptor' = t
    /\ acceptPc' = IF listening THEN "accept" ELSE "hangup"
    /\ UNCHANGED <<dispatcherVars, listening, running, early, waiting, accepted>>

\* flags != EPOLLIN: the socket is taken out of the loop.
Hangup ==
    /\ acceptPc = "hangup"
    /\ registered' = "removed"
    /\ acceptor' = NoThread /\ acceptPc' = "idle"
    /\ UNCHANGED <<dispatcherVars, listening, running, early, waiting, accepted>>

\* Mutant: what accept returns is not looked at.
FaultyValid == TRUE

\* accept returns a valid socket.
Valid == waiting > 0

Accept ==
    /\ acceptPc = "accept" /\ Valid
    /\ waiting' = waiting - 1 /\ accepted' = accepted + 1
    /\ UNCHANGED <<dispatcherVars, socketVars, acceptor, acceptPc>>

\* Nobody waits, or accept fails although somebody does: the loop is left.
AcceptsNoMore ==
    /\ acceptPc = "accept"
    /\ acceptPc' = "rearm"
    /\ UNCHANGED <<dispatcherVars, socketVars, waiting, accepted, acceptor>>

\* Mutant: the one-shot registration is not renewed.
FaultyRearmed == "fired"

Rearmed == "armed"

Rearm ==
    /\ acceptPc = "rearm"
    /\ registered' = Rearmed
    /\ acceptor' = NoThread /\ acceptPc' = "idle"
    /\ UNCHANGED <<dispatcherVars, listening, running, early, waiting, accepted>>

AcceptStep == (\E t \in Threads : Fire(t)) \/ Hangup \/ Accept \/ AcceptsNoMore \/ Rearm

\* Requests come from accepted connections, to threads that do nothing else.
Serve(t) ==
    /\ \/ Free(t) /\ requests < accepted /\ Request(t)
       \/ Step(t)
    /\ UNCHANGED serverVars

\* (What the application does to the routes before the loop runs is not seen by
\* anybody else; it may as well do it afterwards.)
Next == \/ AddListener \/ Listen \/ LoopStarts \/ ClientConnects
        \/ AcceptStep
        \/ \E t \in Threads : Serve(t)
        \/ running /\ Application /\ UNCHANGED serverVars

Spec == ServerInit /\ [][Next]_allVars

\* A thread that can go on does so, the application's handlers return, and epoll
\* does not withhold an event for ever; accept does not fail each time.
FairSpec == /\ Spec
            /\ \A t \in Threads : WF_allVars(Step(t) /\ UNCHANGED serverVars)
            /\ WF_allVars(Hangup \/ AcceptsNoMore \/ Rearm)
            /\ SF_allVars(\E t \in Threads : Fire(t))
            /\ SF_allVars(Accept)

(***************************************************************************)
(* Properties                                                              *)
(***************************************************************************)

\* Every variable of the server has its type.
ServerTypeOK ==
    /\ listening \in BOOLEAN /\ running \in BOOLEAN /\ early \in BOOLEAN
    /\ registered \in {"no", "armed", "fired", "removed"}
    /\ waiting \in 0..MaxRequests /\ accepted \in 0..MaxRequests
    /\ acceptor \in Threads \cup {NoThread}
    /\ acceptPc \in {"idle", "accept", "hangup", "rearm"}

\* Every client that connects is accepted although the threads are busy with
\* requests and accept may fail, if the loop was started after listen as the
\* README does, and unless the use of a destroyed route has ended a thread.
EveryClientAccepted ==
    running /\ waiting > 0 /\ ~early ~> waiting = 0 \/ \E t \in Threads : pc[t] = "undefined"
===============================================================================
