------------------------------- MODULE AutoPing -------------------------------
(***************************************************************************)
(* setAutoPing of a websocket: the timer that sends pings, the timer that  *)
(* closes the connection unless a pong arrives in time, and a client that  *)
(* may die without a word.                                                 *)
(*                                                                         *)
(* Time passes in Ticks, and none passes while the loop has something to   *)
(* do: its threads are fast.  The ping's callback, which starts the        *)
(* timeout, is a step of its own, as another thread may read the pong      *)
(* before it.                                                              *)
(***************************************************************************)
EXTENDS Naturals, Sequences, SequencesExt

CONSTANTS
    Intervals, Timeouts,    \* what setAutoPing may be called with
    Latency,                \* a client that lives answers within so many ticks
    Room,                   \* pings that the kernel takes from an empty buffer
    MaxQueue                \* bound: pings that are counted in transmit_jobs

ASSUME AutoPingAssumption ==
    /\ Intervals \subseteq Nat \ {0} /\ Timeouts \subseteq Nat
    /\ Latency \in Nat /\ \A t \in Timeouts : Latency < t
    /\ Room \in Nat /\ MaxQueue \in Nat \ {0}

VARIABLES
    \* the connection and its client
    con, alive,
    room,           \* pings that the kernel still takes
    pings,          \* the ages of the pings the client has not answered
    queued,         \* pings in transmit_jobs
    callbacks,      \* pings that were sent and whose callback has not run
    closing,        \* the close frame: "no", "queued" or "sent"
    \* PingTimers
    interval, timeout,      \* 0 before setAutoPing
    registered,             \* the loop knows the timers
    ping_timer,             \* ticks until the next ping
    timeout_timer,          \* ticks until the timeout, when it is
    timeout_set,            \* started
    \* history
    told,           \* calls of onClose
    overtaken,      \* the pong that came last was read before the ping's callback
    slack,          \* when the client died: room beyond what was queued
    deadFor         \* ticks since then, at most one more than are of interest

conVars == <<con, alive, room, pings, queued, closing>>
settings == <<interval, timeout, registered>>
timeoutVars == <<timeout_timer, timeout_set>>
history == <<told, overtaken, slack, deadFor>>
vars == <<con, alive, room, pings, queued, callbacks, closing, interval, timeout,
          registered, ping_timer, timeout_timer, timeout_set, told, overtaken,
          slack, deadFor>>

Init == /\ con = TRUE /\ alive = TRUE /\ room \in 0..Room
        /\ pings = <<>> /\ queued = 0 /\ callbacks = 0 /\ closing = "no"
        /\ interval = 0 /\ timeout = 0 /\ registered = FALSE
        /\ ping_timer = 0 /\ timeout_timer = 0 /\ timeout_set = FALSE
        /\ told = 0 /\ overtaken = FALSE /\ slack = 0 /\ deadFor = 0

Lesser(a, b) == IF a <= b THEN a ELSE b

(***************************************************************************)
(* The timers                                                              *)
(***************************************************************************)

setAutoPing(i, t) ==
    /\ con /\ told = 0 /\ interval = 0
    /\ interval' = i /\ timeout' = t /\ registered' = TRUE
    /\ ping_timer' = i
    /\ UNCHANGED <<conVars, callbacks, timeoutVars, history>>

PingDue == registered /\ ping_timer = 0
TimeoutDue == registered /\ timeout_set /\ timeout_timer = 0

\* Mutant: the ping is sent without its callback.
FaultyAfterSent == UNCHANGED callbacks

AfterSent == callbacks' = callbacks + 1

\* A ping reaches the kernel; a dead client does not answer it.
SendPing == /\ room' = room - 1
            /\ pings' = IF alive THEN Append(pings, 0) ELSE pings
            /\ AfterSent

\* The handler of the ping timer: write sends the ping or queues it.
Ping ==
    /\ PingDue
    /\ IF room > 0 /\ queued = 0
       THEN SendPing /\ UNCHANGED queued
       ELSE queued' = Lesser(MaxQueue, queued + 1) /\ UNCHANGED <<room, pings, callbacks>>
    /\ ping_timer' = interval
    /\ UNCHANGED <<con, alive, closing, settings, timeoutVars, history>>

SendQueued ==
    /\ con /\ queued > 0 /\ room > 0
    /\ SendPing
    /\ queued' = queued - 1
    /\ UNCHANGED <<con, alive, closing, settings, ping_timer, timeoutVars, history>>

\* Mutant: the timeout is counted from the next ping.
FaultyReset == timeout_timer' = interval + timeout /\ timeout_set' = TRUE

Reset == timeout_timer' = timeout /\ timeout_set' = TRUE

\* on_after_sent of a ping, also when an earlier one is not answered.
Callback ==
    /\ callbacks > 0
    /\ callbacks' = callbacks - 1
    /\ Reset
    /\ UNCHANGED <<conVars, settings, ping_timer, history>>

\* Mutant: the timeout goes on.
FaultyCancel == UNCHANGED timeout_set

Cancel == timeout_set' = FALSE

Pong ==
    /\ con /\ alive /\ pings # <<>>
    /\ pings' = Tail(pings)
    /\ Cancel
    /\ overtaken' = (callbacks > 0)
    /\ UNCHANGED <<con, alive, room, queued, callbacks, closing, settings,
                   ping_timer, timeout_timer, told, slack, deadFor>>

\* close(normal, "ping timeout"): the socket is closed when the frame is sent,
\* which comes after all that is queued.
Timeout ==
    /\ TimeoutDue
    /\ registered' = FALSE
    /\ told' = told + 1
    /\ IF room > 0 /\ queued = 0 THEN closing' = "sent" /\ con' = FALSE
                                 ELSE closing' = "queued" /\ UNCHANGED con
    /\ UNCHANGED <<alive, room, pings, queued, callbacks, interval, timeout,
                   ping_timer, timeoutVars, overtaken, slack, deadFor>>

CloseSent ==
    /\ con /\ closing = "queued" /\ queued = 0 /\ room > 0
    /\ closing' = "sent" /\ con' = FALSE
    /\ UNCHANGED <<alive, room, pings, queued, callbacks, settings, ping_timer,
                   timeoutVars, history>>

Loop == Ping \/ SendQueued \/ Callback \/ Timeout \/ CloseSent

(***************************************************************************)
(* The client, the other data of the connection, and time                  *)
(***************************************************************************)

\* The client reads, or what the application sends fills the buffer.
RoomChanges ==
    /\ con /\ alive
    /\ room' \in 0..Room \ {room}
    /\ UNCHANGED <<con, alive, pings, queued, callbacks, closing, settings,
                   ping_timer, timeoutVars, history>>

Dies ==
    /\ con /\ alive
    /\ alive' = FALSE /\ pings' = <<>>
    /\ slack' = IF room > queued THEN room - queued ELSE 0
    /\ UNCHANGED <<con, room, queued, callbacks, closing, settings, ping_timer,
                   timeoutVars, told, overtaken, deadFor>>

\* The client closes the connection: onPeerClose.
PeerCloses ==
    /\ con /\ alive
    /\ told' = told + 1
    /\ con' = FALSE /\ registered' = FALSE
    /\ UNCHANGED <<alive, room, pings, queued, callbacks, closing, interval, timeout,
                   ping_timer, timeoutVars, overtaken, slack, deadFor>>

Busy == \/ PingDue \/ TimeoutDue \/ callbacks > 0
        \/ con /\ room > 0 /\ (queued > 0 \/ closing = "queued")

Less(n) == IF n = 0 THEN 0 ELSE n - 1

Tick ==
    /\ con /\ interval # 0 /\ ~Busy
    /\ alive => \A k \in DOMAIN pings : pings[k] < Latency
    /\ pings' = [k \in DOMAIN pings |-> pings[k] + 1]
    /\ ping_timer' = Less(ping_timer) /\ timeout_timer' = Less(timeout_timer)
    /\ deadFor' = IF alive THEN 0 ELSE Lesser(interval + timeout + 1, deadFor + 1)
    /\ UNCHANGED <<con, alive, room, queued, callbacks, closing, settings, timeout_set,
                   told, overtaken, slack>>

Next == \/ \E i \in Intervals, t \in Timeouts : setAutoPing(i, t)
        \/ Loop
        \/ Pong \/ RoomChanges \/ Dies \/ PeerCloses
        \/ Tick

Spec == Init /\ [][Next]_vars

\* Time passes and the loop runs what is due.
FairSpec == Spec /\ WF_vars(Loop) /\ WF_vars(Tick)

(***************************************************************************)
(* Properties                                                              *)
(***************************************************************************)

\* Every variable has its type; a started timeout is never longer than timeout.
TypeOK ==
    /\ con \in BOOLEAN /\ alive \in BOOLEAN /\ room \in 0..Room
    /\ pings \in Seq(0..Latency) /\ queued \in 0..MaxQueue /\ callbacks \in Nat
    /\ closing \in {"no", "queued", "sent"}
    /\ interval \in Intervals \cup {0} /\ timeout \in Timeouts \cup {0}
    /\ registered \in BOOLEAN /\ ping_timer \in 0..interval
    /\ timeout_timer \in 0..timeout /\ timeout_set \in BOOLEAN
    /\ told \in Nat /\ overtaken \in BOOLEAN /\ slack \in 0..Room
    /\ deadFor \in 0..(interval + timeout + 1)

\* A client that answers in time is not dropped, however interval, timeout and
\* its latency relate and however long its pings were queued; unless its last
\* pong was read, by another thread, before the callback of the ping.
NoFalseTimeout == [][Timeout => ~alive \/ overtaken]_vars

\* "how long to wait for a timeout before considering this connection broken": when
\* the pings are further apart than the timeout, a dead client's connection is
\* closed within interval and timeout, if the kernel has room for a ping and for
\* the close frame.
DetectedInTime ==
    timeout < interval /\ slack >= 2 /\ deadFor > interval + timeout => ~con

\* With pings that are closer together than the timeout each one starts it
\* again; but the kernel's buffer fills, and in the end the handler is told of
\* every dead client that one ping could still be sent to.
DeadClientNoticed ==
    ~alive /\ slack > 0 /\ interval # 0 ~> told > 0
===============================================================================
