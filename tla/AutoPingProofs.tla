---------------------------- MODULE AutoPingProofs ----------------------------
(***************************************************************************)
(* Proofs about AutoPing for all intervals and timeouts, and for every     *)
(* latency of the client that is below the timeouts.                       *)
(***************************************************************************)
EXTENDS AutoPing, SequenceTheorems, TLAPS

\* Before setAutoPing nothing is sent, and nothing is due.
BeforeInv ==
    interval = 0 => queued = 0 /\ callbacks = 0 /\ ~registered /\ ~timeout_set

\* While a callback is due no time passes: the ping it belongs to is unanswered
\* and new, unless its pong has overtaken it.
CallbackInv ==
    alive /\ ~overtaken /\ callbacks > 0 => pings # <<>> /\ Last(pings) = 0

\* What is left of a running timeout and the age of some unanswered ping make up
\* the whole of it.
AgeInv ==
    alive /\ ~overtaken /\ timeout_set =>
        \E k \in DOMAIN pings : timeout_timer + pings[k] >= timeout

\* The settings are such as setAutoPing may be called with, or those before it.
SettingsInv == IF interval = 0 THEN timeout = 0 ELSE timeout \in Timeouts

\* A dead client owes no pong.
DeadInv == ~alive => pings = <<>>

IInv == TypeOK /\ BeforeInv /\ SettingsInv /\ DeadInv /\ CallbackInv /\ AgeInv

LEMMA Constants ==
    /\ Latency \in Nat /\ Room \in Nat /\ MaxQueue \in Nat \ {0}
    /\ \A i \in Intervals : i \in Nat /\ i # 0
    /\ \A t \in Timeouts : t \in Nat /\ Latency < t
BY AutoPingAssumption DEF AutoPingAssumption

LEMMA InitIInv == Init => IInv
<1> SUFFICES ASSUME Init PROVE IInv
  OBVIOUS
<1>1. pings \in Seq(0..Latency) /\ pings = <<>>
  BY DEF Init
<1>2. room \in 0..Room /\ slack \in 0..Room /\ queued \in 0..MaxQueue
  BY Constants DEF Init
<1>3. /\ ping_timer \in 0..interval /\ timeout_timer \in 0..timeout
      /\ deadFor \in 0..(interval + timeout + 1)
  BY DEF Init
<1>4. TypeOK
  BY <1>1, <1>2, <1>3 DEF Init, TypeOK
<1>5. BeforeInv /\ SettingsInv /\ DeadInv /\ CallbackInv /\ AgeInv
  BY DEF Init, BeforeInv, SettingsInv, DeadInv, CallbackInv, AgeInv
<1> QED BY <1>4, <1>5 DEF IInv

\* A ping that reaches the kernel is unanswered and new.
LEMMA SendPingStep ==
    ASSUME IInv, interval # 0, room > 0, SendPing,
           UNCHANGED <<alive, interval, timeout, timeoutVars, overtaken>>
    PROVE  /\ room' \in 0..Room /\ pings' \in Seq(0..Latency) /\ callbacks' \in Nat
           /\ DeadInv' /\ CallbackInv' /\ AgeInv'
<1>1. /\ pings \in Seq(0..Latency) /\ 0 \in 0..Latency /\ callbacks \in Nat /\ room \in 0..Room
  BY Constants DEF IInv, TypeOK
<1>2. room' \in 0..Room /\ callbacks' \in Nat
  BY <1>1, Constants DEF SendPing, AfterSent
<1>3. CASE alive
  <2>1. pings' = Append(pings, 0) BY <1>3 DEF SendPing
  <2>2. /\ pings' \in Seq(0..Latency) /\ pings' # <<>> /\ Last(pings') = 0
        /\ \A k \in DOMAIN pings : k \in DOMAIN pings' /\ pings'[k] = pings[k]
    <3>1. Append(pings, 0) \in Seq(0..Latency) BY <1>1
    <3>2. /\ Len(Append(pings, 0)) = Len(pings) + 1 /\ Append(pings, 0)[Len(pings) + 1] = 0
          /\ Append(pings, 0) # <<>>
      BY <1>1
    <3>3. \A k \in DOMAIN pings : k \in DOMAIN Append(pings, 0) /\ Append(pings, 0)[k] = pings[k]
      BY <1>1
    <3> QED BY <2>1, <3>1, <3>2, <3>3 DEF Last
  <2>3. DeadInv' /\ CallbackInv' BY <1>3, <2>2 DEF DeadInv, CallbackInv
  <2>4. AgeInv' BY <2>2 DEF AgeInv, IInv, timeoutVars
  <2> QED BY <1>2, <2>2, <2>3, <2>4
<1>4. CASE ~alive
  BY <1>1, <1>2, <1>4 DEF SendPing, IInv, DeadInv, CallbackInv, AgeInv
<1> QED BY <1>3, <1>4

(***************************************************************************)
(* Every step keeps the invariant                                          *)
(***************************************************************************)

LEMMA Types ==
    ASSUME IInv
    PROVE  /\ interval \in Nat /\ timeout \in Nat /\ ping_timer \in Nat
           /\ timeout_timer \in Nat /\ queued \in Nat /\ room \in Nat /\ deadFor \in Nat
           /\ timeout_timer <= timeout /\ pings \in Seq(0..Latency)
           /\ alive \in BOOLEAN /\ con \in BOOLEAN /\ callbacks \in Nat
           /\ interval # 0 => Latency < timeout
BY Constants DEF IInv, TypeOK, SettingsInv

LEMMA SettingStep ==
    ASSUME IInv, NEW i \in Intervals, NEW t \in Timeouts, setAutoPing(i, t)
    PROVE  IInv'
<1> USE DEF setAutoPing, conVars, timeoutVars, history
<1>1. /\ i \in Nat /\ i # 0 /\ t \in Nat
      /\ ~timeout_set /\ callbacks = 0 /\ timeout = 0 /\ interval = 0
  BY Constants DEF IInv, BeforeInv, SettingsInv, DeadInv
<1>2. TypeOK'
  <2>1. ping_timer' \in 0..interval' /\ interval' \in Intervals /\ timeout' \in Timeouts
    BY <1>1
  <2>2. timeout_timer' \in 0..timeout' /\ deadFor' \in 0..(interval' + timeout' + 1)
    BY <1>1 DEF IInv, TypeOK
  <2> QED BY <2>1, <2>2 DEF IInv, TypeOK
<1>3. BeforeInv' /\ SettingsInv' /\ DeadInv' /\ CallbackInv' /\ AgeInv'
  BY <1>1 DEF IInv, BeforeInv, SettingsInv, DeadInv, CallbackInv, AgeInv
<1> QED BY <1>2, <1>3 DEF IInv

LEMMA PingStep ==
    ASSUME IInv, Ping
    PROVE  IInv'
<1> USE DEF Ping, conVars, settings, timeoutVars, history, PingDue
<1>1. interval # 0 /\ interval \in Nat
  BY Types DEF IInv, BeforeInv
<1>2. ping_timer' \in 0..interval
  BY <1>1
<1>3. CASE room > 0 /\ queued = 0
  <2>1. SendPing /\ UNCHANGED queued
    BY <1>3
  <2>2. /\ room' \in 0..Room /\ pings' \in Seq(0..Latency) /\ callbacks' \in Nat
        /\ DeadInv' /\ CallbackInv' /\ AgeInv'
    BY <1>1, <1>3, <2>1, SendPingStep
  <2>3. TypeOK'
    BY <1>2, <2>1, <2>2 DEF IInv, TypeOK
  <2>4. BeforeInv' /\ SettingsInv'
    BY <1>1 DEF IInv, BeforeInv, SettingsInv
  <2> QED BY <2>2, <2>3, <2>4 DEF IInv
<1>4. CASE ~(room > 0 /\ queued = 0)
  <2>1. queued' = Lesser(MaxQueue, queued + 1) /\ UNCHANGED <<room, pings, callbacks>>
    BY <1>4
  <2>2. queued' \in 0..MaxQueue
    BY <2>1, Types, Constants DEF Lesser
  <2>3. TypeOK'
    BY <1>2, <2>1, <2>2 DEF IInv, TypeOK
  <2>4. BeforeInv' /\ SettingsInv' /\ DeadInv' /\ CallbackInv' /\ AgeInv'
    BY <1>1, <2>1 DEF IInv, BeforeInv, SettingsInv, DeadInv, CallbackInv, AgeInv
  <2> QED BY <2>3, <2>4 DEF IInv
<1> QED BY <1>3, <1>4

LEMMA QueuedStep ==
    ASSUME IInv, SendQueued
    PROVE  IInv'
<1> USE DEF SendQueued, settings, timeoutVars, history
<1>0. interval # 0
  BY Types DEF IInv, BeforeInv
<1>1. /\ room' \in 0..Room /\ pings' \in Seq(0..Latency) /\ callbacks' \in Nat
      /\ DeadInv' /\ CallbackInv' /\ AgeInv'
  BY <1>0, SendPingStep
<1>2. queued' \in 0..MaxQueue
  BY Types, Constants DEF IInv, TypeOK
<1>3. TypeOK'
  BY <1>1, <1>2 DEF IInv, TypeOK
<1>4. BeforeInv' /\ SettingsInv'
  BY <1>0 DEF IInv, BeforeInv, SettingsInv
<1> QED BY <1>1, <1>3, <1>4 DEF IInv

LEMMA CallbackStep ==
    ASSUME IInv, Callback
    PROVE  IInv'
<1> USE DEF Callback, Reset, conVars, settings, history
<1>1. callbacks' \in Nat /\ interval # 0 /\ timeout_timer' \in 0..timeout'
  BY Types DEF IInv, BeforeInv
<1>2. TypeOK'
  BY <1>1 DEF IInv, TypeOK
<1>3. BeforeInv' /\ SettingsInv' /\ DeadInv' /\ CallbackInv'
  BY <1>1, Types DEF IInv, BeforeInv, SettingsInv, DeadInv, CallbackInv
<1>4. AgeInv'
  <2> SUFFICES ASSUME alive, ~overtaken
               PROVE  \E k \in DOMAIN pings : timeout + pings[k] >= timeout
    BY DEF AgeInv
  <2>1. pings # <<>> /\ Last(pings) = 0
    BY DEF IInv, CallbackInv
  <2>2. Len(pings) \in DOMAIN pings /\ pings[Len(pings)] = 0
    BY <2>1, Types DEF Last
  <2> QED BY <2>2, Types
<1> QED BY <1>2, <1>3, <1>4 DEF IInv

LEMMA PongStep ==
    ASSUME IInv, Pong
    PROVE  IInv'
<1> USE DEF Pong, Cancel, settings
<1>1. pings' \in Seq(0..Latency)
  BY Types
<1>2. overtaken' \in BOOLEAN
  OBVIOUS
<1>3. TypeOK'
  BY <1>1, <1>2 DEF IInv, TypeOK
<1>4. BeforeInv' /\ SettingsInv' /\ DeadInv' /\ CallbackInv' /\ AgeInv'
  BY DEF IInv, BeforeInv, SettingsInv, DeadInv, CallbackInv, AgeInv
<1> QED BY <1>3, <1>4 DEF IInv

LEMMA CloseSteps ==
    ASSUME IInv, Timeout \/ CloseSent \/ PeerCloses
    PROVE  IInv'
<1> USE DEF Timeout, CloseSent, PeerCloses, settings, timeoutVars, history
<1>1. TypeOK'
  <2>1. told \in Nat /\ con \in BOOLEAN /\ closing \in {"no", "queued", "sent"}
    BY DEF IInv, TypeOK
  <2>2. told' \in Nat
    BY <2>1
  <2>3. con' \in BOOLEAN /\ closing' \in {"no", "queued", "sent"}
    BY <2>1
  <2> QED BY <2>2, <2>3 DEF IInv, TypeOK
<1>2. BeforeInv' /\ SettingsInv' /\ DeadInv' /\ CallbackInv' /\ AgeInv'
  BY DEF IInv, BeforeInv, SettingsInv, DeadInv, CallbackInv, AgeInv
<1> QED BY <1>1, <1>2 DEF IInv

LEMMA ClientSteps ==
    ASSUME IInv, RoomChanges \/ Dies
    PROVE  IInv'
<1> USE DEF RoomChanges, Dies, settings, timeoutVars, history
<1>1. CASE RoomChanges
  <2>1. TypeOK'
    BY <1>1 DEF IInv, TypeOK
  <2>2. BeforeInv' /\ SettingsInv' /\ DeadInv' /\ CallbackInv' /\ AgeInv'
    BY <1>1 DEF IInv, BeforeInv, SettingsInv, DeadInv, CallbackInv, AgeInv
  <2> QED BY <2>1, <2>2 DEF IInv
<1>2. CASE Dies
  <2>1. slack' \in 0..Room
    BY <1>2, Constants, Types DEF IInv, TypeOK
  <2>2. pings' \in Seq(0..Latency)
    BY <1>2
  <2>3. TypeOK'
    BY <1>2, <2>1, <2>2 DEF IInv, TypeOK
  <2>4. BeforeInv' /\ SettingsInv' /\ DeadInv' /\ CallbackInv' /\ AgeInv'
    BY <1>2 DEF IInv, BeforeInv, SettingsInv, DeadInv, CallbackInv, AgeInv
  <2> QED BY <2>3, <2>4 DEF IInv
<1> QED BY <1>1, <1>2

\* A timer loses no more than one, and stops at 0.
LEMMA LessKept ==
    ASSUME NEW limit \in Nat, NEW n \in 0..limit
    PROVE  Less(n) \in 0..limit /\ Less(n) >= n - 1
BY DEF Less

\* Time: what the timeout loses the pings gain.
LEMMA TickStep ==
    ASSUME IInv, Tick
    PROVE  IInv'
<1> USE DEF Tick, settings
<1>0. pings \in [1..Len(pings) -> 0..Latency] /\ Len(pings) \in Nat
  BY Types, LenProperties
<1>1. \A k \in 1..Len(pings) : pings[k] \in 0..Latency /\ (alive => pings[k] < Latency)
  BY <1>0
<1>2. /\ pings' = [k \in 1..Len(pings) |-> pings[k] + 1]
      /\ DOMAIN pings = 1..Len(pings)
  BY <1>0
<1>3. pings' \in Seq(0..Latency)
  <2>1. ~alive => Len(pings) = 0
    BY DEF IInv, DeadInv
  <2>2. \A k \in 1..Len(pings) : pings[k] + 1 \in 0..Latency
    BY <1>0, <1>1, <2>1, Constants
  <2>3. pings' \in [1..Len(pings) -> 0..Latency]
    BY <1>2, <2>2
  <2> QED BY <1>0, <2>3
<1>4. /\ ping_timer' \in 0..interval /\ timeout_timer' \in 0..timeout
      /\ timeout_timer' >= timeout_timer - 1
      /\ deadFor' \in 0..(interval + timeout + 1)
  <2>1. /\ ping_timer \in 0..interval /\ timeout_timer \in 0..timeout
        /\ interval \in Nat /\ timeout \in Nat /\ deadFor \in Nat
    BY Types DEF IInv, TypeOK
  <2>2. /\ ping_timer' = Less(ping_timer) /\ timeout_timer' = Less(timeout_timer)
        /\ deadFor' = 0 \/ deadFor' = Lesser(interval + timeout + 1, deadFor + 1)
    OBVIOUS
  <2> HIDE DEF Tick
  <2> QED BY <2>1, <2>2, LessKept DEF Lesser
<1>5. TypeOK'
  BY <1>3, <1>4 DEF IInv, TypeOK
<1>6. BeforeInv' /\ SettingsInv' /\ DeadInv'
  BY DEF IInv, BeforeInv, SettingsInv, DeadInv
<1>7. CallbackInv'
  BY Types DEF Busy, CallbackInv
<1>8. AgeInv'
  <2> SUFFICES ASSUME alive, ~overtaken, timeout_set
               PROVE  \E k \in DOMAIN pings' : timeout_timer' + pings'[k] >= timeout
    BY DEF AgeInv
  <2>1. PICK k \in DOMAIN pings : timeout_timer + pings[k] >= timeout
    BY DEF IInv, AgeInv
  <2>2. timeout_timer' + pings'[k] >= timeout
    <3>1. pings'[k] = pings[k] + 1 /\ pings[k] \in Nat
      BY <1>0, <1>1, <1>2, <2>1
    <3>2. timeout_timer' \in Nat /\ timeout_timer \in Nat /\ timeout \in Nat
      BY <1>4, Types
    <3> HIDE DEF Tick
    <3> QED BY <1>4, <2>1, <3>1, <3>2
  <2> QED BY <1>2, <2>2
<1> QED BY <1>5, <1>6, <1>7, <1>8 DEF IInv

(***************************************************************************)
(* The theorems                                                            *)
(***************************************************************************)

LEMMA NextIInv == IInv /\ [Next]_vars => IInv'
<1> SUFFICES ASSUME IInv, [Next]_vars PROVE IInv'
  OBVIOUS
<1>1. ASSUME NEW i \in Intervals, NEW t \in Timeouts, setAutoPing(i, t) PROVE IInv'
  BY <1>1, SettingStep
<1>2. CASE Loop
  BY <1>2, PingStep, QueuedStep, CallbackStep, CloseSteps DEF Loop
<1>3. CASE Pong \/ RoomChanges \/ Dies \/ PeerCloses
  BY <1>3, PongStep, ClientSteps, CloseSteps
<1>4. CASE Tick
  BY <1>4, TickStep
<1>5. CASE UNCHANGED vars
  BY <1>5 DEF vars, IInv, TypeOK, BeforeInv, SettingsInv, DeadInv, CallbackInv, AgeInv
<1> QED BY <1>1, <1>2, <1>3, <1>4, <1>5 DEF Next

\* The settings, timers and pings always satisfy the invariant: a running timeout
\* and the age of some unanswered ping make up the whole timeout.
THEOREM Invariance == Spec => []IInv
<1> QED BY InitIInv, NextIInv, PTL DEF Spec

\* Every variable keeps its type; a started timeout is never longer than timeout.
THEOREM TypeCorrect == Spec => []TypeOK
<1>1. IInv => TypeOK
  BY DEF IInv
<1> QED BY <1>1, Invariance, PTL

\* A client that answers within Latency is never dropped by the timeout, for any
\* interval and any timeout above that latency, unless another thread read its
\* last pong before the callback of the ping ran.
THEOREM AnsweringClientsStay == Spec => NoFalseTimeout
<1>1. IInv /\ Timeout => ~alive \/ overtaken
  <2> SUFFICES ASSUME IInv, Timeout, alive, ~overtaken PROVE FALSE
    BY DEF IInv, TypeOK
  <2>1. timeout_set /\ timeout_timer = 0 /\ interval # 0
    BY DEF Timeout, TimeoutDue, IInv, BeforeInv
  <2>2. PICK k \in DOMAIN pings : timeout_timer + pings[k] >= timeout
    BY <2>1 DEF IInv, AgeInv
  <2>3. pings[k] \in 0..Latency
    <3>1. k \in 1..Len(pings) /\ pings \in [1..Len(pings) -> 0..Latency]
      BY Types, LenProperties
    <3> QED BY <3>1
  <2> QED BY <2>1, <2>2, <2>3, Types, Constants
<1>2. IInv => [Timeout => ~alive \/ overtaken]_vars
  BY <1>1
<1> QED BY <1>2, Invariance, PTL DEF NoFalseTimeout

(***************************************************************************)
(* A dead client is noticed in time                                        *)
(***************************************************************************)

\* Where the connection is: open, with its timers registered, or closing.
ClosingInv ==
    /\ closing = "queued" => ~registered /\ interval # 0
    /\ closing = "sent" => ~con
    /\ con /\ closing = "no" /\ interval # 0 => registered
    /\ alive \/ interval = 0 => deadFor = 0
    /\ ~alive /\ interval = 0 => slack <= room

\* No ping was sent or queued since the client died: the next one is due within
\* the interval, and there is room for it and the close frame.
NextPingDue == room >= queued + 2 /\ deadFor + ping_timer <= interval

\* It was, but the timeout has not been started.
PingUnderway == /\ room > queued /\ (queued > 0 \/ callbacks > 0)
                /\ deadFor <= interval /\ ping_timer = interval

\* The timeout runs, and ends before the ping after that.
TimeoutRuns == /\ room > queued /\ queued = 0 /\ callbacks = 0
               /\ timeout_set /\ timeout_timer < ping_timer
               /\ deadFor + timeout_timer <= interval + timeout

\* The timeout is over, and the close frame is about to be sent.
CloseFrameDue == closing = "queued" /\ room > queued /\ deadFor <= interval + timeout

DeadlineInv ==
    ~alive /\ con /\ interval # 0 /\ timeout < interval /\ slack >= 2 =>
        \/ CloseFrameDue
        \/ closing = "no" /\ (NextPingDue \/ PingUnderway \/ TimeoutRuns)

DInv == IInv /\ ClosingInv /\ DeadlineInv

LEMMA ClosingStep == DInv /\ [Next]_vars => ClosingInv'
<1> SUFFICES ASSUME DInv, [Next]_vars PROVE ClosingInv'
  OBVIOUS
<1> USE DEF DInv, IInv, ClosingInv, settings, conVars, timeoutVars, history
<1>0. /\ interval # 0 => interval \in Nat
      /\ closing \in {"no", "queued", "sent"}
  BY Types DEF TypeOK
<1>1. ASSUME NEW i \in Intervals, NEW t \in Timeouts, setAutoPing(i, t) PROVE ClosingInv'
  BY <1>0, <1>1, Constants DEF setAutoPing
<1>2. CASE Ping \/ SendQueued
  <2>1. interval # 0
    BY <1>2, Types DEF Ping, PingDue, SendQueued, BeforeInv
  <2> QED BY <1>2, <2>1 DEF Ping, SendQueued
<1>3. CASE Callback \/ Pong
  BY <1>3 DEF Callback, Pong
<1>4. CASE Timeout \/ CloseSent \/ PeerCloses
  BY <1>0, <1>4 DEF Timeout, TimeoutDue, CloseSent, PeerCloses, BeforeInv
<1>5. CASE RoomChanges
  BY <1>5 DEF RoomChanges
<1>6. CASE Dies
  BY <1>6, Types DEF Dies, BeforeInv
<1>7. CASE Tick
  BY <1>7 DEF Tick
<1>8. CASE UNCHANGED vars
  BY <1>8 DEF vars
<1> QED BY <1>1, <1>2, <1>3, <1>4, <1>5, <1>6, <1>7, <1>8 DEF Next, Loop

\* DeadlineInv promises something.
Pending == ~alive /\ con /\ interval # 0 /\ timeout < interval /\ slack >= 2

LEMMA DeadlineSetting ==
    ASSUME DInv, NEW i \in Intervals, NEW t \in Timeouts, setAutoPing(i, t)
    PROVE  DeadlineInv'
<1> SUFFICES ASSUME Pending' PROVE closing' = "no" /\ NextPingDue'
  BY DEF DeadlineInv, Pending
<1> USE DEF setAutoPing, conVars, timeoutVars, history
<1>1. ~alive /\ interval = 0 /\ con /\ slack >= 2
  BY DEF Pending
<1>2. closing = "no" /\ slack <= room /\ deadFor = 0 /\ queued = 0
  BY <1>1 DEF DInv, IInv, TypeOK, ClosingInv, BeforeInv
<1>3. room \in Nat /\ slack \in Nat /\ i \in Nat
  BY Types, Constants DEF DInv, IInv, TypeOK
<1> QED BY <1>1, <1>2, <1>3 DEF NextPingDue

\* A ping and its callback: the deadline passes from the ping's timer to the timeout.
LEMMA DeadlinePing ==
    ASSUME DInv, Ping \/ SendQueued \/ Callback
    PROVE  DeadlineInv'
<1> SUFFICES ASSUME Pending' PROVE DeadlineInv'
  BY DEF DeadlineInv, Pending
<1> USE DEF conVars, settings, timeoutVars, history
<1>1. Pending
  <2>1. UNCHANGED <<alive, con, interval, timeout, slack>>
    BY DEF Ping, SendQueued, Callback
  <2> QED BY <2>1 DEF Pending
<1>2. /\ interval \in Nat /\ interval # 0 /\ timeout \in Nat /\ timeout < interval
      /\ queued \in Nat /\ room \in Nat /\ callbacks \in Nat /\ deadFor \in Nat
      /\ ping_timer \in Nat
  BY <1>1, Types DEF DInv, Pending
<1>3. \/ CloseFrameDue
      \/ closing = "no" /\ (NextPingDue \/ PingUnderway \/ TimeoutRuns)
  BY <1>1 DEF DInv, DeadlineInv, Pending
<1>4. CASE Ping
  <2>1. closing = "no" /\ closing' = "no" /\ ping_timer = 0 /\ ping_timer' = interval
    BY <1>1, <1>4 DEF Ping, PingDue, DInv, IInv, TypeOK, ClosingInv, Pending
  <2>2. room >= queued + 2 /\ deadFor <= interval
    BY <1>2, <1>3, <2>1, Types
       DEF CloseFrameDue, NextPingDue, PingUnderway, TimeoutRuns, DInv, IInv
  <2>3. room' > queued' /\ (queued' > 0 \/ callbacks' > 0)
    BY <1>2, <1>4, <2>2, Constants DEF Ping, SendPing, AfterSent, Lesser
  <2>4. PingUnderway'
    BY <1>4, <2>1, <2>2, <2>3 DEF PingUnderway, Ping
  <2> QED BY <2>1, <2>4 DEF DeadlineInv
<1>5. CASE SendQueued
  <2>1. /\ room' = room - 1 /\ queued' = queued - 1 /\ callbacks' = callbacks + 1
        /\ queued > 0 /\ UNCHANGED <<deadFor, ping_timer, interval, timeout, closing>>
    BY <1>5 DEF SendQueued, SendPing, AfterSent
  <2>2. CASE CloseFrameDue
    BY <1>2, <2>1, <2>2 DEF CloseFrameDue, DeadlineInv
  <2>3. CASE closing = "no" /\ NextPingDue
    BY <1>2, <2>1, <2>3 DEF NextPingDue, DeadlineInv
  <2>4. CASE closing = "no" /\ PingUnderway
    BY <1>2, <2>1, <2>4 DEF PingUnderway, DeadlineInv
  <2> QED BY <1>3, <2>1, <2>2, <2>3, <2>4 DEF TimeoutRuns
<1>6. CASE Callback
  <2>1. /\ callbacks' = callbacks - 1 /\ callbacks > 0
        /\ timeout_timer' = timeout /\ timeout_set' = TRUE
        /\ UNCHANGED <<room, queued, deadFor, ping_timer, interval, timeout, closing>>
    BY <1>6 DEF Callback, Reset
  <2>2. CASE CloseFrameDue
    BY <2>1, <2>2 DEF CloseFrameDue, DeadlineInv
  <2>3. CASE closing = "no" /\ NextPingDue
    BY <2>1, <2>3 DEF NextPingDue, DeadlineInv
  <2>4. CASE closing = "no" /\ PingUnderway
    <3>1. CASE queued > 0 \/ callbacks' > 0
      BY <2>1, <2>4, <3>1 DEF PingUnderway, DeadlineInv
    <3>2. CASE ~(queued > 0 \/ callbacks' > 0)
      <4>1. TimeoutRuns'
        BY <1>2, <2>1, <2>4, <3>2 DEF PingUnderway, TimeoutRuns
      <4> QED BY <2>1, <2>4, <4>1 DEF DeadlineInv
    <3> QED BY <3>1, <3>2
  <2> QED BY <1>3, <2>1, <2>2, <2>3, <2>4, <1>2 DEF TimeoutRuns
<1> QED BY <1>4, <1>5, <1>6

\* The timeout leaves the close frame, which is in time whenever it comes.
LEMMA DeadlineTimeout ==
    ASSUME DInv, Timeout
    PROVE  DeadlineInv'
<1> SUFFICES ASSUME Pending' PROVE CloseFrameDue'
  BY DEF DeadlineInv, Pending
<1> USE DEF Timeout, settings, timeoutVars
<1>1. closing' = "queued" /\ con /\ Pending
  BY DEF Pending
<1>2. /\ interval \in Nat /\ timeout \in Nat /\ queued \in Nat /\ room \in Nat
      /\ deadFor \in Nat /\ ping_timer \in Nat /\ timeout_timer \in Nat
  BY Types DEF DInv
<1>3. room > queued /\ deadFor <= interval + timeout
  BY <1>1, <1>2 DEF DInv, DeadlineInv, Pending, CloseFrameDue, NextPingDue,
                    PingUnderway, TimeoutRuns
<1> QED BY <1>1, <1>3 DEF CloseFrameDue

LEMMA DeadlineDies ==
    ASSUME DInv, Dies
    PROVE  DeadlineInv'
<1> SUFFICES ASSUME Pending' PROVE DeadlineInv'
  BY DEF DeadlineInv, Pending
<1> USE DEF Dies, settings, timeoutVars
<1>1. /\ con /\ alive /\ interval # 0 /\ slack' >= 2
      /\ UNCHANGED <<room, queued, deadFor, ping_timer, interval, timeout, closing>>
  BY DEF Pending
<1>2. /\ queued \in Nat /\ room \in Nat /\ interval \in Nat /\ timeout \in Nat
      /\ ping_timer \in 0..interval
  BY Types DEF DInv, IInv, TypeOK
<1>3. room >= queued + 2
  BY <1>1, <1>2
<1>4. deadFor = 0 /\ closing \in {"no", "queued"}
  BY <1>1 DEF DInv, IInv, TypeOK, ClosingInv
<1>5. CASE closing = "no"
  BY <1>1, <1>2, <1>3, <1>4, <1>5 DEF NextPingDue, DeadlineInv
<1>6. CASE closing = "queued"
  BY <1>1, <1>2, <1>3, <1>4, <1>6 DEF CloseFrameDue, DeadlineInv
<1> QED BY <1>4, <1>5, <1>6

\* Time passes only while a timer runs: of each tick the timer loses what the
\* client's death gains in age.
LEMMA DeadlineTick ==
    ASSUME DInv, Tick
    PROVE  DeadlineInv'
<1> SUFFICES ASSUME Pending' PROVE DeadlineInv'
  BY DEF DeadlineInv, Pending
<1> USE DEF Tick, settings
<1>1. Pending /\ ~Busy
  BY DEF Pending
<1>2. /\ interval \in Nat /\ timeout \in Nat /\ queued \in Nat /\ room \in Nat
      /\ callbacks \in Nat /\ deadFor \in Nat /\ ping_timer \in Nat /\ timeout_timer \in Nat
  BY Types DEF DInv
<1>3. /\ UNCHANGED <<room, queued, callbacks, interval, timeout, closing, timeout_set>>
      /\ ping_timer' = Less(ping_timer) /\ timeout_timer' = Less(timeout_timer)
      /\ deadFor' <= deadFor + 1
  BY <1>1, <1>2 DEF Lesser, Pending
<1>4. ~CloseFrameDue /\ ~PingUnderway
  BY <1>1, <1>2 DEF CloseFrameDue, PingUnderway, Busy, Pending
<1>5. closing = "no" /\ registered /\ (NextPingDue \/ TimeoutRuns)
  BY <1>1, <1>4 DEF DInv, DeadlineInv, ClosingInv, Pending
<1>6. ping_timer # 0 /\ ping_timer' = ping_timer - 1
  BY <1>1, <1>3, <1>5 DEF Busy, PingDue, Less
<1>7. deadFor' \in Nat
  BY <1>2, <1>1 DEF Lesser, Pending
<1>8. CASE NextPingDue
  BY <1>2, <1>3, <1>5, <1>6, <1>7, <1>8 DEF NextPingDue, DeadlineInv
<1>9. CASE TimeoutRuns
  <2>1. timeout_timer' = timeout_timer - 1
    BY <1>1, <1>3, <1>5, <1>9 DEF Busy, TimeoutDue, TimeoutRuns, Less
  <2>2. TimeoutRuns'
    BY <1>2, <1>3, <1>6, <1>7, <1>9, <2>1 DEF TimeoutRuns
  <2> QED BY <1>3, <1>5, <2>2 DEF DeadlineInv
<1> QED BY <1>5, <1>8, <1>9

LEMMA NextDInv == DInv /\ [Next]_vars => DInv'
<1> SUFFICES ASSUME DInv, [Next]_vars PROVE DInv'
  OBVIOUS
<1>1. IInv' /\ ClosingInv'
  BY NextIInv, ClosingStep DEF DInv
<1>2. DeadlineInv'
  <2>1. ASSUME NEW i \in Intervals, NEW t \in Timeouts, setAutoPing(i, t) PROVE DeadlineInv'
    BY <2>1, DeadlineSetting
  <2>2. CASE Ping \/ SendQueued \/ Callback
    BY <2>2, DeadlinePing
  <2>3. CASE Timeout
    BY <2>3, DeadlineTimeout
  <2>4. CASE CloseSent \/ PeerCloses
    BY <2>4 DEF CloseSent, PeerCloses, DeadlineInv
  <2>5. CASE Pong \/ RoomChanges
    <3>1. alive /\ UNCHANGED alive
      BY <2>5 DEF Pong, RoomChanges
    <3> QED BY <3>1 DEF DeadlineInv
  <2>6. CASE Dies
    BY <2>6, DeadlineDies
  <2>7. CASE Tick
    BY <2>7, DeadlineTick
  <2>8. CASE UNCHANGED vars
    BY <2>8 DEF vars, DInv, DeadlineInv, CloseFrameDue, NextPingDue, PingUnderway, TimeoutRuns
  <2> QED BY <2>1, <2>2, <2>3, <2>4, <2>5, <2>6, <2>7, <2>8 DEF Next, Loop
<1> QED BY <1>1, <1>2 DEF DInv

\* The connection of a client that died without a word is closed within interval
\* and timeout, for any timeout below the interval, if the kernel had room for a
\* ping and the close frame beyond what was queued.
THEOREM DeadClientsAreDetected == Spec => []DetectedInTime
<1>1. Init => DInv
  BY InitIInv DEF Init, DInv, ClosingInv, DeadlineInv
<1>2. DInv => DetectedInTime
  <2> SUFFICES ASSUME DInv, timeout < interval, slack >= 2,
                      deadFor > interval + timeout, con
               PROVE  FALSE
    BY DEF DetectedInTime, DInv, IInv, TypeOK
  <2>1. /\ interval \in Nat /\ timeout \in Nat /\ deadFor \in Nat
        /\ ping_timer \in Nat /\ timeout_timer \in Nat
    BY Types DEF DInv
  <2>2. ~alive /\ interval # 0
    BY <2>1 DEF DInv, ClosingInv
  <2> QED BY <2>1, <2>2 DEF DInv, DeadlineInv, CloseFrameDue, NextPingDue,
                            PingUnderway, TimeoutRuns
<1> QED BY <1>1, <1>2, NextDInv, PTL DEF Spec

=============================================================================
