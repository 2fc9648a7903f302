------------------------------ MODULE Websocket ------------------------------
(***************************************************************************)
(* Websocket::onDataReceived, onPeerClose and close: how the bytes of a    *)
(* connection become frames and calls of the WebsocketHandler, in whatever *)
(* pieces they arrive, while the application may close the websocket.      *)
(*                                                                         *)
(* The client sends frames; a byte is known by its place in that stream.   *)
(* in_buf holds the bytes from base to arrived, and the view bv those from *)
(* view to the value of arrived at the call.                               *)
(* A frame without the mask bit is one of OpCodes, "unmasked", as nothing  *)
(* else of it is looked at.                                                *)
(***************************************************************************)
EXTENDS Naturals, Sequences, SequencesExt, Sums

CONSTANTS
    N,          \* bound: frames the client sends
    OpCodes,    \* of the frames
    Lengths,    \* of the payloads
    Shortest,   \* bytes of a header without extended length (6 in the code)
    Extensions, \* bytes of extended length (0, 2 or 8 in the code)
    AppCloses   \* bound: calls of close by the application

DataOps == {"continuation", "text", "binary"}

ASSUME WebsocketAssumption ==
    /\ N \in Nat \ {0}
    /\ OpCodes \subseteq DataOps \cup {"close", "ping", "pong", "reserved", "unmasked"}
    /\ Lengths \subseteq Nat
    /\ Shortest \in Nat \ {0}
    /\ Extensions \subseteq Nat
    /\ AppCloses \in Nat

VARIABLES
    frames,         \* what the client sends
    \* ConnectionHandler
    con, arrived, base,
    protocol,       \* FALSE: dropped for the null protocol
    closing,        \* close frames written whose on_after_sent has not run
    \* Websocket
    frag_buffer, cur_opcode,
    \* locals of onDataReceived
    pc, view, consumed,
    dropped,        \* it returns the null protocol
    \* history
    events,         \* the calls of the handler
    appCloses

streamVars == <<frames, con, arrived, base, protocol>>
fragVars == <<frag_buffer, cur_opcode>>
callVars == <<pc, view, consumed, dropped>>
vars == <<frames, con, arrived, base, protocol, closing, frag_buffer, cur_opcode,
          pc, view, consumed, dropped, events, appCloses>>

\* Every combination for the messages; control frames are short, and those that
\* are no pings empty.  Of the control frames without FIN, which are all treated
\* alike, there are only pings.
Frame == {f \in [op : OpCodes, fin : BOOLEAN, len : Lengths, ext : Extensions] :
              /\ f.ext > 0 => f.len > 0 /\ f.op \in {"text", "binary"}
              /\ f.op \notin DataOps \cup {"ping"} => f.fin /\ f.len = 0}

HeaderSize(f) == Shortest + f.ext
Size(f) == HeaderSize(f) + f.len

\* Where the i-th frame begins in the stream.
Start(i) == SumTo([k \in 1..N |-> Size(frames[k])], i - 1)

Payload(i) == [k \in 1..frames[i].len |-> i]

Init == /\ frames \in [1..N -> Frame]
        /\ con = TRUE /\ arrived = 0 /\ base = 0 /\ protocol = TRUE /\ closing = 0
        /\ frag_buffer = <<>> /\ cur_opcode = "continuation"
        /\ pc = "idle" /\ view = 0 /\ consumed = 0 /\ dropped = FALSE
        /\ events = <<>> /\ appCloses = 0

\* More bytes arrive; the websocket is shown all that in_buf holds.
Receive(n) ==
    /\ pc = "idle" /\ con /\ protocol
    /\ n > arrived
    /\ arrived' = n /\ view' = base /\ consumed' = 0 /\ pc' = "loop"
    /\ UNCHANGED <<frames, con, base, protocol, closing, fragVars, dropped, events, appCloses>>

Available == arrived - view

Call(what, kind, bytes) ==
    events' = Append(events, [call |-> what, kind |-> kind, payload |-> bytes])

\* close: the handler is told, then a close frame is written.
Close == Call("onClose", "none", <<>>) /\ closing' = closing + 1

\* Mutant: the websocket stays.
FaultyDrop == pc' = "return" /\ UNCHANGED dropped

\* onDataReceived returns the null protocol.
Drop == pc' = "return" /\ dropped' = TRUE

\* Fewer bytes than the shortest frame: the loop is left.
TooShort ==
    /\ pc = "loop" /\ Available < Shortest
    /\ pc' = "return"
    /\ UNCHANGED <<streamVars, closing, fragVars, view, consumed, dropped, events, appCloses>>

\* The loop has a header in its view and starts on frame i.
At(i) == pc = "loop" /\ Available >= Shortest /\ view = Start(i)

Unmasked(i) ==
    /\ At(i) /\ frames[i].op = "unmasked"
    /\ Close
    /\ Drop
    /\ UNCHANGED <<streamVars, fragVars, view, consumed, appCloses>>

\* The extended length or the mask lies beyond the view: substr throws
\* out_of_range, out of the socket's handler.
HeaderCut(i) ==
    /\ At(i) /\ frames[i].op # "unmasked"
    /\ Available < HeaderSize(frames[i])
    /\ pc' = "threw"
    /\ UNCHANGED <<streamVars, closing, fragVars, view, consumed, dropped, events, appCloses>>

PayloadMissing(i) ==
    /\ At(i) /\ frames[i].op # "unmasked"
    /\ Available >= HeaderSize(frames[i]) /\ Available < Size(frames[i])
    /\ pc' = "return"
    /\ UNCHANGED <<streamVars, closing, fragVars, view, consumed, dropped, events, appCloses>>

\* Mutant: one byte too many.
FaultyCount(n) == consumed' = consumed + n + 1

Count(n) == consumed' = consumed + n

\* Frame i is complete: it is taken off the view and counted.
Taken(i) ==
    /\ At(i) /\ frames[i].op # "unmasked"
    /\ Available >= Size(frames[i])
    /\ view' = view + Size(frames[i])
    /\ Count(Size(frames[i]))

\* Mutant: every data frame does.
FaultyStarts(f) == f.op \in DataOps

\* A frame that starts a message.
Starts(f) == f.op \in {"text", "binary"}

\* Mutant: the pieces are put together the wrong way round.
FaultyCollected(i) == Payload(i) \o frag_buffer

Collected(i) == frag_buffer \o Payload(i)

\* A frame without FIN, whatever its opcode: the payload is collected.
Fragment(i) ==
    /\ Taken(i) /\ ~frames[i].fin
    /\ Starts(frames[i]) => frag_buffer = <<>>
    /\ frag_buffer' = Collected(i)
    /\ cur_opcode' = IF Starts(frames[i]) THEN frames[i].op ELSE cur_opcode
    /\ UNCHANGED <<streamVars, closing, pc, dropped, events, appCloses>>

\* A message starts although another one is being collected.
Unterminated(i) ==
    /\ Taken(i) /\ ~frames[i].fin
    /\ Starts(frames[i]) /\ frag_buffer # <<>>
    /\ Close
    /\ Drop
    /\ UNCHANGED <<streamVars, fragVars, appCloses>>

\* The last frame of a fragmented message.
Continuation(i) ==
    /\ Taken(i) /\ frames[i].fin /\ frames[i].op = "continuation"
    /\ Call("onMessage", IF cur_opcode = "text" THEN "text" ELSE "binary", Collected(i))
    /\ frag_buffer' = <<>>
    /\ UNCHANGED <<streamVars, closing, cur_opcode, pc, dropped, appCloses>>

Message(i) ==
    /\ Taken(i) /\ frames[i].fin /\ frames[i].op \in {"text", "binary"}
    /\ Call("onMessage", frames[i].op, Payload(i))
    /\ UNCHANGED <<streamVars, closing, fragVars, pc, dropped, appCloses>>

CloseFrame(i) ==
    /\ Taken(i) /\ frames[i].fin /\ frames[i].op = "close"
    /\ Close
    /\ Drop
    /\ UNCHANGED <<streamVars, fragVars, appCloses>>

PingPong(i) ==
    /\ Taken(i) /\ frames[i].fin /\ frames[i].op \in {"ping", "pong"}
    /\ Call(IF frames[i].op = "ping" THEN "onPing" ELSE "onPong", "none", Payload(i))
    /\ UNCHANGED <<streamVars, closing, fragVars, pc, dropped, appCloses>>

\* A frame with an opcode that nobody knows is passed over.
Ignored(i) ==
    /\ Taken(i) /\ frames[i].fin /\ frames[i].op = "reserved"
    /\ UNCHANGED <<streamVars, closing, fragVars, pc, dropped, events, appCloses>>

\* onDataReceived returns; operator() drops what was consumed, and the
\* websocket if it said so.
Return ==
    /\ pc = "return"
    /\ base' = base + consumed
    /\ protocol' = ~dropped
    /\ pc' = "idle" /\ view' = 0 /\ consumed' = 0
    /\ UNCHANGED <<frames, con, arrived, closing, fragVars, dropped, events, appCloses>>

Round == \/ TooShort \/ Return
         \/ \E i \in 1..N : \/ Unmasked(i) \/ HeaderCut(i) \/ PayloadMissing(i)
                            \/ Fragment(i) \/ Unterminated(i) \/ Continuation(i)
                            \/ Message(i) \/ CloseFrame(i) \/ PingPong(i)
                            \/ Ignored(i)

\* The peer hangs up (EnterHangup and HangupClose of Connection): onPeerClose, then close.
PeerClose ==
    /\ pc = "idle" /\ con
    /\ IF protocol THEN Call("onClose", "none", <<>>) ELSE UNCHANGED events
    /\ con' = FALSE
    /\ UNCHANGED <<frames, arrived, base, protocol, closing, fragVars, callVars, appCloses>>

\* The application closes a websocket that it was not told to be closed, from
\* a thread of its own or from one of the handler's functions.
AppClose ==
    /\ protocol /\ appCloses < AppCloses
    /\ \A k \in DOMAIN events : events[k].call # "onClose"
    /\ Close
    /\ appCloses' = appCloses + 1
    /\ UNCHANGED <<streamVars, fragVars, callVars>>

\* A close frame is sent: its callback closes the socket.
CloseSent ==
    /\ closing > 0
    /\ closing' = closing - 1
    /\ con' = FALSE
    /\ UNCHANGED <<frames, arrived, base, protocol, fragVars, callVars, events, appCloses>>

Next == \/ \E n \in 1..Start(N + 1) : Receive(n)
        \/ Round
        \/ PeerClose
        \/ AppClose
        \/ CloseSent

Spec == Init /\ [][Next]_vars

(***************************************************************************)
(* Properties                                                              *)
(***************************************************************************)

\* Every variable has its type.
TypeOK ==
    /\ frames \in [1..N -> Frame]
    /\ con \in BOOLEAN /\ protocol \in BOOLEAN /\ dropped \in BOOLEAN
    /\ arrived \in 0..Start(N + 1) /\ base \in 0..arrived /\ view \in 0..arrived
    /\ consumed \in 0..arrived /\ closing \in Nat /\ appCloses \in 0..AppCloses
    /\ ToSet(frag_buffer) \subseteq 1..N /\ cur_opcode \in DataOps
    /\ pc \in {"idle", "loop", "return", "threw"}
    /\ \A k \in DOMAIN events : /\ events[k].call \in {"onMessage", "onPing", "onPong", "onClose"}
                                /\ events[k].kind \in {"none", "text", "binary"}

\* Between two calls in_buf begins with a frame and does not hold all of it:
\* no byte is lost or read twice and no complete frame is left unhandled.
NothingLeftBehind ==
    pc = "idle" /\ protocol =>
        \E i \in 1..(N + 1) : /\ base = Start(i)
                              /\ i <= N => arrived - base < Size(frames[i])

\* Frame k is part of a message that is not complete when frame i comes.
Open(k, i) ==
    /\ k < i /\ frames[k].op \in DataOps
    /\ \A m \in k..(i - 1) : frames[m].op \in DataOps => ~frames[m].fin

InMessage(i) == \E k \in 1..(i - 1) : Open(k, i)

\* A client that keeps to the protocol: a message starts only when the one
\* before is complete, and only then, and control frames are whole.
WellFormed(n) ==
    \A i \in 1..n :
        IF frames[i].op \in DataOps THEN frames[i].op = "continuation" <=> InMessage(i)
                                    ELSE frames[i].fin

\* What such a message has carried so far, and the frame that it starts with.
Carried(i) == JoinTo([k \in 1..N |-> IF Open(k, i) THEN Payload(k) ELSE <<>>], i - 1)
First(i) == CHOOSE k \in 1..i : /\ k = i \/ Open(k, i)
                                /\ \A m \in 1..(k - 1) : ~Open(m, i)

\* What the handler is to be told of frame i.
Expected(i) ==
    LET tell(what, kind, bytes) == <<[call |-> what, kind |-> kind, payload |-> bytes]>>
    IN CASE frames[i].op = "ping" -> tell("onPing", "none", Payload(i))
         [] frames[i].op = "pong" -> tell("onPong", "none", Payload(i))
         [] frames[i].op \in DataOps /\ frames[i].fin ->
                tell("onMessage", frames[First(i)].op, Carried(i) \o Payload(i))
         [] OTHER -> <<>>

\* What it was told, besides onClose.
Told == JoinTo([k \in DOMAIN events |->
                   IF events[k].call = "onClose" THEN <<>> ELSE <<events[k]>>],
               Len(events))

Place == IF pc = "idle" THEN base ELSE view

\* However the bytes were cut, the handler is told of the client's messages,
\* pings and pongs in the order in which they were completed, each once and
\* each with the whole of its payload, other frames in between or not.
HandlerToldInOrder ==
    \A n \in 0..N :
        WellFormed(n) /\ pc # "threw" /\ protocol /\ Place = Start(n + 1)
        => Told = JoinTo([i \in 1..N |-> Expected(i)], n)

\* A client that keeps to the protocol is not dropped before it closes, however
\* its messages are fragmented: the buffer of fragments is empty between them.
DroppedForCause ==
    dropped => ~WellFormed(N) \/ \E i \in 1..N : frames[i].op \in {"close", "unmasked"}

\* Unless the application closes the websocket itself, onClose is called at
\* most once, and nothing is called after it.
ClosedOnce ==
    appCloses = 0 =>
        \A k \in DOMAIN events : events[k].call = "onClose" => k = Len(events)

\* "min length of a message": with fewer bytes than a frame has the loop waits
\* for more; it does not fail.
WaitsForTheHeader == pc # "threw"
==============================================================================
