--------------------------- MODULE WebsocketProofs ---------------------------
(***************************************************************************)
(* Proofs about Websocket for any frames, in any pieces: the handler is    *)
(* told once that the connection is closed, and nothing after that.        *)
(***************************************************************************)
EXTENDS Websocket, SumProofs, SequenceTheorems

IsClose(k) == events[k].call = "onClose"

NotTold == \A k \in DOMAIN events : ~IsClose(k)
ToldLast == \A k \in DOMAIN events : IsClose(k) => k = Len(events)

\* Nothing more is called: onDataReceived is about to return the null protocol, or
\* nobody calls the websocket again.
Over == \/ pc = "return" /\ dropped
        \/ pc = "idle" /\ (~con \/ ~protocol)

IInv == /\ \E S : events \in Seq(S)
        /\ appCloses \in Nat
        /\ appCloses = 0 => NotTold \/ (ToldLast /\ Over)

\* One more call of the handler.
LEMMA CallStep ==
    ASSUME IInv, NEW what, NEW kind, NEW bytes, Call(what, kind, bytes)
    PROVE  /\ \E S : events' \in Seq(S)
           /\ NotTold /\ what # "onClose" => NotTold'
           /\ NotTold => ToldLast'
<1> DEFINE e == [call |-> what, kind |-> kind, payload |-> bytes]
<1>1. PICK S : events \in Seq(S)
  BY DEF IInv
<1>2. events' = Append(events, e) /\ e.call = what
  BY DEF Call
<1> HIDE DEF e
<1>3. events \in Seq(S \cup {e}) /\ e \in S \cup {e}
  BY <1>1
<1>4. events' \in Seq(S \cup {e})
  BY <1>2, <1>3, AppendProperties
<1>5. /\ Len(events') = Len(events) + 1 /\ Len(events) \in Nat
      /\ DOMAIN events' = 1..Len(events') /\ DOMAIN events = 1..Len(events)
      /\ \A k \in 1..Len(events) : events'[k] = events[k]
      /\ events'[Len(events) + 1] = e
  BY <1>2, <1>3, <1>4, AppendProperties, LenProperties
<1>6. NotTold /\ what # "onClose" => NotTold'
  BY <1>2, <1>5 DEF NotTold, IsClose
<1>7. NotTold => ToldLast'
  BY <1>5 DEF NotTold, ToldLast, IsClose
<1> QED BY <1>4, <1>6, <1>7

\* A frame whose handling goes on with the next one.
LEMMA FrameStep ==
    ASSUME IInv, NEW i \in 1..N, Fragment(i) \/ Continuation(i) \/ Message(i) \/ PingPong(i) \/ Ignored(i)
    PROVE  IInv'
<1>1. pc = "loop" /\ UNCHANGED appCloses
  BY DEF Fragment, Continuation, Message, PingPong, Ignored, Taken, At
<1>2. CASE Fragment(i) \/ Ignored(i)
  BY <1>1, <1>2 DEF Fragment, Ignored, IInv, NotTold, IsClose, Over
<1>3. CASE Continuation(i) \/ Message(i) \/ PingPong(i)
  <2>1. PICK what, kind, bytes : Call(what, kind, bytes) /\ what # "onClose"
    BY <1>3 DEF Continuation, Message, PingPong
  <2> QED BY <1>1, <2>1, CallStep DEF IInv, Over
<1> QED BY <1>2, <1>3

\* One that the client is dropped for.
LEMMA DropStep ==
    ASSUME IInv, NEW i \in 1..N, Unmasked(i) \/ Unterminated(i) \/ CloseFrame(i)
    PROVE  IInv'
<1>1. pc = "loop" /\ UNCHANGED appCloses /\ pc' = "return" /\ dropped' = TRUE
  BY DEF Unmasked, Unterminated, CloseFrame, Taken, At, Drop
<1>2. Call("onClose", "none", <<>>)
  BY DEF Unmasked, Unterminated, CloseFrame, Close
<1> QED BY <1>1, <1>2, CallStep DEF IInv, Over

\* Steps that call nothing.
LEMMA SilentStep ==
    ASSUME IInv, \/ \E n \in 1..Start(N + 1) : Receive(n)
                 \/ TooShort \/ Return \/ CloseSent
                 \/ \E i \in 1..N : HeaderCut(i) \/ PayloadMissing(i)
                 \/ UNCHANGED vars
    PROVE  IInv'
<1>1. UNCHANGED <<events, appCloses>>
  BY DEF Receive, TooShort, Return, CloseSent, HeaderCut, PayloadMissing, vars
<1>2. Over => Over'
  BY DEF Over, Receive, TooShort, Return, CloseSent, HeaderCut, PayloadMissing, At, vars,
         streamVars, callVars
<1> QED BY <1>1, <1>2 DEF IInv, NotTold, ToldLast, IsClose

LEMMA PeerCloseStep ==
    ASSUME IInv, PeerClose
    PROVE  IInv'
<1>1. pc' = "idle" /\ con' = FALSE /\ UNCHANGED appCloses /\ pc = "idle" /\ con
  BY DEF PeerClose, callVars
<1>2. CASE protocol
  <2>1. Call("onClose", "none", <<>>)
    BY <1>2 DEF PeerClose
  <2> QED BY <1>1, <1>2, <2>1, CallStep DEF IInv, Over
<1>3. CASE ~protocol
  <2>1. UNCHANGED events
    BY <1>3 DEF PeerClose
  <2> QED BY <1>1, <2>1 DEF IInv, Over, NotTold, ToldLast, IsClose
<1> QED BY <1>2, <1>3

LEMMA NextIInv == IInv /\ [Next]_vars => IInv'
<1> SUFFICES ASSUME IInv, [Next]_vars PROVE IInv'
  OBVIOUS
<1>1. CASE AppClose
  <2>1. \E S : events' \in Seq(S)
    BY <1>1, CallStep DEF AppClose, Close
  <2> QED BY <1>1, <2>1 DEF AppClose, IInv
<1>2. CASE PeerClose
  BY <1>2, PeerCloseStep
<1>3. CASE (\E n \in 1..Start(N + 1) : Receive(n)) \/ CloseSent \/ UNCHANGED vars
  BY <1>3, SilentStep
<1>4. CASE Round
  BY <1>4, SilentStep, FrameStep, DropStep DEF Round
<1> QED BY <1>1, <1>2, <1>3, <1>4 DEF Next

\* Unless the application closes the websocket, onClose is called at most once and
\* is the last call, whether a frame, its absence of a mask or the peer's hangup
\* was the reason, and in whatever order they come.
THEOREM OnCloseIsLast == Spec => []ClosedOnce
<1>1. Init => IInv
  BY DEF Init, IInv, NotTold
<1>2. IInv => ClosedOnce
  BY DEF IInv, ClosedOnce, NotTold, ToldLast, IsClose
<1> QED BY <1>1, <1>2, NextIInv, PTL DEF Spec

(***************************************************************************)
(* Where the frames begin                                                  *)
(***************************************************************************)

LEMMA Constants ==
    /\ N \in Nat \ {0} /\ Shortest \in Nat \ {0}
    /\ Lengths \subseteq Nat /\ Extensions \subseteq Nat
BY WebsocketAssumption DEF WebsocketAssumption

LEMMA FrameTypes ==
    ASSUME NEW f \in Frame
    PROVE  /\ f.op \in OpCodes /\ f.fin \in BOOLEAN /\ f.len \in Nat /\ f.ext \in Nat
           /\ HeaderSize(f) \in Nat /\ HeaderSize(f) >= Shortest
           /\ Size(f) \in Nat /\ Size(f) >= HeaderSize(f)
<1>1. f.op \in OpCodes /\ f.fin \in BOOLEAN /\ f.len \in Lengths /\ f.ext \in Extensions
  BY DEF Frame
<1>2. f.len \in Nat /\ f.ext \in Nat
  BY <1>1, Constants
<1> QED BY <1>1, <1>2, Constants DEF HeaderSize, Size

LEMMA FrameStarts ==
    ASSUME frames \in [1..N -> Frame]
    PROVE  /\ Start(1) = 0
           /\ \A i \in 1..N : Start(i + 1) = Start(i) + Size(frames[i])
           /\ \A i \in 1..(N + 1) : Start(i) \in Nat /\ Start(i) <= Start(N + 1)
           /\ \A i, j \in 1..(N + 1) : Start(i) = Start(j) => i = j
<1> DEFINE sizes == [k \in 1..N |-> Size(frames[k])]
<1>1. N \in Nat /\ \A k \in 1..N : sizes[k] \in Nat /\ sizes[k] > 0 /\ sizes[k] = Size(frames[k])
  BY FrameTypes, Constants
<1>2. \A i : Start(i) = SumTo(sizes, i - 1)
  BY DEF Start
<1> HIDE DEF sizes
<1>3. Start(1) = 0
  BY <1>1, <1>2, SumZero
<1>4. ASSUME NEW i \in 1..N PROVE Start(i + 1) = Start(i) + sizes[i]
  <2>1. SumTo(sizes, (i - 1) + 1) = SumTo(sizes, i - 1) + sizes[(i - 1) + 1]
    BY <1>1, SumEquations
  <2> QED BY <1>2, <2>1
<1>5. ASSUME NEW i \in 1..(N + 1) PROVE Start(i) \in Nat /\ Start(i) <= Start(N + 1)
  <2>1. i - 1 \in 0..N /\ N \in 0..N /\ (N + 1) - 1 = N /\ i - 1 \in 0..N
    BY <1>1
  <2>2. SumTo(sizes, i - 1) \in Nat
    BY <1>1, <2>1, SumNat
  <2>3. SumTo(sizes, i - 1) <= SumTo(sizes, N)
    BY <1>1, <2>1, SumGrows
  <2> QED BY <1>2, <2>1, <2>2, <2>3
<1>6. ASSUME NEW i \in 1..(N + 1), NEW j \in 1..(N + 1), i < j PROVE Start(i) < Start(j)
  <2>1. i \in 1..N /\ i + 1 \in 1..(N + 1)
    BY <1>1, <1>6
  <2>2. Start(i) < Start(i + 1)
    <3>1. Start(i + 1) = Start(i) + sizes[i] /\ sizes[i] \in Nat /\ sizes[i] > 0
      BY <1>1, <1>4, <2>1
    <3> QED BY <1>5, <3>1
  <2>3. Start(i + 1) <= Start(j)
    <3>1. i \in 0..(j - 1) /\ j - 1 \in 0..N
      BY <1>1, <1>6
    <3>2. SumTo(sizes, i) <= SumTo(sizes, j - 1)
      BY <1>1, <3>1, SumGrows
    <3> QED BY <1>2, <3>2
  <2> QED BY <1>5, <2>1, <2>2, <2>3
<1>7. ASSUME NEW i \in 1..(N + 1), NEW j \in 1..(N + 1), Start(i) = Start(j) PROVE i = j
  <2>1. ~(Start(i) < Start(j)) /\ ~(Start(j) < Start(i))
    BY <1>5, <1>7
  <2> QED BY <1>1, <1>6, <2>1
<1>8. ASSUME NEW i \in 1..N PROVE Start(i + 1) = Start(i) + Size(frames[i])
  BY <1>1, <1>4
<1> QED BY <1>3, <1>5, <1>7, <1>8

\* The client's frames stay what they are, and so does all that is said of them.
LEMMA FramesKept ==
    ASSUME UNCHANGED frames
    PROVE  /\ \A i : Start(i)' = Start(i)
           /\ \A k, i : Open(k, i)' <=> Open(k, i)
           /\ \A i : InMessage(i)' <=> InMessage(i)
           /\ \A i : WellFormed(i)' <=> WellFormed(i)
<1>1. \A i : Start(i)' = Start(i)
  BY DEF Start
<1>2. \A k, i : Open(k, i)' <=> Open(k, i)
  BY DEF Open
<1>3. \A i : InMessage(i)' <=> InMessage(i)
  BY <1>2 DEF InMessage
<1>4. \A i : WellFormed(i)' <=> WellFormed(i)
  BY <1>3 DEF WellFormed
<1> QED BY <1>1, <1>2, <1>3, <1>4

(***************************************************************************)
(* The invariant                                                           *)
(***************************************************************************)

Calls == [call : {"onMessage", "onPing", "onPong", "onClose"},
          kind : {"none", "text", "binary"}, payload : Seq(1..N)]

TypeInv ==
    /\ frames \in [1..N -> Frame]
    /\ con \in BOOLEAN /\ protocol \in BOOLEAN /\ dropped \in BOOLEAN
    /\ arrived \in 0..Start(N + 1) /\ base \in Nat /\ view \in Nat /\ consumed \in Nat
    /\ closing \in Nat /\ appCloses \in 0..AppCloses
    /\ frag_buffer \in Seq(1..N) /\ cur_opcode \in DataOps
    /\ pc \in {"idle", "loop", "return", "threw"}
    /\ events \in Seq(Calls)

\* During a call the view begins where what was consumed ends.
ViewInv == IF pc = "idle" THEN view = 0 /\ consumed = 0 /\ base <= arrived
                          ELSE view = base + consumed /\ view <= arrived

\* When frame i is the next one and fragments are kept, its message is open, or the
\* client has broken the protocol.
FragInv(i) == frag_buffer # <<>> => InMessage(i) \/ ~WellFormed(i - 1)

\* What arrived from place on begins with a frame and does not hold all of it.
Waiting(place) == \E i \in 1..(N + 1) : /\ place = Start(i) /\ FragInv(i)
                                        /\ i <= N => arrived - place < Size(frames[i])

PlaceInv ==
    /\ pc = "loop" => /\ protocol /\ ~dropped
                      /\ \E i \in 1..(N + 1) : view = Start(i) /\ FragInv(i)
    /\ pc = "return" /\ ~dropped => Waiting(view)
    /\ pc = "idle" /\ protocol => ~dropped /\ Waiting(base)

FrameInv == TypeInv /\ ViewInv /\ PlaceInv /\ DroppedForCause

\* A step that touches neither the stream's places nor the fragments.
LEMMA PlacesKept ==
    ASSUME FrameInv, UNCHANGED <<frames, arrived, base, protocol, frag_buffer, callVars>>
    PROVE  ViewInv' /\ PlaceInv' /\ DroppedForCause'
<1> USE DEF callVars
<1>1. \A i : FragInv(i)' <=> FragInv(i)
  BY FramesKept DEF FragInv
<1>2. ViewInv'
  BY DEF FrameInv, ViewInv
<1>3. PlaceInv'
  BY <1>1, FramesKept DEF FrameInv, PlaceInv, Waiting
<1>4. DroppedForCause'
  BY FramesKept DEF FrameInv, DroppedForCause
<1> QED BY <1>2, <1>3, <1>4

\* The handler is called with what Calls says.
LEMMA CallTypes ==
    ASSUME TypeInv, NEW what \in {"onMessage", "onPing", "onPong", "onClose"},
           NEW kind \in {"none", "text", "binary"}, NEW bytes \in Seq(1..N),
           Call(what, kind, bytes)
    PROVE  events' \in Seq(Calls)
<1> DEFINE e == [call |-> what, kind |-> kind, payload |-> bytes]
<1>1. e \in Calls
  BY DEF Calls
<1>2. events \in Seq(Calls) /\ events' = Append(events, e)
  BY DEF TypeInv, Call
<1> HIDE DEF e
<1> QED BY <1>1, <1>2

LEMMA CloseTypes ==
    ASSUME TypeInv, Close
    PROVE  events' \in Seq(Calls) /\ closing' \in Nat
<1> DEFINE none == <<>>
<1>1. none \in Seq(1..N)
  OBVIOUS
<1>2. Call("onClose", "none", none) /\ closing' = closing + 1
  BY DEF Close
<1> HIDE DEF none
<1>3. events' \in Seq(Calls)
  BY <1>1, <1>2, CallTypes
<1> QED BY <1>2, <1>3 DEF TypeInv

LEMMA Constantly ==
    ASSUME NEW S, NEW n \in Nat, NEW e \in S
    PROVE  [k \in 1..n |-> e] \in Seq(S)
OBVIOUS

LEMMA SequenceRange ==
    ASSUME NEW S, NEW s \in Seq(S)
    PROVE  ToSet(s) \subseteq S
BY LenProperties DEF ToSet

LEMMA PayloadTypes ==
    ASSUME TypeInv, NEW i \in 1..N
    PROVE  Payload(i) \in Seq(1..N) /\ Collected(i) \in Seq(1..N)
<1>1. frames[i].len \in Nat
  BY FrameTypes DEF TypeInv
<1>2. Payload(i) \in Seq(1..N)
  BY <1>1, Constantly DEF Payload
<1>3. frag_buffer \in Seq(1..N)
  BY DEF TypeInv
<1> QED BY <1>2, <1>3, ConcatProperties DEF Collected

LEMMA ReceiveStep ==
    ASSUME FrameInv, NEW n \in 1..Start(N + 1), Receive(n)
    PROVE  FrameInv'
<1> USE DEF Receive, fragVars
<1>1. frames \in [1..N -> Frame]
  BY DEF FrameInv, TypeInv
<1>2. \A i : (Start(i)' = Start(i)) /\ (FragInv(i)' <=> FragInv(i))
  BY FramesKept DEF FragInv
<1>3. n \in Nat /\ n <= Start(N + 1) /\ Start(N + 1) \in Nat
  BY <1>1, FrameStarts, Constants
<1>4. TypeInv'
  <2>1. arrived' \in 0..Start(N + 1)'
    BY <1>2, <1>3
  <2> QED BY <2>1 DEF FrameInv, TypeInv
<1>5. ViewInv'
  BY <1>3 DEF FrameInv, TypeInv, ViewInv
<1>6. PlaceInv'
  <2>1. PICK i \in 1..(N + 1) : base = Start(i) /\ FragInv(i)
    BY DEF FrameInv, PlaceInv, Waiting
  <2>2. protocol' /\ ~dropped'
    BY DEF FrameInv, PlaceInv
  <2> QED BY <1>2, <2>1, <2>2 DEF PlaceInv
<1>7. DroppedForCause'
  BY FramesKept DEF FrameInv, DroppedForCause
<1> QED BY <1>4, <1>5, <1>6, <1>7 DEF FrameInv

\* The loop stands at one frame only.
LEMMA AtFrame ==
    ASSUME FrameInv, NEW i \in 1..N, At(i)
    PROVE  /\ FragInv(i) /\ protocol /\ ~dropped
           /\ frames[i] \in Frame /\ view = Start(i) /\ Available \in Nat
           /\ view + Available = arrived
<1>1. frames \in [1..N -> Frame] /\ arrived \in Nat /\ view \in Nat /\ view <= arrived
  <2>1. frames \in [1..N -> Frame]
    BY DEF FrameInv, TypeInv
  <2>2. Start(N + 1) \in Nat
    BY <2>1, FrameStarts, Constants
  <2>3. arrived \in 0..Start(N + 1) /\ view \in Nat
    BY DEF FrameInv, TypeInv
  <2>4. view <= arrived
    BY DEF FrameInv, ViewInv, At
  <2> QED BY <2>1, <2>2, <2>3, <2>4
<1>2. PICK j \in 1..(N + 1) : view = Start(j) /\ FragInv(j)
  BY DEF FrameInv, PlaceInv, At
<1>3. i = j
  <2>1. i \in 1..(N + 1) /\ Start(i) = Start(j)
    BY <1>2, Constants DEF At
  <2> QED BY <1>1, <2>1, FrameStarts
<1>4. frames[i] \in Frame /\ Available \in Nat /\ view + Available = arrived
  <2> DEFINE n == arrived - view
  <2>1. n \in Nat /\ view + n = arrived
    BY <1>1
  <2> QED BY <1>1, <2>1 DEF Available
<1> QED BY <1>2, <1>3, <1>4 DEF FrameInv, PlaceInv, At

\* A frame that is taken moves the view to where the next one begins.
LEMMA TakenStep ==
    ASSUME FrameInv, NEW i \in 1..N, Taken(i), UNCHANGED <<frames, arrived, base>>
    PROVE  /\ i + 1 \in 1..(N + 1)
           /\ view' = Start(i + 1) /\ view' = base' + consumed' /\ view' <= arrived'
           /\ view' \in Nat /\ consumed' \in Nat
           /\ Start(i + 1)' = Start(i + 1)
<1>1. At(i) /\ Available >= Size(frames[i])
  BY DEF Taken
<1>2. /\ view' = view + Size(frames[i]) /\ consumed' = consumed + Size(frames[i])
  BY DEF Taken, Count
<1>3. Size(frames[i]) \in Nat
  BY <1>1, AtFrame, FrameTypes
<1>4. view' = Start(i + 1) /\ Start(i + 1)' = Start(i + 1)
  BY <1>1, <1>2, AtFrame, FrameStarts, FramesKept DEF FrameInv, TypeInv
<1>5. base \in Nat /\ view \in Nat /\ consumed \in Nat /\ view = base + consumed
  BY <1>1 DEF FrameInv, TypeInv, ViewInv, At
<1>6. Available \in Nat /\ view + Available = arrived
  BY <1>1, AtFrame
<1>7. i + 1 \in 1..(N + 1)
  BY Constants
<1>8. view' <= arrived'
  BY <1>1, <1>2, <1>3, <1>5, <1>6
<1>9. view' = base' + consumed' /\ view' \in Nat /\ consumed' \in Nat
  BY <1>2, <1>3, <1>5
<1> QED BY <1>4, <1>7, <1>8, <1>9

\* A frame whose handling goes on with the next one, by what it does to the
\* fragments.
LEMMA FrameGoesOn ==
    ASSUME FrameInv, NEW i \in 1..N, Taken(i),
           UNCHANGED <<streamVars, closing, pc, dropped, appCloses>>,
           frag_buffer' \in Seq(1..N), cur_opcode' \in DataOps, events' \in Seq(Calls),
           FragInv(i + 1)'
    PROVE  FrameInv'
<1> USE DEF streamVars
<1>1. pc = "loop" /\ At(i)
  BY DEF Taken, At
<1>2. /\ i + 1 \in 1..(N + 1)
      /\ view' = Start(i + 1) /\ view' = base' + consumed' /\ view' <= arrived'
      /\ view' \in Nat /\ consumed' \in Nat
      /\ Start(i + 1)' = Start(i + 1)
  BY TakenStep
<1>3. TypeInv'
  <2>1. arrived' \in 0..Start(N + 1)'
    BY FramesKept DEF FrameInv, TypeInv
  <2> QED BY <1>2, <2>1 DEF FrameInv, TypeInv
<1>4. ViewInv'
  BY <1>1, <1>2 DEF ViewInv
<1>5. PlaceInv'
  <2>1. protocol' /\ ~dropped'
    BY <1>1, AtFrame
  <2>2. view' = Start(i + 1)' /\ FragInv(i + 1)' /\ i + 1 \in 1..(N + 1)
    BY <1>2
  <2>3. \E k \in 1..(N + 1) : view' = Start(k)' /\ FragInv(k)'
    BY <2>2
  <2> QED BY <1>1, <2>1, <2>3 DEF PlaceInv
<1>6. DroppedForCause'
  BY FramesKept DEF FrameInv, DroppedForCause
<1> QED BY <1>3, <1>4, <1>5, <1>6 DEF FrameInv

\* A stream that is broken stays so, whatever follows.
LEMMA Breaks ==
    ASSUME NEW i \in 1..N
    PROVE  /\ WellFormed(N) => WellFormed(i)
           /\ WellFormed(i) => WellFormed(i - 1)
           /\ WellFormed(i) /\ frames[i].op \in {"text", "binary"} => ~InMessage(i)
           /\ WellFormed(i) /\ frames[i].op \notin DataOps => frames[i].fin
<1>1. /\ N \in Nat /\ 1..i \subseteq 1..N /\ 1..(i - 1) \subseteq 1..i /\ i \in 1..i
  BY Constants
<1>2. frames[i].op \in {"text", "binary"} =>
          frames[i].op \in DataOps /\ frames[i].op # "continuation"
  BY DEF DataOps
<1> QED BY <1>1, <1>2 DEF WellFormed

\* What a frame does to the messages that are open when it comes, and to its own.
LEMMA OpenNext ==
    ASSUME NEW i \in 1..N
    PROVE  /\ \A k \in 1..(i - 1) : Open(k, i + 1) <=>
                 Open(k, i) /\ (frames[i].op \in DataOps => ~frames[i].fin)
           /\ Open(i, i + 1) <=> frames[i].op \in DataOps /\ ~frames[i].fin
<1>1. (i + 1) - 1 = i /\ i \in i..i /\ i < i + 1
  OBVIOUS
<1>2. ASSUME NEW k \in 1..(i - 1)
      PROVE  Open(k, i + 1) <=> Open(k, i) /\ (frames[i].op \in DataOps => ~frames[i].fin)
  <2>1. k < i /\ k < i + 1 /\ k..i = (k..(i - 1)) \cup {i}
    OBVIOUS
  <2> QED BY <1>1, <2>1 DEF Open
<1>3. i..i = {i}
  OBVIOUS
<1>4. Open(i, i + 1) <=> frames[i].op \in DataOps /\ ~frames[i].fin
  BY <1>1, <1>3 DEF Open
<1> QED BY <1>2, <1>4

\* A frame between two others leaves its message open only if it is a control frame
\* or a fragment.
LEMMA Opens ==
    ASSUME NEW i \in 1..N
    PROVE  /\ frames[i].op \in DataOps /\ ~frames[i].fin => InMessage(i + 1)
           /\ frames[i].op \notin DataOps /\ InMessage(i) => InMessage(i + 1)
<1>1. (i + 1) - 1 = i /\ i \in 1..i /\ 1..(i - 1) \subseteq 1..i
  OBVIOUS
<1> QED BY <1>1, OpenNext DEF InMessage

LEMMA FragmentStep ==
    ASSUME FrameInv, NEW i \in 1..N, Fragment(i)
    PROVE  FrameInv'
<1>1. /\ Taken(i) /\ At(i) /\ ~frames[i].fin
      /\ UNCHANGED <<streamVars, closing, pc, dropped, appCloses, events>>
      /\ frag_buffer' = Collected(i)
      /\ cur_opcode' = IF Starts(frames[i]) THEN frames[i].op ELSE cur_opcode
  BY DEF Fragment, Taken
<1>2. InMessage(i + 1) \/ ~WellFormed((i + 1) - 1)
  <2>1. (i + 1) - 1 = i
    OBVIOUS
  <2> QED BY <1>1, <2>1, Breaks, Opens
<1>3. (InMessage(i + 1) \/ ~WellFormed((i + 1) - 1))'
  BY <1>1, <1>2, FramesKept DEF streamVars
<1>4. frag_buffer' \in Seq(1..N) /\ cur_opcode' \in DataOps /\ events' \in Seq(Calls)
  BY <1>1, PayloadTypes DEF FrameInv, TypeInv, Starts, DataOps
<1>5. FragInv(i + 1)'
  BY <1>3 DEF FragInv
<1> QED BY <1>1, <1>4, <1>5, FrameGoesOn

LEMMA ContinuationStep ==
    ASSUME FrameInv, NEW i \in 1..N, Continuation(i)
    PROVE  FrameInv'
<1> DEFINE kind == IF cur_opcode = "text" THEN "text" ELSE "binary"
<1>1. /\ Taken(i) /\ UNCHANGED <<streamVars, closing, pc, dropped, appCloses, cur_opcode>>
      /\ frag_buffer' = <<>>
      /\ Call("onMessage", kind, Collected(i))
  BY DEF Continuation
<1>2. kind \in {"none", "text", "binary"}
  OBVIOUS
<1> HIDE DEF kind
<1>3. events' \in Seq(Calls)
  BY <1>1, <1>2, PayloadTypes, CallTypes DEF FrameInv
<1>4. frag_buffer' \in Seq(1..N) /\ cur_opcode' \in DataOps
  BY <1>1 DEF FrameInv, TypeInv
<1>5. FragInv(i + 1)'
  BY <1>1 DEF FragInv
<1> QED BY <1>1, <1>3, <1>4, <1>5, FrameGoesOn

LEMMA MessageStep ==
    ASSUME FrameInv, NEW i \in 1..N, Message(i) \/ PingPong(i) \/ Ignored(i)
    PROVE  FrameInv'
<1>1. /\ Taken(i) /\ At(i)
      /\ UNCHANGED <<streamVars, closing, pc, dropped, appCloses>>
      /\ UNCHANGED <<frag_buffer, cur_opcode>>
  BY DEF Message, PingPong, Ignored, Taken, fragVars
<1>2. events' \in Seq(Calls)
  <2>1. CASE Message(i)
    <3>1. /\ Call("onMessage", frames[i].op, Payload(i))
          /\ frames[i].op \in {"none", "text", "binary"}
      BY <2>1 DEF Message
    <3> QED BY <3>1, PayloadTypes, CallTypes DEF FrameInv
  <2>2. CASE PingPong(i)
    <3> DEFINE what == IF frames[i].op = "ping" THEN "onPing" ELSE "onPong"
    <3>1. what \in {"onMessage", "onPing", "onPong", "onClose"}
      OBVIOUS
    <3>2. Call(what, "none", Payload(i))
      BY <2>2 DEF PingPong
    <3> HIDE DEF what
    <3> QED BY <3>1, <3>2, PayloadTypes, CallTypes DEF FrameInv
  <2>3. CASE Ignored(i)
    BY <2>3 DEF Ignored, FrameInv, TypeInv
  <2> QED BY <2>1, <2>2, <2>3
<1>3. FragInv(i) /\ frames[i] \in Frame
  BY <1>1, AtFrame
<1>4. FragInv(i + 1)
  <2> SUFFICES ASSUME frag_buffer # <<>> PROVE InMessage(i + 1) \/ ~WellFormed((i + 1) - 1)
    BY DEF FragInv
  <2>1. InMessage(i) \/ ~WellFormed(i - 1)
    BY <1>3 DEF FragInv
  <2>2. CASE Message(i)
    <3>1. frames[i].op \in {"text", "binary"}
      BY <2>2 DEF Message
    <3> QED BY <2>1, <3>1, Breaks
  <2>3. CASE PingPong(i) \/ Ignored(i)
    <3>1. frames[i].op \notin DataOps
      BY <2>3 DEF PingPong, Ignored, DataOps
    <3> QED BY <2>1, <3>1, Breaks, Opens
  <2> QED BY <2>2, <2>3
<1>5. FragInv(i + 1)'
  BY <1>1, <1>4, FramesKept DEF FragInv, streamVars
<1>6. frag_buffer' \in Seq(1..N) /\ cur_opcode' \in DataOps
  BY <1>1 DEF FrameInv, TypeInv
<1> QED BY <1>1, <1>2, <1>5, <1>6, FrameGoesOn

\* The client is dropped: it sent a close frame or one without a mask, or a message
\* within a message.
LEMMA DroppedStep ==
    ASSUME FrameInv, NEW i \in 1..N, Unmasked(i) \/ Unterminated(i) \/ CloseFrame(i)
    PROVE  FrameInv'
<1>1. /\ At(i) /\ pc = "loop" /\ Close /\ pc' = "return" /\ dropped' = TRUE
      /\ UNCHANGED <<streamVars, fragVars, appCloses>>
  BY DEF Unmasked, Unterminated, CloseFrame, Taken, Drop, At
<1>2. /\ view' = base' + consumed' /\ view' <= arrived'
      /\ view' \in Nat /\ consumed' \in Nat
  <2>1. CASE Unmasked(i)
    <3>1. UNCHANGED <<base, arrived>> /\ UNCHANGED <<view, consumed>>
      BY <2>1 DEF Unmasked, streamVars
    <3> QED BY <1>1, <3>1 DEF FrameInv, TypeInv, ViewInv
  <2>2. CASE Unterminated(i) \/ CloseFrame(i)
    <3>1. Taken(i) /\ UNCHANGED <<frames, arrived, base>>
      BY <2>2 DEF Unterminated, CloseFrame, streamVars
    <3> QED BY <3>1, TakenStep
  <2> QED BY <1>1, <2>1, <2>2
<1>3. events' \in Seq(Calls) /\ closing' \in Nat
  BY <1>1, CloseTypes DEF FrameInv
<1>4. TypeInv'
  <2>1. arrived' \in 0..Start(N + 1)'
    BY <1>1, FramesKept DEF FrameInv, TypeInv, streamVars
  <2> QED BY <1>1, <1>2, <1>3, <2>1 DEF FrameInv, TypeInv, streamVars, fragVars
<1>5. ViewInv' /\ PlaceInv'
  BY <1>1, <1>2 DEF ViewInv, PlaceInv
<1>6. ~WellFormed(N) \/ \E k \in 1..N : frames[k].op \in {"close", "unmasked"}
  <2>1. CASE Unmasked(i) \/ CloseFrame(i)
    BY <2>1 DEF Unmasked, CloseFrame
  <2>2. CASE Unterminated(i)
    <3>1. frag_buffer # <<>> /\ frames[i].op \in {"text", "binary"}
      BY <2>2 DEF Unterminated, Starts
    <3>2. InMessage(i) \/ ~WellFormed(i - 1)
      BY <1>1, <3>1, AtFrame DEF FragInv
    <3> QED BY <3>1, <3>2, Breaks
  <2> QED BY <2>1, <2>2
<1>7. DroppedForCause'
  BY <1>1, <1>6, FramesKept DEF DroppedForCause, streamVars
<1> QED BY <1>4, <1>5, <1>7 DEF FrameInv

\* The loop is left because there is no whole frame in the view.
LEMMA LoopLeft ==
    ASSUME FrameInv, TooShort \/ \E i \in 1..N : PayloadMissing(i) \/ HeaderCut(i)
    PROVE  FrameInv'
<1>1. /\ pc = "loop" /\ pc' \in {"return", "threw"}
      /\ UNCHANGED <<streamVars, closing, fragVars, view, consumed, dropped, events, appCloses>>
  BY DEF TooShort, PayloadMissing, HeaderCut, At
<1>2. \A i : (Start(i)' = Start(i)) /\ (FragInv(i)' <=> FragInv(i))
  BY <1>1, FramesKept DEF FragInv, streamVars, fragVars
<1>3. TypeInv'
  <2>1. arrived' \in 0..Start(N + 1)'
    BY <1>1, <1>2 DEF FrameInv, TypeInv, streamVars
  <2> QED BY <1>1, <2>1 DEF FrameInv, TypeInv, streamVars, fragVars
<1>4. ViewInv'
  BY <1>1 DEF FrameInv, ViewInv, streamVars
<1>5. PlaceInv'
  <2> SUFFICES ASSUME pc' = "return" PROVE Waiting(view)'
    BY <1>1 DEF PlaceInv
  <2>1. PICK i \in 1..(N + 1) : /\ view = Start(i) /\ FragInv(i)
                                /\ i <= N => arrived - view < Size(frames[i])
    <3>1. CASE TooShort
      <4>1. PICK i \in 1..(N + 1) : view = Start(i) /\ FragInv(i)
        BY <1>1 DEF FrameInv, PlaceInv
      <4>2. ASSUME i <= N PROVE arrived - view < Size(frames[i])
        <5>1. frames[i] \in Frame
          BY <4>2, Constants DEF FrameInv, TypeInv
        <5>2. Size(frames[i]) \in Nat /\ Size(frames[i]) >= Shortest
          BY <5>1, FrameTypes, Constants
        <5>3. arrived - view < Shortest /\ arrived - view \in Int
          <6>1. Start(N + 1) \in Nat
            BY FrameStarts, Constants DEF FrameInv, TypeInv
          <6>2. arrived \in Nat /\ view \in Nat
            BY <6>1 DEF FrameInv, TypeInv
          <6> QED BY <3>1, <6>2 DEF TooShort, Available
        <5> QED BY <5>2, <5>3, Constants
      <4> QED BY <4>1, <4>2
    <3>2. ASSUME NEW i \in 1..N, PayloadMissing(i) \/ HeaderCut(i)
          PROVE  \E k \in 1..(N + 1) : /\ view = Start(k) /\ FragInv(k)
                                       /\ k <= N => arrived - view < Size(frames[k])
      <4>1. PayloadMissing(i) /\ At(i)
        BY <3>2 DEF PayloadMissing, HeaderCut
      <4>2. view = Start(i) /\ FragInv(i) /\ arrived - view < Size(frames[i])
        BY <4>1, AtFrame DEF PayloadMissing, Available
      <4>3. i \in 1..(N + 1)
        BY Constants
      <4> QED BY <4>2, <4>3
    <3> QED BY <3>1, <3>2
  <2> QED BY <1>1, <1>2, <2>1 DEF Waiting, streamVars
<1>6. DroppedForCause'
  BY <1>1, FramesKept DEF FrameInv, DroppedForCause, streamVars
<1> QED BY <1>3, <1>4, <1>5, <1>6 DEF FrameInv

LEMMA ReturnStep ==
    ASSUME FrameInv, Return
    PROVE  FrameInv'
<1>1. /\ pc = "return" /\ pc' = "idle" /\ view' = 0 /\ consumed' = 0
      /\ base' = base + consumed /\ protocol' = ~dropped
      /\ UNCHANGED <<frames, con, arrived, closing, dropped, events, appCloses>>
      /\ UNCHANGED <<frag_buffer, cur_opcode>>
  BY DEF Return, fragVars
<1>2. base' = view /\ base' \in Nat /\ base' <= arrived'
  BY <1>1 DEF FrameInv, TypeInv, ViewInv
<1>3. \A i : (Start(i)' = Start(i)) /\ (FragInv(i)' <=> FragInv(i))
  BY <1>1, FramesKept DEF FragInv
<1>4. TypeInv'
  <2>1. arrived' \in 0..Start(N + 1)'
    BY <1>1, <1>3 DEF FrameInv, TypeInv
  <2>2. protocol' \in BOOLEAN
    BY <1>1
  <2> QED BY <1>1, <1>2, <2>1, <2>2 DEF FrameInv, TypeInv
<1>5. ViewInv'
  BY <1>1, <1>2 DEF ViewInv
<1>6. PlaceInv'
  <2> SUFFICES ASSUME ~dropped PROVE Waiting(base)'
    BY <1>1 DEF PlaceInv
  <2>1. Waiting(view)
    BY <1>1 DEF FrameInv, PlaceInv
  <2> QED BY <1>1, <1>2, <1>3, <2>1 DEF Waiting
<1>7. DroppedForCause'
  BY <1>1, FramesKept DEF FrameInv, DroppedForCause
<1> QED BY <1>4, <1>5, <1>6, <1>7 DEF FrameInv

\* What happens besides the calls: the peer hangs up, the application closes, a close
\* frame is sent.
LEMMA OtherSteps ==
    ASSUME FrameInv, PeerClose \/ AppClose \/ CloseSent \/ UNCHANGED vars
    PROVE  FrameInv'
<1>1. UNCHANGED <<frames, arrived, base, protocol, frag_buffer, callVars>>
  BY DEF PeerClose, AppClose, CloseSent, vars, streamVars, fragVars, callVars
<1>2. /\ con' \in BOOLEAN /\ closing' \in Nat /\ appCloses' \in 0..AppCloses
      /\ UNCHANGED cur_opcode /\ events' \in Seq(Calls)
  <2> USE DEF FrameInv, TypeInv
  <2>1. CASE PeerClose
    <3> DEFINE none == <<>>
    <3>1. none \in Seq(1..N)
      OBVIOUS
    <3>2. Call("onClose", "none", none) \/ UNCHANGED events
      BY <2>1 DEF PeerClose
    <3> HIDE DEF none
    <3>3. events' \in Seq(Calls)
      BY <3>1, <3>2, CallTypes
    <3> QED BY <2>1, <3>3 DEF PeerClose, fragVars
  <2>2. CASE AppClose
    <3>1. events' \in Seq(Calls) /\ closing' \in Nat
      BY <2>2, CloseTypes DEF AppClose
    <3>2. AppCloses \in Nat
      BY WebsocketAssumption DEF WebsocketAssumption
    <3>3. con' = con /\ cur_opcode' = cur_opcode
      BY <2>2 DEF AppClose, streamVars, fragVars
    <3> QED BY <2>2, <3>1, <3>2, <3>3 DEF AppClose
  <2>3. CASE CloseSent
    <3>1. closing \in Nat /\ closing > 0 /\ closing' = closing - 1
      BY <2>3 DEF CloseSent
    <3>2. closing' \in Nat
      BY <3>1
    <3> QED BY <2>3, <3>2 DEF CloseSent, fragVars
  <2>4. CASE UNCHANGED vars
    BY <2>4 DEF vars
  <2> QED BY <2>1, <2>2, <2>3, <2>4
<1>3. TypeInv'
  <2>1. arrived' \in 0..Start(N + 1)'
    BY <1>1, FramesKept DEF FrameInv, TypeInv
  <2> QED BY <1>1, <1>2, <2>1 DEF FrameInv, TypeInv, callVars
<1> QED BY <1>1, <1>3, PlacesKept DEF FrameInv

LEMMA InitFrameInv == Init => FrameInv
<1> SUFFICES ASSUME Init PROVE FrameInv
  OBVIOUS
<1> USE DEF Init
<1>1. frames \in [1..N -> Frame]
  OBVIOUS
<1>2. Start(1) = 0 /\ Start(N + 1) \in Nat /\ 1 \in 1..(N + 1) /\ N + 1 \in 1..(N + 1)
  BY <1>1, FrameStarts, Constants
<1>3. TypeInv
  <2>1. 0 \in 0..AppCloses
    BY WebsocketAssumption DEF WebsocketAssumption
  <2>2. frag_buffer \in Seq(1..N) /\ events \in Seq(Calls)
    OBVIOUS
  <2>3. arrived \in 0..Start(N + 1)
    BY <1>2
  <2> QED BY <1>1, <2>1, <2>2, <2>3 DEF TypeInv, DataOps
<1>4. ViewInv
  BY DEF ViewInv
<1>5. PlaceInv
  <2>1. FragInv(1)
    BY DEF FragInv
  <2>2. frames[1] \in Frame
    BY <1>1, Constants
  <2>3. arrived - base < Size(frames[1])
    BY <2>2, FrameTypes, Constants
  <2> QED BY <1>2, <2>1, <2>3 DEF PlaceInv, Waiting
<1> QED BY <1>3, <1>4, <1>5 DEF FrameInv, DroppedForCause

\* Init and every step establish the invariant.
THEOREM Invariance == Spec => []FrameInv
<1>1. FrameInv /\ [Next]_vars => FrameInv'
  <2> SUFFICES ASSUME FrameInv, [Next]_vars PROVE FrameInv'
    OBVIOUS
  <2>1. CASE \E n \in 1..Start(N + 1) : Receive(n)
    BY <2>1, ReceiveStep
  <2>2. CASE Round
    BY <2>2, LoopLeft, ReturnStep, DroppedStep, FragmentStep, ContinuationStep, MessageStep
       DEF Round
  <2>3. CASE PeerClose \/ AppClose \/ CloseSent \/ UNCHANGED vars
    BY <2>3, OtherSteps
  <2> QED BY <2>1, <2>2, <2>3 DEF Next
<1> QED BY <1>1, InitFrameInv, PTL DEF Spec

\* Every variable has its type.
THEOREM TypeCorrect == Spec => []TypeOK
<1>1. FrameInv => TypeOK
  <2> SUFFICES ASSUME FrameInv PROVE TypeOK
    OBVIOUS
  <2>1. base \in 0..arrived /\ view \in 0..arrived /\ consumed \in 0..arrived
    <3>1. arrived \in Nat
      <4>1. Start(N + 1) \in Nat
        BY FrameStarts, Constants DEF FrameInv, TypeInv
      <4> QED BY <4>1 DEF FrameInv, TypeInv
    <3> QED BY <3>1 DEF FrameInv, TypeInv, ViewInv
  <2>2. ToSet(frag_buffer) \subseteq 1..N
    <3>1. frag_buffer \in Seq(1..N)
      BY DEF FrameInv, TypeInv
    <3> QED BY <3>1, SequenceRange
  <2>3. \A k \in DOMAIN events :
           /\ events[k].call \in {"onMessage", "onPing", "onPong", "onClose"}
           /\ events[k].kind \in {"none", "text", "binary"}
    <3>1. \A k \in DOMAIN events : events[k] \in Calls
      BY LenProperties DEF FrameInv, TypeInv
    <3> QED BY <3>1 DEF Calls
  <2> QED BY <2>1, <2>2, <2>3 DEF TypeOK, FrameInv, TypeInv
<1> QED BY <1>1, Invariance, PTL

\* However the bytes are cut, in_buf begins with a frame between two calls and does
\* not hold all of it: no byte is lost or read twice, no complete frame waits.
THEOREM FramesAreConsumed == Spec => []NothingLeftBehind
<1>1. FrameInv => NothingLeftBehind
  BY DEF FrameInv, PlaceInv, Waiting, NothingLeftBehind
<1> QED BY <1>1, Invariance, PTL

\* A client that keeps to the protocol is dropped only for its close frame.
THEOREM ClientsAreDroppedForCause == Spec => []DroppedForCause
<1>1. FrameInv => DroppedForCause
  BY DEF FrameInv
<1> QED BY <1>1, Invariance, PTL

(***************************************************************************)
(* What the handler is told                                                *)
(***************************************************************************)

\* What the frames in their order carry for a message that is open at frame i, what
\* is to be told of each, and what was told with each call.
Pieces(i) == [k \in 1..N |-> IF Open(k, i) THEN Payload(k) ELSE <<>>]
Expectations == [k \in 1..N |-> Expected(k)]
Tellings == [k \in DOMAIN events |->
                IF events[k].call = "onClose" THEN <<>> ELSE <<events[k]>>]

\* cur_opcode is what the open message started with.
KindInv(i) ==
    InMessage(i) => \E k \in 1..(i - 1) : /\ Open(k, i)
                                          /\ \A m \in 1..(k - 1) : ~Open(m, i)
                                          /\ frames[k].op = cur_opcode
                                          /\ cur_opcode \in {"text", "binary"}

GatheredAt(i) == frag_buffer = Carried(i) /\ KindInv(i)

ToldAt(i) == Told = JoinTo(Expectations, i - 1)

\* Wherever the loop stands in a stream that is well formed so far, the handler
\* was told of all the frames before, and the open message is in frag_buffer.
ToldInv ==
    /\ pc = "return" => protocol
    /\ pc # "threw" /\ protocol =>
          \A i \in 1..(N + 1) : Place = Start(i) /\ WellFormed(i - 1) =>
              ToldAt(i) /\ (~dropped => GatheredAt(i))

\* The frame with which a message starts.
LEMMA FirstIs ==
    ASSUME NEW i \in 1..N, NEW k \in 1..i, k = i \/ Open(k, i),
           \A m \in 1..(k - 1) : ~Open(m, i)
    PROVE  First(i) = k
<1> DEFINE Is(j) == /\ j = i \/ Open(j, i)
                    /\ \A m \in 1..(j - 1) : ~Open(m, i)
<1>1. First(i) = CHOOSE j \in 1..i : Is(j)
  BY DEF First
<1>2. Is(k)
  OBVIOUS
<1>3. ASSUME NEW j \in 1..i, Is(j) PROVE j = k
  <2>1. ~(j < k)
    <3> SUFFICES ASSUME j < k PROVE FALSE
      OBVIOUS
    <3>1. j # i /\ j \in 1..(k - 1)
      OBVIOUS
    <3> QED BY <1>3, <3>1
  <2>2. ~(k < j)
    <3> SUFFICES ASSUME k < j PROVE FALSE
      OBVIOUS
    <3>1. k # i /\ k \in 1..(j - 1)
      OBVIOUS
    <3> QED BY <1>3, <3>1
  <2> QED BY <2>1, <2>2
<1> HIDE DEF Is
<1> QED BY <1>1, <1>2, <1>3

LEMMA PieceTypes ==
    ASSUME TypeInv, NEW i
    PROVE  \A k \in 1..N : Pieces(i)[k] \in Seq(1..N)
<1>1. ASSUME NEW k \in 1..N PROVE Pieces(i)[k] \in Seq(1..N)
  <2>1. Payload(k) \in Seq(1..N)
    BY PayloadTypes
  <2>2. <<>> \in Seq(1..N)
    OBVIOUS
  <2> QED BY <2>1, <2>2 DEF Pieces
<1> QED BY <1>1

LEMMA CarriedTypes ==
    ASSUME TypeInv, NEW i \in 1..(N + 1)
    PROVE  Carried(i) \in Seq(1..N)
<1> DEFINE n == i - 1
           f == Pieces(i)
<1>1. n \in Nat /\ 1..n \subseteq 1..N
  BY Constants
<1>2. \A k \in 1..n : f[k] \in Seq(1..N)
  BY <1>1, PieceTypes
<1>3. Carried(i) = JoinTo(f, n)
  BY DEF Carried, Pieces
<1> HIDE DEF f, n
<1> QED BY <1>1, <1>2, <1>3, JoinToIsJoin

\* What is carried on from frame i to the next.
LEMMA CarriedNext ==
    ASSUME TypeInv, NEW i \in 1..N
    PROVE  /\ frames[i].op \in DataOps /\ frames[i].fin => Carried(i + 1) = <<>>
           /\ frames[i].op \in DataOps /\ ~frames[i].fin => Carried(i + 1) = Carried(i) \o Payload(i)
           /\ frames[i].op \notin DataOps => Carried(i + 1) = Carried(i)
<1>1. /\ i - 1 \in Nat /\ i \in Nat /\ (i - 1) + 1 = i /\ (i + 1) - 1 = i
      /\ 1..(i - 1) \subseteq 1..N /\ 1..i \subseteq 1..N /\ 1..i = 1..(i - 1) \cup {i}
  BY Constants
<1>2. Carried(i) = JoinTo(Pieces(i), i - 1) /\ Carried(i + 1) = JoinTo(Pieces(i + 1), i)
  BY <1>1 DEF Carried, Pieces
<1>3. /\ \A k \in 1..(i - 1) : Open(k, i + 1) <=>
             Open(k, i) /\ (frames[i].op \in DataOps => ~frames[i].fin)
      /\ Open(i, i + 1) <=> frames[i].op \in DataOps /\ ~frames[i].fin
  BY OpenNext
<1>4. ASSUME frames[i].op \in DataOps, frames[i].fin PROVE Carried(i + 1) = <<>>
  <2>1. \A k \in 1..i : Pieces(i + 1)[k] = <<>>
    BY <1>1, <1>3, <1>4 DEF Pieces
  <2> QED BY <1>1, <1>2, <2>1, JoinEmpty
<1>5. ASSUME ~(frames[i].op \in DataOps /\ frames[i].fin)
      PROVE  Carried(i + 1) = Carried(i) \o Pieces(i + 1)[i]
  <2>1. \A k \in 1..(i - 1) : /\ Pieces(i + 1)[k] \in Seq(1..N)
                              /\ Pieces(i + 1)[k] = Pieces(i)[k]
    <3>1. \A k \in 1..(i - 1) : Pieces(i + 1)[k] \in Seq(1..N)
      BY <1>1, PieceTypes
    <3>2. \A k \in 1..(i - 1) : Pieces(i + 1)[k] = Pieces(i)[k]
      BY <1>1, <1>3, <1>5 DEF Pieces
    <3> QED BY <3>1, <3>2
  <2>2. JoinTo(Pieces(i + 1), i - 1) = JoinTo(Pieces(i), i - 1)
    <3> DEFINE f == Pieces(i + 1)
               g == Pieces(i)
               n == i - 1
    <3>1. n \in Nat /\ \A k \in 1..n : f[k] \in Seq(1..N) /\ f[k] = g[k]
      BY <1>1, <2>1
    <3> HIDE DEF f, g, n
    <3>2. JoinTo(f, n) = JoinTo(g, n)
      BY <3>1, JoinSame
    <3> QED BY <3>2 DEF f, g, n
  <2>3. \A k \in 1..((i - 1) + 1) : Pieces(i + 1)[k] \in Seq(1..N)
    BY <1>1, PieceTypes
  <2>4. JoinTo(Pieces(i + 1), (i - 1) + 1) = JoinTo(Pieces(i + 1), i - 1) \o Pieces(i + 1)[(i - 1) + 1]
    BY <1>1, <2>3, JoinEquations
  <2> QED BY <1>1, <1>2, <2>2, <2>4
<1>6. Pieces(i + 1)[i] = IF frames[i].op \in DataOps /\ ~frames[i].fin THEN Payload(i) ELSE <<>>
  BY <1>3 DEF Pieces
<1>7. Carried(i) \in Seq(1..N)
  <2>1. i \in 1..(N + 1)
    BY Constants
  <2> QED BY <2>1, CarriedTypes
<1>8. Carried(i) \o <<>> = Carried(i)
  BY <1>7
<1> QED BY <1>4, <1>5, <1>6, <1>8

\* What is told of each frame is a sequence.
LEMMA ExpectedTypes ==
    ASSUME TypeInv
    PROVE  \E S : \A i \in 1..N : Expectations[i] \in Seq(S)
<1> DEFINE S == [call : {"onMessage", "onPing", "onPong"},
                 kind : {"none"} \cup {frames[First(k)].op : k \in 1..N},
                 payload : Seq(1..N)]
<1>1. ASSUME NEW i \in 1..N PROVE Expectations[i] \in Seq(S)
  <2>1. Payload(i) \in Seq(1..N)
    BY PayloadTypes
  <2>2. Carried(i) \in Seq(1..N)
    <3>1. i \in 1..(N + 1)
      BY Constants
    <3> QED BY <3>1, CarriedTypes
  <2>3. Carried(i) \o Payload(i) \in Seq(1..N)
    BY <2>1, <2>2, ConcatProperties
  <2> DEFINE told == [call |-> "onMessage", kind |-> frames[First(i)].op,
                      payload |-> Carried(i) \o Payload(i)]
             ping == [call |-> "onPing", kind |-> "none", payload |-> Payload(i)]
             pong == [call |-> "onPong", kind |-> "none", payload |-> Payload(i)]
  <2>4. told \in S /\ ping \in S /\ pong \in S
    BY <2>1, <2>3
  <2>5. Expectations[i] \in {<<told>>, <<ping>>, <<pong>>, <<>>}
    BY Zenon DEF Expectations, Expected
  <2> HIDE DEF told, ping, pong, S
  <2>6. ASSUME NEW e \in S PROVE <<e>> \in Seq(S)
    OBVIOUS
  <2>7. <<>> \in Seq(S)
    OBVIOUS
  <2>8. <<told>> \in Seq(S) /\ <<ping>> \in Seq(S) /\ <<pong>> \in Seq(S)
    BY <2>4, <2>6
  <2> QED BY <2>5, <2>7, <2>8, Zenon
<1> QED BY <1>1

\* ... so that the sum of it goes on with each frame.
LEMMA ExpectationsNext ==
    ASSUME TypeInv, NEW i \in 1..N
    PROVE  JoinTo(Expectations, (i + 1) - 1) = JoinTo(Expectations, i - 1) \o Expected(i)
<1>1. PICK S : \A k \in 1..N : Expectations[k] \in Seq(S)
  BY ExpectedTypes
<1>2. /\ i - 1 \in Nat /\ (i - 1) + 1 = i /\ (i + 1) - 1 = i /\ 1..i \subseteq 1..N
  BY Constants
<1>3. \A k \in 1..((i - 1) + 1) : Expectations[k] \in Seq(S)
  BY <1>1, <1>2
<1>4. JoinTo(Expectations, (i - 1) + 1) = JoinTo(Expectations, i - 1) \o Expectations[(i - 1) + 1]
  BY <1>2, <1>3, JoinEquations
<1>5. Expectations[i] = Expected(i)
  BY DEF Expectations
<1> QED BY <1>2, <1>4, <1>5

\* One more call of the handler.
LEMMA ToldNext ==
    ASSUME TypeInv, NEW e \in Calls, events' = Append(events, e)
    PROVE  /\ Told \in Seq(Calls)
           /\ e.call = "onClose" => Told' = Told
           /\ e.call # "onClose" => Told' = Told \o <<e>>
<1> DEFINE n == Len(events)
<1>1. events \in Seq(Calls) /\ n \in Nat /\ DOMAIN events = 1..n
  BY DEF TypeInv
<1>2. /\ Len(events') = n + 1 /\ DOMAIN events' = 1..(n + 1)
      /\ events'[n + 1] = e /\ \A k \in 1..n : events'[k] = events[k] /\ events[k] \in Calls
  BY <1>1
<1>3. Told = JoinTo(Tellings, n) /\ Told' = JoinTo(Tellings', n + 1)
  BY <1>2 DEF Told, Tellings
<1> HIDE DEF n
<1>4. /\ \A k \in 1..n : Tellings'[k] = Tellings[k]
      /\ Tellings'[n + 1] = IF e.call = "onClose" THEN <<>> ELSE <<e>>
  <2>1. n + 1 \in 1..(n + 1) /\ \A k \in 1..n : k \in 1..(n + 1)
    BY <1>1
  <2> QED BY <1>1, <1>2, <2>1 DEF Tellings
<1>5. \A k \in 1..(n + 1) : Tellings'[k] \in Seq(Calls)
  <2>1. ASSUME NEW k \in 1..(n + 1) PROVE events'[k] \in Calls
    BY <1>1, <1>2
  <2>2. ASSUME NEW c \in Calls PROVE <<c>> \in Seq(Calls)
    OBVIOUS
  <2>3. <<>> \in Seq(Calls)
    OBVIOUS
  <2> QED BY <1>2, <2>1, <2>2, <2>3 DEF Tellings
<1>6. JoinTo(Tellings', n + 1) = JoinTo(Tellings', n) \o Tellings'[n + 1]
  BY <1>1, <1>5, JoinEquations
<1>7. \A k \in 1..n : Tellings[k] \in Seq(Calls) /\ Tellings[k] = Tellings'[k]
  <2>1. \A k \in 1..n : k \in 1..(n + 1)
    BY <1>1
  <2> QED BY <1>4, <1>5, <2>1
<1>8. JoinTo(Tellings, n) = JoinTo(Tellings', n)
  BY <1>1, <1>7, JoinSame
<1>9. Told \in Seq(Calls)
  <2>1. \A k \in 1..n : Tellings[k] \in Seq(Calls)
    BY <1>7
  <2> QED BY <1>1, <1>3, <2>1, JoinToIsJoin
<1>10. Told \o <<>> = Told
  BY <1>9
<1> QED BY <1>3, <1>4, <1>6, <1>8, <1>9, <1>10

\* Nothing else is to be told while the client's frames stay what they are.
LEMMA ExpectationsKept ==
    ASSUME UNCHANGED frames
    PROVE  /\ Expectations' = Expectations
           /\ \A i : /\ Expected(i)' = Expected(i) /\ Carried(i)' = Carried(i)
                     /\ Payload(i)' = Payload(i)
BY DEF Expectations, Expected, Carried, First, Open, Payload

\* The next frame is taken: what is left to show is what it does to the calls and
\* to the message being collected.
LEMMA ToldTaken ==
    ASSUME FrameInv, NEW i \in 1..N, Taken(i), UNCHANGED <<frames, arrived, base, protocol>>,
           ToldInv, pc' \in {"loop", "return"},
           WellFormed(i) /\ WellFormed(i - 1) /\ GatheredAt(i) =>
               Told' = Told \o Expected(i) /\ (~dropped' => GatheredAt(i + 1)')
    PROVE  ToldInv'
<1>1. /\ i + 1 \in 1..(N + 1) /\ view' = Start(i + 1) /\ Start(i + 1)' = Start(i + 1)
  BY TakenStep
<1>2. protocol /\ frames \in [1..N -> Frame] /\ TypeInv
  BY AtFrame DEF Taken, FrameInv, TypeInv
<1>3. Place' = Start(i + 1)
  BY <1>1 DEF Place
<1>4. ASSUME WellFormed(i)
      PROVE  ToldAt(i + 1)' /\ (~dropped' => GatheredAt(i + 1)')
  <2>1. WellFormed(i - 1)
    BY <1>4, Breaks
  <2>2. /\ pc = "loop" /\ ~dropped /\ Place = Start(i) /\ i \in 1..(N + 1)
    BY AtFrame, Constants DEF Taken, At, Place
  <2>3. ToldAt(i) /\ GatheredAt(i)
    BY <1>2, <2>1, <2>2 DEF ToldInv
  <2>4. Told' = Told \o Expected(i) /\ (~dropped' => GatheredAt(i + 1)')
    BY <1>4, <2>1, <2>3
  <2>5. ToldAt(i + 1)'
    BY <1>2, <2>3, <2>4, ExpectationsNext, ExpectationsKept DEF ToldAt
  <2> QED BY <2>4, <2>5
<1>5. ASSUME NEW j \in 1..(N + 1), Place' = Start(j)' PROVE j = i + 1
  <2>1. Start(j) = Start(i + 1)
    BY <1>1, <1>3, <1>5, FramesKept
  <2> QED BY <1>1, <1>2, <2>1, FrameStarts
<1>6. (i + 1) - 1 = i
  OBVIOUS
<1>7. WellFormed(i)' <=> WellFormed(i)
  BY FramesKept
<1> QED BY <1>2, <1>4, <1>5, <1>6, <1>7 DEF ToldInv

\* Steps of the loop that take no frame, of the peer and of the application.
LEMMA ToldQuiet ==
    ASSUME ToldInv, UNCHANGED frames, Told' = Told, protocol' => protocol,
           pc' = "return" => protocol',
           pc' # "threw" => pc # "threw" /\ Place' = Place,
           ~dropped' => ~dropped /\ UNCHANGED fragVars
    PROVE  ToldInv'
<1>1. \A i : /\ Start(i)' = Start(i) /\ (WellFormed(i)' <=> WellFormed(i))
             /\ (InMessage(i)' <=> InMessage(i)) /\ \A k : Open(k, i)' <=> Open(k, i)
  BY FramesKept
<1>2. \A i : ToldAt(i)' <=> ToldAt(i)
  BY ExpectationsKept DEF ToldAt
<1>3. ASSUME ~dropped' PROVE \A i : GatheredAt(i) => GatheredAt(i)'
  BY <1>1, <1>3, ExpectationsKept DEF GatheredAt, KindInv, fragVars
<1> QED BY <1>1, <1>2, <1>3 DEF ToldInv

\* A call that is no onClose is told; closing is not.
LEMMA CallTold ==
    ASSUME TypeInv, NEW what \in {"onMessage", "onPing", "onPong"},
           NEW kind \in {"none", "text", "binary"}, NEW bytes \in Seq(1..N),
           Call(what, kind, bytes)
    PROVE  Told' = Told \o <<[call |-> what, kind |-> kind, payload |-> bytes]>>
<1> DEFINE e == [call |-> what, kind |-> kind, payload |-> bytes]
<1>1. e \in Calls /\ e.call # "onClose"
  BY DEF Calls
<1>2. events' = Append(events, e)
  BY DEF Call
<1> HIDE DEF e
<1>3. Told' = Told \o <<e>>
  BY <1>1, <1>2, ToldNext
<1> QED BY <1>3 DEF e

LEMMA CloseTold ==
    ASSUME TypeInv, Call("onClose", "none", <<>>)
    PROVE  Told' = Told
<1> DEFINE none == <<>>
           e == [call |-> "onClose", kind |-> "none", payload |-> none]
<1>1. none \in Seq(1..N)
  OBVIOUS
<1>2. events' = Append(events, e)
  BY DEF Call
<1> HIDE DEF none
<1>3. e \in Calls /\ e.call = "onClose"
  BY <1>1 DEF Calls
<1> HIDE DEF e
<1> QED BY <1>2, <1>3, ToldNext

LEMMA ToldTypes ==
    ASSUME TypeInv
    PROVE  Told \in Seq(Calls)
<1> DEFINE n == Len(events)
<1>1. events \in Seq(Calls) /\ n \in Nat /\ DOMAIN events = 1..n
  BY DEF TypeInv
<1>2. Told = JoinTo(Tellings, n)
  BY DEF Told, Tellings
<1>3. \A k \in 1..n : Tellings[k] \in Seq(Calls)
  <2>1. ASSUME NEW c \in Calls PROVE <<c>> \in Seq(Calls)
    OBVIOUS
  <2>2. <<>> \in Seq(Calls)
    OBVIOUS
  <2> QED BY <1>1, <2>1, <2>2 DEF Tellings
<1> HIDE DEF n
<1> QED BY <1>1, <1>2, <1>3, JoinToIsJoin

\* A data frame with FIN leaves no message open.
LEMMA Closed ==
    ASSUME TypeInv, NEW i \in 1..N, frames[i].op \in DataOps, frames[i].fin,
           UNCHANGED frames, frag_buffer' = <<>>
    PROVE  GatheredAt(i + 1)'
<1>1. (i + 1) - 1 = i /\ 1..i = 1..(i - 1) \cup {i}
  OBVIOUS
<1>2. \A k \in 1..i : ~Open(k, i + 1)
  BY <1>1, OpenNext
<1>3. ~InMessage(i + 1)'
  BY <1>1, <1>2, FramesKept DEF InMessage
<1>4. frag_buffer' = Carried(i + 1)'
  BY CarriedNext, ExpectationsKept
<1> QED BY <1>3, <1>4 DEF GatheredAt, KindInv

\* A fragment of a message ...
LEMMA ToldPiece ==
    ASSUME FrameInv, ToldInv, NEW i \in 1..N, Fragment(i), frames[i].op \in DataOps
    PROVE  ToldInv'
<1>1. /\ Taken(i) /\ At(i) /\ ~frames[i].fin /\ UNCHANGED <<frames, arrived, base, protocol>>
      /\ pc' = "loop" /\ UNCHANGED events /\ TypeInv
      /\ frag_buffer' = Collected(i)
      /\ cur_opcode' = IF Starts(frames[i]) THEN frames[i].op ELSE cur_opcode
  BY DEF Fragment, Taken, At, streamVars, FrameInv
<1>3. /\ (i + 1) - 1 = i /\ 1..i = 1..(i - 1) \cup {i} /\ i \in 1..i
      /\ \A k \in 1..(i - 1) : 1..(k - 1) \subseteq 1..(i - 1)
  OBVIOUS
<1>4. /\ \A k \in 1..(i - 1) : Open(k, i + 1) <=> Open(k, i)
      /\ Open(i, i + 1)
  BY <1>1, OpenNext
<1>5. ASSUME WellFormed(i), GatheredAt(i)
      PROVE  Told' = Told \o Expected(i) /\ (~dropped' => GatheredAt(i + 1)')
  <2>1. Expected(i) = <<>>
    BY <1>1 DEF Expected, DataOps
  <2>2. Told' = Told /\ Told \in Seq(Calls)
    BY <1>1, ToldTypes DEF Told
  <2>3. Told' = Told \o Expected(i)
    BY <2>1, <2>2
  <2>4. frag_buffer' = Carried(i + 1)'
    BY <1>1, <1>5, CarriedNext, ExpectationsKept DEF GatheredAt, Collected
  <2>5. \E k \in 1..i : /\ Open(k, i + 1)
                        /\ \A m \in 1..(k - 1) : ~Open(m, i + 1)
                        /\ frames[k].op = cur_opcode'
                        /\ cur_opcode' \in {"text", "binary"}
    <3>1. CASE Starts(frames[i])
      <4>1. ~InMessage(i) /\ frames[i].op \in {"text", "binary"}
        BY <1>5, <3>1, Breaks DEF Starts
      <4>2. \A m \in 1..(i - 1) : ~Open(m, i + 1)
        BY <1>4, <4>1 DEF InMessage
      <4> QED BY <1>1, <1>3, <1>4, <3>1, <4>1, <4>2
    <3>2. CASE ~Starts(frames[i])
      <4>1. InMessage(i)
        <5>1. frames[i].op = "continuation"
          BY <3>2 DEF Starts, DataOps
        <5> QED BY <1>3, <1>5, <5>1 DEF WellFormed
      <4>2. PICK k \in 1..(i - 1) : /\ Open(k, i)
                                    /\ \A m \in 1..(k - 1) : ~Open(m, i)
                                    /\ frames[k].op = cur_opcode
                                    /\ cur_opcode \in {"text", "binary"}
        BY <1>5, <4>1 DEF GatheredAt, KindInv
      <4>3. k \in 1..i /\ Open(k, i + 1) /\ \A m \in 1..(k - 1) : ~Open(m, i + 1)
        BY <1>3, <1>4, <4>2
      <4> QED BY <1>1, <3>2, <4>2, <4>3
    <3> QED BY <3>1, <3>2
  <2>6. KindInv(i + 1)'
    <3>1. \A k : Open(k, i + 1)' <=> Open(k, i + 1)
      BY <1>1, FramesKept
    <3> QED BY <1>1, <1>3, <2>5, <3>1 DEF KindInv
  <2> QED BY <2>3, <2>4, <2>6 DEF GatheredAt
<1> QED BY <1>1, <1>5, ToldTaken

\* ... or of a control frame, which is against the protocol.
LEMMA ToldFragment ==
    ASSUME FrameInv, ToldInv, NEW i \in 1..N, Fragment(i)
    PROVE  ToldInv'
<1>1. CASE frames[i].op \in DataOps
  BY <1>1, ToldPiece
<1>2. CASE frames[i].op \notin DataOps
  <2>1. /\ Taken(i) /\ ~frames[i].fin /\ UNCHANGED <<frames, arrived, base, protocol>>
        /\ pc' = "loop"
    BY DEF Fragment, Taken, At, streamVars
  <2>2. ~WellFormed(i)
    BY <1>2, <2>1, Breaks
  <2> QED BY <2>1, <2>2, ToldTaken
<1> QED BY <1>1, <1>2

LEMMA ToldUnterminated ==
    ASSUME FrameInv, ToldInv, NEW i \in 1..N, Unterminated(i)
    PROVE  ToldInv'
<1>1. /\ Taken(i) /\ At(i) /\ UNCHANGED <<frames, arrived, base, protocol>>
      /\ pc' = "return" /\ Starts(frames[i]) /\ frag_buffer # <<>>
  BY DEF Unterminated, Taken, Drop, streamVars
<1>2. ~(WellFormed(i) /\ WellFormed(i - 1))
  BY <1>1, AtFrame, Breaks DEF FragInv, Starts
<1> QED BY <1>1, <1>2, ToldTaken

LEMMA ToldCloseFrame ==
    ASSUME FrameInv, ToldInv, NEW i \in 1..N, CloseFrame(i)
    PROVE  ToldInv'
<1>1. /\ Taken(i) /\ UNCHANGED <<frames, arrived, base, protocol>>
      /\ pc' = "return" /\ dropped' /\ frames[i].op = "close"
      /\ Call("onClose", "none", <<>>) /\ TypeInv
  BY DEF CloseFrame, Close, Drop, streamVars, FrameInv
<1>2. Expected(i) = <<>>
  BY <1>1 DEF Expected, DataOps
<1>3. Told' = Told /\ Told \in Seq(Calls)
  BY <1>1, CloseTold, ToldTypes
<1>4. Told' = Told \o Expected(i)
  BY <1>2, <1>3
<1> QED BY <1>1, <1>4, ToldTaken

LEMMA ToldContinuation ==
    ASSUME FrameInv, ToldInv, NEW i \in 1..N, Continuation(i)
    PROVE  ToldInv'
<1> DEFINE kind == IF cur_opcode = "text" THEN "text" ELSE "binary"
<1>1. /\ Taken(i) /\ At(i) /\ UNCHANGED <<frames, arrived, base, protocol>>
      /\ pc' = "loop" /\ frames[i].fin /\ frames[i].op = "continuation"
      /\ frag_buffer' = <<>> /\ Call("onMessage", kind, Collected(i)) /\ TypeInv
  BY DEF Continuation, Taken, At, streamVars, FrameInv
<1>2. frames[i].op \in DataOps
  BY <1>1 DEF DataOps
<1>3. ASSUME WellFormed(i), GatheredAt(i) PROVE Told' = Told \o Expected(i)
  <2>1. InMessage(i)
    <3>1. i \in 1..i
      OBVIOUS
    <3> QED BY <1>1, <1>2, <1>3, <3>1 DEF WellFormed
  <2>2. PICK k \in 1..(i - 1) : /\ Open(k, i)
                                /\ \A m \in 1..(k - 1) : ~Open(m, i)
                                /\ frames[k].op = cur_opcode
                                /\ cur_opcode \in {"text", "binary"}
    BY <1>3, <2>1 DEF GatheredAt, KindInv
  <2>3. k \in 1..i
    OBVIOUS
  <2>4. First(i) = k
    BY <2>2, <2>3, FirstIs
  <2>5. kind = frames[First(i)].op /\ kind \in {"none", "text", "binary"}
    BY <2>2, <2>4
  <2>6. Collected(i) = Carried(i) \o Payload(i)
    BY <1>3 DEF GatheredAt, Collected
  <2> HIDE DEF kind
  <2>7. Expected(i) = <<[call |-> "onMessage", kind |-> kind, payload |-> Collected(i)]>>
    BY <1>1, <1>2, <2>5, <2>6 DEF Expected
  <2>8. Collected(i) \in Seq(1..N)
    BY <1>1, PayloadTypes
  <2>9. Told' = Told \o <<[call |-> "onMessage", kind |-> kind, payload |-> Collected(i)]>>
    BY <1>1, <2>5, <2>8, CallTold
  <2> QED BY <2>7, <2>9
<1>4. GatheredAt(i + 1)'
  BY <1>1, <1>2, Closed
<1> QED BY <1>1, <1>3, <1>4, ToldTaken

LEMMA ToldMessage ==
    ASSUME FrameInv, ToldInv, NEW i \in 1..N, Message(i)
    PROVE  ToldInv'
<1>1. /\ Taken(i) /\ At(i) /\ UNCHANGED <<frames, arrived, base, protocol, frag_buffer>>
      /\ pc' = "loop" /\ frames[i].fin /\ frames[i].op \in {"text", "binary"}
      /\ Call("onMessage", frames[i].op, Payload(i)) /\ TypeInv
  BY DEF Message, Taken, At, streamVars, fragVars, FrameInv
<1>2. frames[i].op \in DataOps /\ frames[i].op \notin {"ping", "pong"}
  BY <1>1 DEF DataOps
<1>3. ASSUME WellFormed(i), WellFormed(i - 1), GatheredAt(i)
      PROVE  Told' = Told \o Expected(i) /\ GatheredAt(i + 1)'
  <2>1. ~InMessage(i) /\ frag_buffer = <<>>
    BY <1>1, <1>3, AtFrame, Breaks DEF FragInv
  <2>2. First(i) = i
    <3>1. i \in 1..i /\ \A m \in 1..(i - 1) : ~Open(m, i)
      BY <2>1 DEF InMessage
    <3> QED BY <3>1, FirstIs
  <2>3. Carried(i) \o Payload(i) = Payload(i) /\ Payload(i) \in Seq(1..N)
    BY <1>1, <1>3, <2>1, PayloadTypes DEF GatheredAt
  <2>4. Expected(i) = <<[call |-> "onMessage", kind |-> frames[i].op, payload |-> Payload(i)]>>
    BY <1>1, <1>2, <2>2, <2>3 DEF Expected
  <2>5. Told' = Told \o <<[call |-> "onMessage", kind |-> frames[i].op, payload |-> Payload(i)]>>
    BY <1>1, <2>3, CallTold
  <2>6. GatheredAt(i + 1)'
    BY <1>1, <1>2, <2>1, Closed
  <2> QED BY <2>4, <2>5, <2>6
<1> QED BY <1>1, <1>3, ToldTaken

\* A frame that is no piece of a message leaves the open one as it is.
LEMMA ControlGathered ==
    ASSUME TypeInv, NEW i \in 1..N, frames[i].op \notin DataOps, GatheredAt(i),
           UNCHANGED <<frames, frag_buffer, cur_opcode>>
    PROVE  GatheredAt(i + 1)'
<1>1. frag_buffer' = Carried(i + 1)'
  BY CarriedNext, ExpectationsKept DEF GatheredAt
<1>2. /\ (i + 1) - 1 = i /\ 1..i = 1..(i - 1) \cup {i}
      /\ \A k \in 1..(i - 1) : 1..(k - 1) \subseteq 1..(i - 1)
  OBVIOUS
<1>3. /\ \A k \in 1..(i - 1) : Open(k, i + 1) <=> Open(k, i)
      /\ ~Open(i, i + 1)
  BY OpenNext
<1>4. InMessage(i + 1) => InMessage(i)
  BY <1>2, <1>3 DEF InMessage
<1>5. KindInv(i + 1)
  BY <1>2, <1>3, <1>4 DEF GatheredAt, KindInv
<1>6. KindInv(i + 1)'
  BY <1>5, FramesKept DEF KindInv
<1> QED BY <1>1, <1>6 DEF GatheredAt

\* A frame that is passed over is not told of.
LEMMA ToldIgnored ==
    ASSUME FrameInv, ToldInv, NEW i \in 1..N, Ignored(i)
    PROVE  ToldInv'
<1>1. /\ Taken(i) /\ UNCHANGED <<frames, arrived, base, protocol, frag_buffer, cur_opcode>>
      /\ pc' = "loop" /\ frames[i].op = "reserved" /\ UNCHANGED events /\ TypeInv
  BY DEF Ignored, Taken, At, streamVars, fragVars, FrameInv
<1>2. frames[i].op \notin DataOps /\ Expected(i) = <<>>
  BY <1>1 DEF DataOps, Expected
<1>3. Told' = Told /\ Told \in Seq(Calls)
  BY <1>1, ToldTypes DEF Told
<1>4. Told' = Told \o Expected(i)
  BY <1>2, <1>3
<1>5. ASSUME GatheredAt(i) PROVE GatheredAt(i + 1)'
  BY <1>1, <1>2, <1>5, ControlGathered
<1> QED BY <1>1, <1>4, <1>5, ToldTaken

LEMMA ToldPingPong ==
    ASSUME FrameInv, ToldInv, NEW i \in 1..N, PingPong(i)
    PROVE  ToldInv'
<1> DEFINE what == IF frames[i].op = "ping" THEN "onPing" ELSE "onPong"
<1>1. /\ Taken(i) /\ At(i) /\ UNCHANGED <<frames, arrived, base, protocol, frag_buffer, cur_opcode>>
      /\ pc' = "loop" /\ frames[i].op \in {"ping", "pong"}
      /\ Call(what, "none", Payload(i)) /\ TypeInv
  BY DEF PingPong, Taken, At, streamVars, fragVars, FrameInv
<1>2. frames[i].op \notin DataOps
  BY <1>1 DEF DataOps
<1>3. Told' = Told \o Expected(i)
  <2>1. Expected(i) = <<[call |-> what, kind |-> "none", payload |-> Payload(i)]>>
    BY <1>1, <1>2 DEF Expected
  <2>2. what \in {"onMessage", "onPing", "onPong"}
    OBVIOUS
  <2> HIDE DEF what
  <2>3. Payload(i) \in Seq(1..N)
    BY <1>1, PayloadTypes
  <2>4. Told' = Told \o <<[call |-> what, kind |-> "none", payload |-> Payload(i)]>>
    BY <1>1, <2>2, <2>3, CallTold
  <2> QED BY <2>1, <2>4
<1>4. ASSUME GatheredAt(i) PROVE GatheredAt(i + 1)'
  BY <1>1, <1>2, <1>4, ControlGathered
<1> QED BY <1>1, <1>3, <1>4, ToldTaken

\* The loop is entered, left, or left by an exception.
LEMMA ToldElsewhere ==
    ASSUME FrameInv, ToldInv,
           \/ \E n \in 1..Start(N + 1) : Receive(n)
           \/ TooShort \/ Return
           \/ \E i \in 1..N : Unmasked(i) \/ HeaderCut(i) \/ PayloadMissing(i)
    PROVE  ToldInv'
<1>1. CASE \E n \in 1..Start(N + 1) : Receive(n)
  <2>1. /\ pc = "idle" /\ pc' = "loop" /\ view' = base
        /\ UNCHANGED <<frames, protocol, dropped, events, fragVars>>
    BY <1>1 DEF Receive
  <2>2. Told' = Told /\ Place' = Place
    BY <2>1 DEF Told, Place
  <2> QED BY <2>1, <2>2, ToldQuiet
<1>2. CASE TooShort \/ \E i \in 1..N : HeaderCut(i) \/ PayloadMissing(i)
  <2>1. /\ pc = "loop" /\ pc' \in {"return", "threw"}
        /\ UNCHANGED <<frames, protocol, view, dropped, events, fragVars>>
    BY <1>2 DEF TooShort, HeaderCut, PayloadMissing, At, streamVars
  <2>2. Told' = Told /\ Place' = Place
    BY <2>1 DEF Told, Place
  <2>3. protocol'
    BY <2>1 DEF FrameInv, PlaceInv
  <2> QED BY <2>1, <2>2, <2>3, ToldQuiet
<1>3. CASE \E i \in 1..N : Unmasked(i)
  <2>1. /\ pc = "loop" /\ pc' = "return" /\ dropped' /\ TypeInv
        /\ UNCHANGED <<frames, protocol, view>>
        /\ Call("onClose", "none", <<>>)
    BY <1>3 DEF Unmasked, At, Drop, Close, streamVars, FrameInv
  <2>2. Told' = Told /\ Place' = Place
    BY <2>1, CloseTold DEF Place
  <2>3. protocol'
    BY <2>1 DEF FrameInv, PlaceInv
  <2> QED BY <2>1, <2>2, <2>3, ToldQuiet
<1>4. CASE Return
  <2>1. /\ pc = "return" /\ pc' = "idle" /\ base' = base + consumed
        /\ UNCHANGED <<frames, dropped, events, fragVars>>
    BY <1>4 DEF Return
  <2>2. Told' = Told
    BY <2>1 DEF Told
  <2>3. view = base + consumed /\ protocol
    BY <2>1 DEF FrameInv, ViewInv, ToldInv
  <2>4. Place' = Place
    BY <2>1, <2>3 DEF Place
  <2> QED BY <2>1, <2>2, <2>3, <2>4, ToldQuiet
<1> QED BY <1>1, <1>2, <1>3, <1>4

\* The peer and the application.
LEMMA ToldOther ==
    ASSUME FrameInv, ToldInv, PeerClose \/ AppClose \/ CloseSent \/ UNCHANGED vars
    PROVE  ToldInv'
<1>1. UNCHANGED <<frames, base, protocol, fragVars, callVars>>
  BY DEF PeerClose, AppClose, CloseSent, vars, streamVars, fragVars, callVars
<1>2. UNCHANGED <<pc, view, dropped>> /\ Place' = Place
  BY <1>1 DEF callVars, Place
<1>3. Told' = Told
  <2>1. Call("onClose", "none", <<>>) \/ UNCHANGED events
    BY DEF PeerClose, AppClose, CloseSent, Close, vars
  <2>2. CASE UNCHANGED events
    BY <2>2 DEF Told
  <2> QED BY <2>1, <2>2, CloseTold DEF FrameInv
<1>4. pc' = "return" => protocol'
  BY <1>1, <1>2 DEF ToldInv
<1> QED BY <1>1, <1>2, <1>3, <1>4, ToldQuiet

LEMMA ToldStep ==
    ASSUME FrameInv, ToldInv, [Next]_vars
    PROVE  ToldInv'
BY ToldFragment, ToldUnterminated, ToldContinuation, ToldMessage, ToldCloseFrame,
   ToldPingPong, ToldIgnored, ToldElsewhere, ToldOther DEF Next, Round

LEMMA ToldInit == Init => ToldInv
<1> SUFFICES ASSUME Init PROVE ToldInv
  OBVIOUS
<1>1. /\ frames \in [1..N -> Frame] /\ pc = "idle" /\ base = 0
      /\ frag_buffer = <<>> /\ events = <<>> /\ N \in Nat
  BY Constants DEF Init
<1>2. \A i \in 1..(N + 1) : Place = Start(i) => i = 1
  <2>1. Place = Start(1) /\ 1 \in 1..(N + 1)
    BY <1>1, FrameStarts DEF Place
  <2> QED BY <1>1, <2>1, FrameStarts
<1>3. ToldAt(1)
  <2>1. 1 - 1 = 0 /\ Len(events) = 0
    BY <1>1
  <2> QED BY <2>1, JoinZero DEF ToldAt, Told
<1>4. GatheredAt(1)
  <2>1. 1 - 1 = 0 /\ 1..0 = {}
    OBVIOUS
  <2>2. Carried(1) = <<>>
    BY <2>1, JoinZero DEF Carried
  <2> QED BY <1>1, <2>1, <2>2 DEF GatheredAt, KindInv, InMessage
<1> QED BY <1>1, <1>2, <1>3, <1>4 DEF ToldInv

\* However the bytes are cut and whatever control frames come in between, the handler
\* of a client that keeps to the protocol is told of all of its messages, pings and
\* pongs, in their order, once, and with their whole payload.
THEOREM HandlerIsToldInOrder == Spec => []HandlerToldInOrder
<1>1. ASSUME ToldInv PROVE HandlerToldInOrder
  <2> SUFFICES ASSUME NEW n \in 0..N, WellFormed(n), pc # "threw", protocol,
                      Place = Start(n + 1)
               PROVE  Told = JoinTo(Expectations, n)
    BY DEF HandlerToldInOrder, Expectations
  <2>1. n + 1 \in 1..(N + 1) /\ (n + 1) - 1 = n
    BY Constants
  <2> QED BY <1>1, <2>1 DEF ToldInv, ToldAt
<1>2. FrameInv /\ ToldInv /\ [Next]_vars => ToldInv'
  BY ToldStep
<1> QED BY <1>1, <1>2, ToldInit, Invariance, PTL DEF Spec

===============================================================================
