----------------------------- MODULE HttpProtocol -----------------------------
(***************************************************************************)
(* HttpProtocol::onDataReceived: how the bytes of a connection become      *)
(* requests and answers, in whatever pieces they arrive.                   *)
(*                                                                         *)
(* A byte is known by the request it belongs to and its place in it.  The  *)
(* first HeaderLength bytes of a request are its header, the last of them  *)
(* ends the "\r\n\r\n"; Content-Length bytes of body follow.  A call of    *)
(* onDataReceived is Receive, the rounds of its while loop, and Return,    *)
(* with which ConnectionHandler drops what was consumed from in_buf.       *)
(***************************************************************************)
EXTENDS Naturals, Sequences, SequencesExt, Sums

CONSTANTS
    N,              \* bound: requests the client sends over the connection
    Kinds,          \* what may become of a request, see Status
    Lengths,        \* the Content-Lengths
    HeaderLength,   \* bound: bytes of a header
    MaxAnswers      \* bound: answers that the history keeps

ASSUME HttpAssumption ==
    /\ N \in Nat \ {0}
    /\ HeaderLength \in Nat \ {0}
    /\ Lengths \subseteq Nat
    /\ MaxAnswers \in Nat /\ N <= MaxAnswers
    /\ Kinds \subseteq {"ok", "old", "rejected", "failed", "upgraded", "halfopen",
                      "openfailed", "unlisted", "strange", "malformed", "overrun"}

VARIABLES
    requests,       \* requests[i]: kind and body length of the i-th request
    outgoing,       \* bytes that the client has still to send
    \* ConnectionHandler
    in_buf,
    protocol,       \* "http", "websocket" or "none" (the null protocol)
    \* HttpProtocol
    header,         \* the request whose header was read, 0 without one
    \* locals of onDataReceived
    pc, received, consumed, protocol_change, error,
    \* history
    answers,        \* the answers: status, request, body it was made from, and
                    \* whether an upgrade's 101 was written to the same request before
    pipelined       \* a request was sent before the one before was answered

connVars == <<requests, outgoing, in_buf, protocol, pipelined>>
vars == <<requests, outgoing, in_buf, protocol, header, pc, received, consumed,
          protocol_change, error, answers, pipelined>>

Requests == 1..N

Byte == [msg : Requests, pos : Nat \ {0}]

Bytes(i, from, to) == [k \in 1..(to - from + 1) |-> [msg |-> i, pos |-> from + k - 1]]
HeaderBytes(i) == Bytes(i, 1, HeaderLength)
BodyBytes(i) == Bytes(i, HeaderLength + 1, HeaderLength + requests[i].length)

\* All that the client sends.
Stream == JoinTo([i \in Requests |-> HeaderBytes(i) \o BodyBytes(i)], N)

\* received.substr(n); n may not exceed the length.
From(seq, n) == SubSeq(seq, n + 1, Len(seq))

(***************************************************************************)
(* What becomes of a request: Status is that of the Response which the     *)
(* dispatcher or the upgrade returns, or of the Error which they or a check*)
(* before them throw.  Response::serialize knows no other than Reasons.    *)
(* Of an upgrade whose route throws in onOpen the 101 was written already. *)
(* A header that is none is refused by parse_header, with an Error 400 or, *)
(* where it reads out of range, with an exception that becomes a 500.      *)
(***************************************************************************)

Broken == {"malformed", "overrun"}
HalfOpen == {"halfopen", "openfailed"}

Reasons == {101, 226} \cup 200..208 \cup 300..308 \cup 400..418 \cup 421..426
           \cup {428, 429, 431, 451} \cup 500..508 \cup {510, 511}

Status(kind) == CASE kind \in {"ok", "old"} -> 200
                  [] kind = "upgraded" -> 101
                  [] kind = "unlisted" -> 299
                  [] kind = "rejected" -> 404
                  [] kind = "strange" -> 420
                  [] kind = "failed" -> 500
                  [] kind = "halfopen" -> 403
                  [] kind = "openfailed" -> 500
                  [] kind = "malformed" -> 400
                  [] kind = "overrun" -> 500

\* The status of the answer.  That a Response cannot be serialized is caught and
\* answered with 500; when it is an Error that cannot be, serialize throws within
\* the catch clause, out of onDataReceived: 0.
Outcome(kind) == IF Status(kind) \in Reasons THEN Status(kind)
                 ELSE IF kind = "unlisted" THEN 500 ELSE 0

Init == /\ requests \in [Requests -> [kind : Kinds, length : Lengths]]
        /\ outgoing = Stream
        /\ in_buf = <<>> /\ protocol = "http"
        /\ header = 0
        /\ pc = "idle" /\ received = <<>> /\ consumed = 0
        /\ protocol_change = "unchanged" /\ error = 0
        /\ answers = <<>> /\ pipelined = FALSE

\* The next n bytes arrive; the protocol is shown all that in_buf holds.
Receive(n) ==
    /\ pc = "idle" /\ protocol = "http"
    /\ n \in 1..Len(outgoing)
    /\ in_buf' = in_buf \o SubSeq(outgoing, 1, n)
    /\ outgoing' = From(outgoing, n)
    /\ pipelined' = (pipelined \/ outgoing[n].msg > Len(answers) + 1)
    /\ received' = in_buf'
    /\ consumed' = 0 /\ protocol_change' = "unchanged"
    /\ pc' = "loop"
    /\ UNCHANGED <<requests, protocol, header, error, answers>>

\* Where the first header in the view ends, 0 without one.
HeaderEnd == SelectInSeq(received, LAMBDA b : b.pos = HeaderLength)

\* Mutant: continue instead of return or break.
FaultyLeave == UNCHANGED pc

Leave == pc' = "return"

\* No header and none in the buffer: the loop is left.
NoHeader ==
    /\ pc = "loop" /\ header = 0 /\ HeaderEnd = 0
    /\ Leave
    /\ UNCHANGED <<connVars, header, received, consumed, protocol_change, error, answers>>

\* Mutant: a status the code does not know.
FaultyThrow(code) == pc' = "catch" /\ error' = code + 4

Throw(code) == pc' = "catch" /\ error' = code

\* Mutant: one byte too many.
FaultyCount(n) == consumed' = consumed + n + 1

Count(n) == consumed' = consumed + n

\* A header: it is counted as consumed, and the view moves by ALL that was
\* consumed in this call; beyond the end of the view substr throws.  (A text
\* that merely ends with the header of a request, after a view that moved too
\* far, may be taken for it: "bodyGET / HTTP/1.1" has a method, too.)
ParseHeader ==
    /\ pc = "loop" /\ header = 0 /\ HeaderEnd # 0
    /\ requests[received[HeaderEnd].msg].kind \notin Broken
    /\ header' = received[HeaderEnd].msg
    /\ Count(HeaderEnd)
    /\ IF consumed' > Len(received)
       THEN Throw(500) /\ UNCHANGED received
       ELSE /\ received' = From(received, consumed')
            /\ UNCHANGED <<pc, error>>
    /\ UNCHANGED <<connVars, protocol_change, answers>>

\* What stands before the blank line is no header: parse_header throws, and
\* nothing was counted as consumed.  For the same text it throws the same; what a
\* view that moved too far shows of a header may be refused in either way.
ParseFails ==
    /\ pc = "loop" /\ header = 0 /\ HeaderEnd # 0
    /\ LET i == received[HeaderEnd].msg
       IN IF SubSeq(received, 1, HeaderEnd) = HeaderBytes(i)
          THEN requests[i].kind \in Broken /\ Throw(Outcome(requests[i].kind))
          ELSE \E code \in {400, 500} : Throw(code)
    /\ UNCHANGED <<connVars, header, received, consumed, protocol_change, answers>>

\* Mutant: one byte more is awaited.
FaultyContentThere == Len(received) > requests[header].length

ContentThere == Len(received) >= requests[header].length

\* The body is not there yet: the header is kept for the next call.
ContentMissing ==
    /\ pc = "loop" /\ header # 0 /\ ~ContentThere
    /\ Leave
    /\ UNCHANGED <<connVars, header, received, consumed, protocol_change, error, answers>>

Answer(code, i, body, opened) ==
    answers' = Append(answers, [code |-> code, to |-> i, body |-> body, opened |-> opened])

\* Mutant: the first byte is lost.
FaultyBody(length) == SubSeq(received, 2, length)

Body(length) == SubSeq(received, 1, length)

\* What becomes of the protocol.  The version is read from a header that was
\* moved from: an old client's protocol may be dropped or not.
Change(kind, code) == CASE code = 101 -> {"websocket"}
                        [] code >= 500 -> {"none"}
                        [] kind = "old" -> {"unchanged", "none"}
                        [] OTHER -> {"unchanged"}

\* The body is cut off, the header is forgotten, the request is handled; the
\* answer is written here or, when handling throws, by the catch clauses.
Handle ==
    /\ pc = "loop" /\ header # 0 /\ ContentThere
    /\ LET length == requests[header].length
           kind == requests[header].kind
           code == Outcome(kind)
       IN /\ received' = From(received, length)
          /\ Count(length)
          /\ IF code = 0 THEN UNCHANGED answers
             ELSE Answer(code, header, Body(length), kind \in HalfOpen)
          /\ protocol_change' \in Change(kind, code)
          /\ pc' = IF code = 0 THEN "threw"
                   ELSE IF protocol_change' = "unchanged" THEN "loop" ELSE "return"
    /\ header' = 0
    /\ UNCHANGED <<connVars, error>>

\* Mutant: the error answer is forgotten.
FaultyRefuse == UNCHANGED answers

\* The error answer to what was taken for a header, kept up to MaxAnswers.
Refuse == LET i == IF header # 0 THEN header ELSE received[HeaderEnd].msg
          IN IF Len(answers) < MaxAnswers THEN Answer(error, i, <<>>, FALSE)
             ELSE UNCHANGED answers

\* The catch clauses, for errors of the header: they are answered; an error below
\* 500 leaves the protocol in place, and the loop goes round again.
Catch ==
    /\ pc = "catch"
    /\ Refuse
    /\ protocol_change' = IF error >= 500 THEN "none" ELSE protocol_change
    /\ pc' = IF error >= 500 THEN "return" ELSE "loop"
    /\ error' = 0
    /\ UNCHANGED <<connVars, header, received, consumed>>

Return ==
    /\ pc = "return"
    /\ in_buf' = From(in_buf, consumed)
    /\ protocol' = IF protocol_change = "unchanged" THEN protocol ELSE protocol_change
    /\ received' = <<>> /\ consumed' = 0 /\ protocol_change' = "unchanged"
    /\ pc' = "idle"
    /\ UNCHANGED <<requests, outgoing, header, error, answers, pipelined>>

Round == \/ NoHeader \/ ParseHeader \/ ParseFails
         \/ ContentMissing \/ Handle \/ Catch \/ Return

Next == \/ \E n \in 1..Len(outgoing) : Receive(n)
        \/ Round

Spec == Init /\ [][Next]_vars

\* onDataReceived runs until it returns.
FairSpec == Spec /\ WF_vars(Round)

(***************************************************************************)
(* Properties                                                              *)
(***************************************************************************)

\* Every variable has its type; a status is one the code can answer with.
TypeOK ==
    /\ requests \in [Requests -> [kind : Kinds, length : Lengths]]
    /\ \A seq \in {outgoing, in_buf, received} : ToSet(seq) \subseteq Byte
    /\ protocol \in {"http", "websocket", "none"}
    /\ header \in 0..N
    /\ pc \in {"idle", "loop", "catch", "return", "threw"}
    /\ consumed \in Nat /\ error \in {0, 400, 500}
    /\ protocol_change \in {"unchanged", "websocket", "none"}
    /\ \A k \in DOMAIN answers : answers[k].code \in Reasons
    /\ pipelined \in BOOLEAN

\* What onDataReceived reports as consumed is in the buffer: operator() erases
\* that many bytes without a check.  It also holds for pipelined requests,
\* where the view and the count drift apart.
ConsumedFits == consumed <= Len(in_buf)

\* What the k-th request is answered, and what it is made from.
Due(k) == LET kind == requests[k].kind
          IN [code |-> Outcome(kind), to |-> k,
              body |-> IF kind \in Broken THEN <<>> ELSE BodyBytes(k),
              opened |-> kind \in HalfOpen]

\* A client that awaits each answer gets one to each of its requests, in their
\* order, each made from its own body, however the bytes were cut; but once a
\* header was refused with an error of the client, it is told the same again and
\* again and nothing else.
AnswersInStep ==
    ~pipelined =>
      \A k \in DOMAIN answers :
        IF k > 1 /\ requests[answers[k - 1].to].kind = "malformed"
        THEN answers[k] = answers[k - 1]
        ELSE answers[k] = Due(k)

\* Between two calls the buffer and the header that was kept are together the
\* unanswered rest of what arrived: no byte is lost or used twice, and a
\* request that has arrived completely is not left unanswered.
NothingLeftBehind ==
    ~pipelined /\ pc = "idle" /\ protocol = "http" =>
      LET k == Len(answers) + 1
      IN \/ in_buf = <<>> /\ header = 0
         \/ /\ header = 0 /\ IsStrictPrefix(in_buf, HeaderBytes(k))
         \/ /\ header = k /\ IsStrictPrefix(in_buf, BodyBytes(k))

\* onDataReceived returns, unless a header is malformed or an Error has a status
\* without a reason: in particular a Response with such a status is answered.
ReturnsUnlessMalformed ==
    (\A i \in Requests : requests[i].kind \notin {"malformed", "strange"}) /\ ~pipelined
      => (pc # "idle" ~> pc = "idle" \/ pipelined)

\* "return the amount of bytes consumed": onDataReceived returns.
Returns == pc # "idle" ~> pc = "idle"

\* "content missing": it returns for want of content only when the bytes that
\* it has not consumed are too few.
MissingIsMissing ==
    [][ContentMissing => Len(in_buf) - consumed < requests[header].length]_vars

\* The last answer refused a header for an error of the client.
Refusing == /\ answers # <<>>
            /\ requests[answers[Len(answers)].to].kind = "malformed"

\* What became of the connection, as soon as onDataReceived has decided it.
State == IF pc = "threw" THEN "threw"
         ELSE IF protocol_change # "unchanged" THEN protocol_change
         ELSE IF Refusing /\ protocol = "http" THEN "refusing" ELSE protocol

Client == INSTANCE Dialogue WITH coming <- Len(outgoing), state <- State

\* With its buffer, its kept header and the pieces in which bytes arrive, the
\* protocol answers like Dialogue: a request at a time, each when all of it is
\* there and never before, after a malformed header nothing but its refusal, and
\* nothing once the connection left HTTP.
ImplementsDialogue == Client!Spec
===============================================================================
