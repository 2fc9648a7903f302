------------------------------- MODULE Dialogue -------------------------------
(***************************************************************************)
(* What a client of an HTTP connection may rely on, with no buffer, no     *)
(* kept header, no count of consumed bytes and no calls: its requests are  *)
(* answered one at a time and in their order, each once and not before all *)
(* of it has arrived, and nothing is answered after the connection left    *)
(* HTTP.  A request becomes an answer in one step.  A malformed header is  *)
(* the exception: it is refused any number of times, and nothing behind it *)
(* is ever read.                                                           *)
(*                                                                         *)
(* A client that sends a byte of the next request before it has the answer *)
(* to the one before (pipelined) may only rely on what is said already     *)
(* staying said, and on silence once the connection left HTTP.             *)
(***************************************************************************)
EXTENDS Naturals, Sequences, Sums

CONSTANTS
    N,              \* bound: requests the client sends over the connection
    Kinds,          \* what may become of a request
    Lengths,        \* the Content-Lengths
    HeaderLength,   \* bytes of a header
    Outcome(_)      \* the status with which a request of a kind is answered, 0: none

VARIABLES
    requests,       \* requests[i]: kind and body length of the i-th request
    coming,         \* how many bytes have still to arrive
    answers,        \* what was said to the client
    state,          \* "http", "refusing", "websocket", "none" or "threw"
    pipelined       \* a request was sent before the one before was answered

dialogueVars == <<requests, coming, answers, state, pipelined>>

Sizes == [i \in 1..N |-> HeaderLength + requests[i].length]

\* The request whose turn it is.
Turn == Len(answers) + 1
Kind == requests[Turn].kind

\* The first n bytes of the request whose turn it is are there.
Here(n) == SumTo(Sizes, Turn - 1) + n + coming <= SumTo(Sizes, N)

Init == /\ requests \in [1..N -> [kind : Kinds, length : Lengths]]
        /\ coming = SumTo(Sizes, N)
        /\ answers = <<>>
        /\ state = "http"
        /\ pipelined = FALSE

\* More bytes arrive, of the request whose turn it is or of those behind it.
Arrive == /\ state = "http" /\ ~pipelined /\ Turn <= N
          /\ coming > 0 /\ coming' \in 0..(coming - 1)
          /\ pipelined' = (SumTo(Sizes, Turn) + coming' < SumTo(Sizes, N))
          /\ UNCHANGED <<requests, answers, state>>

\* Where a request leads: an upgrade to a websocket, an error of the server to
\* the end, an old client perhaps to the end.
After(kind) == CASE Outcome(kind) = 101 -> {"websocket"}
                 [] Outcome(kind) >= 500 -> {"none"}
                 [] kind = "old" -> {"http", "none"}
                 [] OTHER -> {"http"}

Broken == {"malformed", "overrun"}      \* headers that are none
HalfOpen == {"halfopen", "openfailed"}  \* upgrades that fail behind their 101

Said(body) == [code |-> Outcome(Kind), to |-> Turn, body |-> body,
               opened |-> Kind \in HalfOpen]

MyBody == [p \in 1..requests[Turn].length |-> [msg |-> Turn, pos |-> HeaderLength + p]]

\* The request that has arrived as a whole is answered, from its own body.
Answer == /\ state = "http" /\ ~pipelined /\ Turn <= N
          /\ Kind \notin Broken /\ Outcome(Kind) # 0
          /\ Here(Sizes[Turn])
          /\ answers' = Append(answers, Said(MyBody))
          /\ state' \in After(Kind)
          /\ UNCHANGED <<requests, coming, pipelined>>

\* Its answer cannot be written: an exception leaves onDataReceived.
Die == /\ state = "http" /\ ~pipelined /\ Turn <= N
       /\ Kind \notin Broken /\ Outcome(Kind) = 0
       /\ Here(Sizes[Turn])
       /\ state' = "threw"
       /\ UNCHANGED <<requests, coming, answers, pipelined>>

\* A header that is none is refused, as soon as it is there; an error of the
\* server ends the connection.
Refuse == /\ state = "http" /\ ~pipelined /\ Turn <= N
          /\ Kind \in Broken /\ Here(HeaderLength)
          /\ answers' = Append(answers, Said(<<>>))
          /\ state' = IF Outcome(Kind) >= 500 THEN "none" ELSE "refusing"
          /\ UNCHANGED <<requests, coming, pipelined>>

\* An error of the client does not: the same is said again.
Repeat == /\ state = "refusing" /\ ~pipelined
          /\ answers' = Append(answers, answers[Len(answers)])
          /\ UNCHANGED <<requests, coming, state, pipelined>>

\* What a client that did not wait may see.
Garble == /\ state \in {"http", "refusing"} /\ pipelined
          /\ coming' <= coming
          /\ \/ UNCHANGED answers
             \/ /\ Len(answers') = Len(answers) + 1
                /\ SubSeq(answers', 1, Len(answers)) = answers
          /\ state' \in {"http", "refusing", "websocket", "none", "threw"}
          /\ UNCHANGED <<requests, pipelined>>

Next == Arrive \/ Answer \/ Die \/ Refuse \/ Repeat \/ Garble

Spec == Init /\ [][Next]_dialogueVars
===============================================================================
