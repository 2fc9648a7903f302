------------------------------ MODULE HttpProofs ------------------------------
(***************************************************************************)
(* Proofs about HttpProtocol for any number of requests, any lengths and   *)
(* any segmentation: what onDataReceived reports as consumed was there,    *)
(* and a client that awaits its answers gets the right ones, in order.     *)
(***************************************************************************)
EXTENDS HttpProtocol, SumProofs, SequenceTheorems

RequestsInv == requests \in [Requests -> [kind : Kinds, length : Lengths]]

DataInv ==
    /\ RequestsInv
    /\ outgoing \in Seq(Byte) /\ in_buf \in Seq(Byte) /\ received \in Seq(Byte)
    /\ header \in 0..N /\ consumed \in Nat

ControlInv ==
    /\ protocol \in {"http", "websocket", "none"}
    /\ pc \in {"idle", "loop", "catch", "return", "threw"}
    /\ error \in {0, 400, 500}
    /\ protocol_change \in {"unchanged", "websocket", "none"}
    /\ pipelined \in BOOLEAN

AnswersInv == /\ \E S : answers \in Seq(S)
              /\ \A k \in DOMAIN answers : answers[k].code \in Reasons /\ answers[k].to \in Requests

\* The view never reaches beyond what was not consumed, unless the call is about
\* to return for the error that says it would.
ViewInv == /\ consumed <= Len(in_buf)
           /\ pc = "loop" \/ (pc = "catch" /\ error < 500) =>
                 consumed + Len(received) <= Len(in_buf)

\* An error that is caught has a status, and is about a header that was found.
CatchInv == pc = "catch" => error # 0 /\ (header # 0 \/ HeaderEnd # 0)

IInv == DataInv /\ ControlInv /\ AnswersInv /\ ViewInv /\ CatchInv

(***************************************************************************)
(* Positions                                                               *)
(***************************************************************************)

\* Where a header ends in the view, if it does.
LEMMA HeaderEndInView ==
    ASSUME received \in Seq(Byte)
    PROVE  /\ HeaderEnd \in 0..Len(received)
           /\ HeaderEnd # 0 => received[HeaderEnd].pos = HeaderLength
           /\ HeaderEnd = 0 => \A p \in 1..Len(received) : received[p].pos # HeaderLength
<1> DEFINE ends == {i \in 1..Len(received) : received[i].pos = HeaderLength}
<1>1. HeaderEnd = IF ends # {} THEN Min(ends) ELSE 0
  BY DEF HeaderEnd, SelectInSeq
<1>2. /\ ends \in SUBSET Nat /\ ends \subseteq 1..Len(received) /\ Len(received) \in Nat
      /\ \A p \in 1..Len(received) : p \in ends <=> received[p].pos = HeaderLength
  OBVIOUS
<1> HIDE DEF ends
<1>3. ASSUME ends # {} PROVE Min(ends) \in ends
  <2>1. \E x \in ends : \A y \in ends : x <= y
    BY <1>2, <1>3, LeastExists
  <2> QED BY <2>1 DEF Min
<1>4. CASE ends = {}
  BY <1>1, <1>2, <1>4
<1>5. CASE ends # {}
  <2>1. HeaderEnd \in ends
    BY <1>1, <1>3, <1>5
  <2>2. HeaderEnd \in 1..Len(received)
    BY <1>2, <2>1
  <2> QED BY <1>2, <2>1, <2>2
<1> QED BY <1>4, <1>5

LEMMA SameEnd == ASSUME UNCHANGED received PROVE HeaderEnd' = HeaderEnd
BY DEF HeaderEnd, SelectInSeq

LEMMA FromSeq ==
    ASSUME NEW s \in Seq(Byte), NEW n \in Nat
    PROVE  /\ From(s, n) \in Seq(Byte)
           /\ n <= Len(s) => Len(From(s, n)) = Len(s) - n
<1>1. Len(s) \in Nat /\ \A i \in (n + 1)..Len(s) : s[i] \in Byte
  BY LenProperties
<1> QED BY <1>1, SubSeqProperties DEF From

LEMMA Constants ==
    /\ N \in Nat /\ \A l \in Lengths : l \in Nat
    /\ MaxAnswers \in Nat /\ N <= MaxAnswers
BY HttpAssumption DEF HttpAssumption

\* What may become of the protocol.
LEMMA Changes == \A kind, code : Change(kind, code) \subseteq {"unchanged", "websocket", "none"}
BY DEF Change

LEMMA Outcomes == \A kind : Outcome(kind) \in Reasons \cup {0}
<1>1. 500 \in Reasons
  BY DEF Reasons
<1> QED BY <1>1 DEF Outcome

\* A header that is none is refused with 400 or with 500.
LEMMA BrokenOutcome ==
    ASSUME NEW kind \in Broken
    PROVE  Outcome(kind) = IF kind = "malformed" THEN 400 ELSE 500
<1>1. 400 \in Reasons /\ 500 \in Reasons
  BY DEF Reasons
<1>2. Status(kind) = IF kind = "malformed" THEN 400 ELSE 500
  BY DEF Status, Broken
<1> QED BY <1>1, <1>2 DEF Outcome, Broken

\* One answer is appended, and those before it stay.
LEMMA AnswersGrow ==
    ASSUME AnswersInv, NEW e, answers' = Append(answers, e)
    PROVE  /\ Len(answers) \in Nat /\ Len(answers') = Len(answers) + 1
           /\ DOMAIN answers = 1..Len(answers) /\ DOMAIN answers' = 1..Len(answers')
           /\ \A k \in 1..Len(answers) : answers'[k] = answers[k]
           /\ answers'[Len(answers) + 1] = e
           /\ SubSeq(answers', 1, Len(answers)) = answers
           /\ \E S : answers' \in Seq(S)
<1>1. PICK S : answers \in Seq(S)
  BY DEF AnswersInv
<1>2. answers \in Seq(S \cup {e})
  BY <1>1
<1>3. /\ answers' \in Seq(S \cup {e}) /\ Len(answers') = Len(answers) + 1
      /\ \A k \in 1..Len(answers) : answers'[k] = answers[k]
      /\ answers'[Len(answers) + 1] = e
      /\ Len(answers) \in Nat
      /\ DOMAIN answers = 1..Len(answers) /\ DOMAIN answers' = 1..Len(answers')
  BY <1>2, AppendProperties, LenProperties
<1> DEFINE n == Len(answers)
           u == SubSeq(answers', 1, n)
<1>4. \A k \in 1..n : answers'[k] \in S \cup {e}
  BY <1>2, <1>3, LenProperties
<1>5. u \in Seq(S \cup {e}) /\ Len(u) = n /\ \A k \in 1..n : u[k] = answers'[k]
  BY <1>3, <1>4, SubSeqProperties
<1>6. u = answers
  <2> HIDE DEF u
  <2> QED BY <1>2, <1>3, <1>5, SeqEqual
<1> QED BY <1>3, <1>6

LEMMA AppendStep ==
    ASSUME AnswersInv, NEW e, answers' = Append(answers, e), e.code \in Reasons, e.to \in Requests
    PROVE  AnswersInv'
<1> DEFINE n == Len(answers)
<1>1. /\ n \in Nat /\ DOMAIN answers' = 1..(n + 1) /\ DOMAIN answers = 1..n
      /\ \A k \in 1..n : answers'[k] = answers[k]
      /\ answers'[n + 1] = e
      /\ \E S : answers' \in Seq(S)
  BY AnswersGrow
<1>2. \A k \in 1..n : answers[k].code \in Reasons /\ answers[k].to \in Requests
  BY <1>1 DEF AnswersInv
<1> HIDE DEF n
<1>3. ASSUME NEW k \in 1..(n + 1) PROVE answers'[k].code \in Reasons /\ answers'[k].to \in Requests
  <2>1. CASE k = n + 1
    BY <1>1, <2>1
  <2>2. CASE k # n + 1
    <3>1. k \in 1..n
      BY <1>1, <2>2
    <3> QED BY <1>1, <1>2, <3>1
  <2> QED BY <2>1, <2>2
<1>4. \A k \in DOMAIN answers' : answers'[k].code \in Reasons /\ answers'[k].to \in Requests'
  BY <1>1, <1>3 DEF Requests
<1> QED BY <1>1, <1>4 DEF AnswersInv

(***************************************************************************)
(* The stream                                                              *)
(***************************************************************************)

Request(i) == HeaderBytes(i) \o BodyBytes(i)
Size(i) == HeaderLength + requests[i].length

\* What the client sends before its i-th request.
Before(i) == SumTo([j \in Requests |-> Size(j)], i - 1)

\* A function on 1..n is a sequence of length n.
LEMMA SequenceOf ==
    ASSUME NEW n \in Nat, NEW S, NEW s, NEW f, s = [p \in 1..n |-> f[p]],
           \A p \in 1..n : f[p] \in S
    PROVE  s \in Seq(S) /\ Len(s) = n /\ \A p \in 1..n : s[p] = f[p]
<1>1. s \in [1..n -> S] /\ DOMAIN s = 1..n /\ \A p \in 1..n : s[p] = f[p]
  OBVIOUS
<1>2. s \in Seq(S)
  BY <1>1
<1> QED BY <1>1, <1>2, LenProperties

\* A sequence of n bytes of request i, from place a on.
AreBytes(s, i, a, n) == /\ s \in Seq(Byte) /\ Len(s) = n
                        /\ \A p \in 1..n : s[p] = [msg |-> i, pos |-> a + p]

LEMMA BytesProperties ==
    ASSUME NEW i \in Requests, NEW a \in Nat, NEW n \in Nat
    PROVE  AreBytes(Bytes(i, a + 1, a + n), i, a, n)
<1> DEFINE f == [p \in 1..n |-> [msg |-> i, pos |-> a + p]]
           s == Bytes(i, a + 1, a + n)
<1>1. (a + n) - (a + 1) + 1 = n /\ \A p \in 1..n : (a + 1) + p - 1 = a + p
  OBVIOUS
<1>2. \A p \in 1..n : f[p] \in Byte /\ f[p] = [msg |-> i, pos |-> a + p]
  BY DEF Byte
<1>3. s = f
  BY <1>1 DEF Bytes
<1>4. f = [p \in 1..n |-> f[p]]
  OBVIOUS
<1> HIDE DEF f, s
<1>5. s \in Seq(Byte) /\ Len(s) = n /\ \A p \in 1..n : s[p] = f[p]
  BY <1>2, <1>3, <1>4, SequenceOf
<1>6. AreBytes(s, i, a, n)
  BY <1>2, <1>5 DEF AreBytes
<1> QED BY <1>6 DEF s

LEMMA RequestProperties ==
    ASSUME RequestsInv, NEW i \in Requests
    PROVE  AreBytes(Request(i), i, 0, Size(i)) /\ Size(i) \in Nat
<1> DEFINE l == requests[i].length
           h == HeaderLength
           x == HeaderBytes(i)
           y == BodyBytes(i)
<1>1. l \in Nat /\ h \in Nat
  BY HttpAssumption DEF RequestsInv, HttpAssumption
<1>2. x = Bytes(i, 0 + 1, 0 + h) /\ y = Bytes(i, h + 1, h + l)
  BY <1>1 DEF HeaderBytes, BodyBytes
<1> HIDE DEF x, y, l, h
<1>3. AreBytes(x, i, 0, h) /\ AreBytes(y, i, h, l)
  <2>1. AreBytes(Bytes(i, 0 + 1, 0 + h), i, 0, h) /\ AreBytes(Bytes(i, h + 1, h + l), i, h, l)
    BY <1>1, BytesProperties
  <2> QED BY <1>2, <2>1, Zenon
<1>4. x \in Seq(Byte) /\ y \in Seq(Byte) /\ Len(x) = h /\ Len(y) = l
  BY <1>3 DEF AreBytes
<1>5. /\ x \o y \in Seq(Byte) /\ Len(x \o y) = h + l
      /\ \A p \in 1..h : (x \o y)[p] = x[p]
      /\ \A p \in 1..l : (x \o y)[h + p] = y[p]
  BY <1>1, <1>4
<1>6. ASSUME NEW p \in 1..(h + l) PROVE (x \o y)[p] = [msg |-> i, pos |-> 0 + p]
  <2>1. CASE p <= h
    <3>1. p \in 1..h
      BY <1>1, <2>1
    <3> QED BY <1>3, <1>5, <3>1 DEF AreBytes
  <2>2. CASE ~(p <= h)
    <3> DEFINE k == p - h
    <3>1. k \in 1..l /\ h + k = p /\ 0 + p = p
      BY <1>1, <2>2
    <3> HIDE DEF k
    <3>2. y[k] = [msg |-> i, pos |-> h + k] /\ (x \o y)[h + k] = y[k]
      BY <1>3, <1>5, <3>1 DEF AreBytes
    <3> QED BY <3>1, <3>2
  <2> QED BY <2>1, <2>2
<1> QED BY <1>1, <1>5, <1>6 DEF Request, Size, x, y, h, l, AreBytes

LEMMA BeforeGrows ==
    ASSUME RequestsInv, NEW i \in 1..(N + 1), NEW j \in 1..(N + 1)
    PROVE  Before(i) \in Nat /\ (i <= j => Before(i) <= Before(j))
<1> DEFINE g == [k \in Requests |-> Size(k)]
<1>1. N \in Nat /\ \A k \in 1..N : g[k] \in Nat
  BY Constants, RequestProperties DEF Requests
<1>2. Before(i) = SumTo(g, i - 1) /\ Before(j) = SumTo(g, j - 1)
  BY DEF Before
<1> HIDE DEF g
<1>3. SumTo(g, i - 1) \in Nat
  <2>1. i - 1 \in 0..N
    BY <1>1
  <2> QED BY <1>1, <2>1, SumNat
<1>4. ASSUME i <= j PROVE SumTo(g, i - 1) <= SumTo(g, j - 1)
  <2>1. j - 1 \in 0..N /\ i - 1 \in 0..(j - 1)
    BY <1>1, <1>4
  <2> QED BY <1>1, <2>1, SumGrows
<1> QED BY <1>2, <1>3, <1>4

\* The stream has the bytes of the requests, each at its place.
LEMMA StreamProperties ==
    ASSUME RequestsInv
    PROVE  /\ Stream \in Seq(Byte) /\ Len(Stream) = Before(N + 1)
           /\ Before(1) = 0
           /\ \A i \in Requests : Before(i + 1) = Before(i) + Size(i) /\ Size(i) \in Nat
           /\ \A q \in 1..Len(Stream) : \E i \in Requests : \E p \in 1..Size(i) :
                 q = Before(i) + p /\ Stream[q] = [msg |-> i, pos |-> p]
<1> DEFINE f == [i \in Requests |-> Request(i)]
           g == [j \in Requests |-> Size(j)]
<1>1. N \in Nat /\ Requests = 1..N
  BY Constants DEF Requests
<1>2. \A i \in 1..N : /\ f[i] \in Seq(Byte) /\ g[i] = Len(f[i])
                      /\ g[i] = Size(i) /\ f[i] = Request(i) /\ g[i] \in Nat
  BY <1>1, RequestProperties DEF AreBytes
<1>3. Stream = JoinTo(f, N) /\ \A i \in Nat : Before(i) = SumTo(g, i - 1)
  BY DEF Stream, Before, Request
<1> HIDE DEF f, g
<1>4. Stream \in Seq(Byte)
  BY <1>1, <1>2, <1>3, JoinToIsJoin
<1>5. Len(JoinTo(f, N)) = SumTo(g, N) /\ ElementsFrom(f, g, N, JoinTo(f, N))
  BY <1>1, <1>2, JoinPlaces
<1>6. Len(Stream) = Before(N + 1)
  BY <1>1, <1>3, <1>5
<1>7. Before(1) = 0
  BY <1>3, SumZero
<1>8. ASSUME NEW i \in Requests PROVE Before(i + 1) = Before(i) + Size(i) /\ Size(i) \in Nat
  <2> DEFINE k == i - 1
  <2>1. k \in Nat /\ k + 1 = i /\ (i + 1) - 1 = k + 1 /\ \A j \in 1..(k + 1) : g[j] \in Nat
    BY <1>1, <1>2
  <2>2. SumTo(g, k + 1) = SumTo(g, k) + g[k + 1]
    BY <2>1, SumEquations
  <2> QED BY <1>1, <1>2, <1>3, <2>1, <2>2
<1>9. ASSUME NEW q \in 1..Len(Stream)
       PROVE  \E i \in Requests : \E p \in 1..Size(i) :
                 q = Before(i) + p /\ Stream[q] = [msg |-> i, pos |-> p]
  <2>1. PICK i \in 1..N : \E p \in 1..Len(f[i]) :
           q = SumTo(g, i - 1) + p /\ JoinTo(f, N)[q] = f[i][p]
    BY <1>3, <1>5 DEF ElementsFrom
  <2>2. PICK p \in 1..Len(f[i]) : q = SumTo(g, i - 1) + p /\ Stream[q] = f[i][p]
    BY <1>3, <2>1
  <2>3. p \in 1..Size(i) /\ f[i] = Request(i) /\ i \in Requests /\ i \in Nat
    BY <1>1, <1>2, <2>2
  <2>4. Stream[q] = [msg |-> i, pos |-> p]
    BY <2>2, <2>3, RequestProperties DEF AreBytes
  <2>5. q = Before(i) + p
    BY <1>3, <2>2, <2>3
  <2> QED BY <2>3, <2>4, <2>5, Zenon
<1> QED BY <1>4, <1>6, <1>7, <1>8, <1>9

\* A byte is of request k exactly between the end of those before and its own.
LEMMA StreamAt ==
    ASSUME RequestsInv, NEW k \in Requests, NEW q \in 1..Len(Stream)
    PROVE  /\ Stream[q].msg <= k => q <= Before(k + 1)
           /\ Before(k) < q /\ q <= Before(k + 1) => Stream[q] = [msg |-> k, pos |-> q - Before(k)]
<1>1. PICK i \in Requests : \E p \in 1..Size(i) :
         q = Before(i) + p /\ Stream[q] = [msg |-> i, pos |-> p]
  BY StreamProperties
<1>2. PICK p \in 1..Size(i) : q = Before(i) + p /\ Stream[q] = [msg |-> i, pos |-> p]
  BY <1>1
<1>3. /\ N \in Nat /\ i \in 1..N /\ k \in 1..N
      /\ i + 1 \in 1..(N + 1) /\ k + 1 \in 1..(N + 1) /\ i \in 1..(N + 1) /\ k \in 1..(N + 1)
  BY Constants DEF Requests
<1>4. /\ Before(i) \in Nat /\ Before(k) \in Nat /\ Before(k + 1) \in Nat
      /\ Before(i + 1) = Before(i) + Size(i) /\ Size(i) \in Nat
      /\ i + 1 <= k + 1 => Before(i + 1) <= Before(k + 1)
      /\ i + 1 <= k => Before(i + 1) <= Before(k)
      /\ k + 1 <= i => Before(k + 1) <= Before(i)
  <2>1. Before(i + 1) = Before(i) + Size(i) /\ Size(i) \in Nat
    BY StreamProperties
  <2>2. /\ Before(i) \in Nat /\ Before(k) \in Nat /\ Before(k + 1) \in Nat
        /\ i + 1 <= k + 1 => Before(i + 1) <= Before(k + 1)
        /\ i + 1 <= k => Before(i + 1) <= Before(k)
        /\ k + 1 <= i => Before(k + 1) <= Before(i)
    BY <1>3, BeforeGrows
  <2> QED BY <2>1, <2>2
<1>5. q <= Before(i + 1) /\ Before(i) < q /\ Stream[q].msg = i
  BY <1>2, <1>4
<1>6. Stream[q].msg <= k => q <= Before(k + 1)
  BY <1>3, <1>4, <1>5
<1>7. ASSUME Before(k) < q, q <= Before(k + 1) PROVE Stream[q] = [msg |-> k, pos |-> q - Before(k)]
  <2>1. i = k
    BY <1>3, <1>4, <1>5, <1>7
  <2>2. p = q - Before(k)
    BY <1>2, <1>4, <2>1
  <2> QED BY <1>2, <2>1, <2>2
<1> QED BY <1>6, <1>7

(***************************************************************************)
(* Every step keeps the invariant                                          *)
(***************************************************************************)

LEMMA ReceiveStep ==
    ASSUME IInv, NEW n \in 1..Len(outgoing), Receive(n)
    PROVE  IInv'
<1> USE DEF Receive
<1>1. outgoing \in Seq(Byte) /\ in_buf \in Seq(Byte) /\ Len(outgoing) \in Nat /\ n \in Nat
  BY DEF IInv, DataInv, RequestsInv
<1>2. SubSeq(outgoing, 1, n) \in Seq(Byte)
  <2>1. \A i \in 1..n : outgoing[i] \in Byte
    BY <1>1, LenProperties
  <2> QED BY <1>1, <2>1, SubSeqProperties
<1>3. in_buf' \in Seq(Byte) /\ received' = in_buf' /\ consumed' = 0
  BY <1>1, <1>2, ConcatProperties
<1>4. outgoing' \in Seq(Byte)
  BY <1>1, FromSeq
<1>5. DataInv'
  BY <1>3, <1>4 DEF IInv, DataInv, RequestsInv
<1>6. ViewInv'
  BY <1>3, LenProperties DEF ViewInv
<1>7. ControlInv'
  BY DEF IInv, ControlInv
<1>8. CatchInv'
  BY DEF CatchInv
<1> QED BY <1>5, <1>6, <1>7, <1>8 DEF IInv, AnswersInv, Requests

\* Nothing is consumed, and the loop is left or an error thrown.
LEMMA QuietStep ==
    ASSUME IInv, NoHeader \/ ParseFails \/ ContentMissing \/ UNCHANGED vars
    PROVE  IInv'
<1> USE DEF NoHeader, ContentMissing, Leave, connVars
<1>0. CASE ParseFails
  <2>1. /\ UNCHANGED <<requests, outgoing, in_buf, received, header, consumed, answers,
                       protocol, protocol_change, pipelined>>
        /\ pc = "loop" /\ pc' = "catch" /\ header = 0 /\ HeaderEnd # 0 /\ error' \in {400, 500}
    <3>1. error' \in {400, 500} /\ pc' = "catch"
      BY <1>0, BrokenOutcome DEF ParseFails, Throw
    <3> QED BY <1>0, <3>1 DEF ParseFails
  <2>2. HeaderEnd' = HeaderEnd
    BY <2>1, SameEnd
  <2>3. DataInv' /\ AnswersInv' /\ ControlInv' /\ CatchInv'
    BY <2>1, <2>2 DEF IInv, DataInv, RequestsInv, AnswersInv, ControlInv, CatchInv, Requests
  <2>4. ViewInv'
    BY <2>1 DEF IInv, ViewInv
  <2> QED BY <2>3, <2>4 DEF IInv
<1>1. CASE NoHeader \/ ContentMissing \/ UNCHANGED vars
  <2>1. /\ UNCHANGED <<requests, outgoing, in_buf, received, header, consumed, answers, error,
                       protocol, protocol_change, pipelined>>
        /\ pc' \in {pc, "return"}
    BY <1>1 DEF vars
  <2>2. HeaderEnd' = HeaderEnd
    BY <2>1, SameEnd
  <2>3. DataInv' /\ AnswersInv' /\ ControlInv' /\ CatchInv'
    BY <2>1, <2>2 DEF IInv, DataInv, RequestsInv, AnswersInv, ControlInv, CatchInv, Requests
  <2>4. ViewInv'
    BY <2>1 DEF IInv, ViewInv
  <2> QED BY <2>3, <2>4 DEF IInv
<1> QED BY <1>0, <1>1

\* Whose header it was that is refused.
Whose == IF header # 0 THEN header ELSE received[HeaderEnd].msg

LEMMA WhoseIsOne == ASSUME IInv, pc = "catch" PROVE Whose \in Requests
<1>1. header # 0 => header \in Requests
  BY Constants DEF IInv, DataInv, Requests
<1>2. header = 0 => received[HeaderEnd].msg \in Requests
  <2> SUFFICES ASSUME header = 0 PROVE received[HeaderEnd].msg \in Requests
    OBVIOUS
  <2>1. received \in Seq(Byte) /\ HeaderEnd # 0
    BY DEF IInv, DataInv, CatchInv
  <2>2. HeaderEnd \in 1..Len(received)
    BY <2>1, HeaderEndInView, LenProperties
  <2>3. received[HeaderEnd] \in Byte
    BY <2>1, <2>2, LenProperties
  <2> QED BY <2>3 DEF Byte
<1> QED BY <1>1, <1>2 DEF Whose

\* What Catch does.
LEMMA CatchEffects ==
    ASSUME Catch
    PROVE  /\ UNCHANGED <<requests, outgoing, in_buf, received, header, consumed,
                          pipelined, protocol>>
           /\ pc = "catch" /\ error' = 0
           /\ protocol_change' = IF error >= 500 THEN "none" ELSE protocol_change
           /\ pc' = IF error >= 500 THEN "return" ELSE "loop"
           /\ IF Len(answers) < MaxAnswers
              THEN answers' = Append(answers, [code |-> error, to |-> Whose, body |-> <<>>,
                                               opened |-> FALSE])
              ELSE answers' = answers
BY DEF Catch, Refuse, Answer, Whose, connVars

\* An error is caught and answered.
LEMMA CatchStep ==
    ASSUME IInv, Catch
    PROVE  IInv'
<1>1. DataInv'
  BY CatchEffects DEF IInv, DataInv, RequestsInv, Requests
<1>2. ControlInv'
  BY CatchEffects DEF IInv, ControlInv
<1>3. ViewInv'
  BY CatchEffects DEF IInv, ViewInv, ControlInv
<1>4. CatchInv'
  BY CatchEffects DEF CatchInv
<1>5. AnswersInv'
  <2> DEFINE e == [code |-> error, to |-> Whose, body |-> <<>>, opened |-> FALSE]
  <2>1. error \in Reasons
    BY CatchEffects DEF IInv, ControlInv, CatchInv, Reasons
  <2>2. Whose \in Requests
    BY CatchEffects, WhoseIsOne
  <2>3. e.code \in Reasons /\ e.to \in Requests
    BY <2>1, <2>2
  <2>4. answers' = Append(answers, e) \/ answers' = answers
    BY CatchEffects
  <2> HIDE DEF e
  <2>5. CASE answers' = Append(answers, e)
    BY <2>3, <2>5, AppendStep DEF IInv
  <2>6. CASE answers' = answers
    BY <2>6 DEF IInv, AnswersInv, Requests
  <2> QED BY <2>4, <2>5, <2>6
<1> QED BY <1>1, <1>2, <1>3, <1>4, <1>5 DEF IInv

LEMMA HeaderStep ==
    ASSUME IInv, ParseHeader
    PROVE  IInv'
<1> USE DEF ParseHeader, Throw, Count, connVars
<1>1. /\ received \in Seq(Byte) /\ Len(received) \in Nat /\ Len(in_buf) \in Nat
      /\ consumed \in Nat /\ consumed + Len(received) <= Len(in_buf)
  BY DEF IInv, DataInv, RequestsInv, ViewInv
<1>2. HeaderEnd \in 1..Len(received)
  BY <1>1, HeaderEndInView
<1>3. received[HeaderEnd].msg \in Requests
  <2>1. received[HeaderEnd] \in Byte
    BY <1>1, <1>2, LenProperties
  <2> QED BY <2>1 DEF Byte
<1>4. header' \in 0..N
  BY <1>3, Constants DEF Requests
<1>5. consumed' \in Nat /\ consumed' = consumed + HeaderEnd
  BY <1>1, <1>2
<1>6. /\ received' \in Seq(Byte)
      /\ consumed' <= Len(received) => Len(received') = Len(received) - consumed'
  <2>1. CASE consumed' > Len(received)
    BY <1>1, <1>5, <2>1
  <2>2. CASE ~(consumed' > Len(received))
    <3>1. received' = From(received, consumed')
      BY <2>2
    <3> QED BY <1>1, <1>5, <3>1, FromSeq
  <2> QED BY <2>1, <2>2
<1>7. DataInv'
  BY <1>4, <1>5, <1>6 DEF IInv, DataInv, RequestsInv
<1>8. ViewInv'
  <2>1. /\ UNCHANGED in_buf
        /\ pc' = "loop" => ~(consumed' > Len(received))
        /\ pc' = "catch" => error' = 500
    OBVIOUS
  <2>2. HeaderEnd \in Nat /\ HeaderEnd <= Len(received)
    BY <1>1, <1>2
  <2> HIDE DEF ParseHeader
  <2> QED BY <1>1, <2>2, <1>5, <1>6, <2>1 DEF ViewInv
<1>9. ControlInv' /\ AnswersInv'
  BY DEF IInv, ControlInv, AnswersInv, Requests
<1>10. CatchInv'
  <2>1. header' # 0 /\ (pc' = "catch" => error' = 500)
    BY <1>3, Constants DEF Requests
  <2> HIDE DEF ParseHeader
  <2> QED BY <2>1 DEF CatchInv
<1> QED BY <1>7, <1>8, <1>9, <1>10 DEF IInv

LEMMA HandleStep ==
    ASSUME IInv, Handle
    PROVE  IInv'
<1> DEFINE length == requests[header].length
           code == Outcome(requests[header].kind)
<1> USE DEF Handle, ContentThere, Count, connVars
<1>1. /\ received \in Seq(Byte) /\ Len(received) \in Nat /\ Len(in_buf) \in Nat
      /\ consumed \in Nat /\ consumed + Len(received) <= Len(in_buf)
  BY DEF IInv, DataInv, RequestsInv, ViewInv
<1>2. length \in Nat /\ length <= Len(received)
  <2>1. header \in Requests
    BY Constants DEF IInv, DataInv, RequestsInv, Requests
  <2>2. requests[header] \in [kind : Kinds, length : Lengths]
    BY <2>1 DEF IInv, DataInv, RequestsInv
  <2>3. length \in Nat
    BY <2>2, Constants
  <2> QED BY <1>1, <2>3
<1>3. /\ received' = From(received, length) /\ consumed' = consumed + length
      /\ pc' \in {"loop", "return", "threw"}
  OBVIOUS
<1>4. /\ received' \in Seq(Byte) /\ Len(received') = Len(received) - length
      /\ consumed' \in Nat
  <2> HIDE DEF Handle, length
  <2>1. /\ From(received, length) \in Seq(Byte)
        /\ Len(From(received, length)) = Len(received) - length
    BY <1>1, <1>2, FromSeq
  <2>2. consumed + length \in Nat
    BY <1>1, <1>2
  <2> QED BY <1>3, <2>1, <2>2
<1>5. DataInv'
  BY <1>4, Constants DEF IInv, DataInv, RequestsInv
<1>6. ViewInv'
  <2>1. UNCHANGED <<in_buf, error>> /\ error' = error
    OBVIOUS
  <2> HIDE DEF Handle, length
  <2> QED BY <1>1, <1>2, <1>3, <1>4, <2>1 DEF ViewInv
<1>7. protocol_change' \in {"unchanged", "websocket", "none"}
  BY Changes
<1>8. ControlInv'
  BY <1>3, <1>7 DEF IInv, ControlInv
<1>9. AnswersInv'
  <2>1. CASE code = 0
    BY <2>1 DEF IInv, AnswersInv, Requests
  <2>2. CASE code # 0
    <3> DEFINE e == [code |-> code, to |-> header, body |-> Body(length),
                     opened |-> requests[header].kind \in HalfOpen]
    <3>1. answers' = Append(answers, e)
      BY <2>2 DEF Answer
    <3>2. e.code \in Reasons /\ e.to \in Requests
      BY <2>2, Outcomes, Constants DEF IInv, DataInv, Requests
    <3> HIDE DEF e, Handle
    <3> QED BY <3>1, <3>2, AppendStep DEF IInv
  <2> QED BY <2>1, <2>2
<1>10. CatchInv'
  BY <1>3 DEF CatchInv
<1> QED BY <1>5, <1>6, <1>8, <1>9, <1>10 DEF IInv

LEMMA ReturnStep ==
    ASSUME IInv, Return
    PROVE  IInv'
<1> USE DEF Return
<1>1. in_buf' \in Seq(Byte) /\ received' \in Seq(Byte) /\ consumed' = 0
  BY FromSeq DEF IInv, DataInv, RequestsInv
<1>2. DataInv' /\ AnswersInv' /\ CatchInv'
  BY <1>1 DEF IInv, DataInv, RequestsInv, AnswersInv, Requests, CatchInv
<1>3. ControlInv'
  BY DEF IInv, ControlInv
<1>4. ViewInv'
  BY <1>1, LenProperties DEF ViewInv
<1> QED BY <1>2, <1>3, <1>4 DEF IInv

LEMMA NextIInv == IInv /\ [Next]_vars => IInv'
BY ReceiveStep, QuietStep, CatchStep, HeaderStep, HandleStep, ReturnStep DEF Next, Round

LEMMA InitIInv == Init => IInv
<1> SUFFICES ASSUME Init PROVE IInv
  OBVIOUS
<1> RequestsInv /\ outgoing \in Seq(Byte)
  BY StreamProperties DEF Init, RequestsInv
<1>1. DataInv /\ ViewInv
  BY Constants DEF Init, DataInv, RequestsInv, ViewInv
<1>2. ControlInv
  BY DEF Init, ControlInv
<1>3. AnswersInv /\ CatchInv
  BY DEF Init, AnswersInv, CatchInv
<1> QED BY <1>1, <1>2, <1>3 DEF IInv

\* What onDataReceived reports as consumed is in the buffer from which operator()
\* erases it, for any requests in any segmentation: also where the view is moved
\* by the count of the whole call, and also when it throws.
THEOREM ConsumedIsThere == Spec => []ConsumedFits
<1>1. IInv => ConsumedFits
  BY DEF IInv, ViewInv, ConsumedFits
<1> QED BY <1>1, InitIInv, NextIInv, PTL DEF Spec

\* Every variable keeps its type; every answer has a status that can be written.
THEOREM TypeCorrect == Spec => []TypeOK
<1>1. ASSUME IInv PROVE TypeOK
  <2>1. \A s \in Seq(Byte) : ToSet(s) \subseteq Byte
    BY LenProperties DEF ToSet
  <2> QED BY <1>1, <2>1 DEF IInv, DataInv, RequestsInv, ControlInv, AnswersInv, TypeOK
<1> QED BY <1>1, InitIInv, NextIInv, PTL DEF Spec

(***************************************************************************)
(* A client that awaits each answer                                        *)
(***************************************************************************)

\* The request that is not answered yet, or is refused again and again; how much
\* of it was consumed before what is unread, and what is unread.
Current == IF Refusing THEN answers[Len(answers)].to ELSE Len(answers) + 1
Progress == IF header = 0 THEN 0 ELSE HeaderLength
Unread == From(in_buf, consumed)

\* What is not sent yet is the end of the stream.
OutInv == /\ Len(outgoing) <= Len(Stream)
          /\ \A j \in 1..Len(outgoing) :
                outgoing[j] = Stream[(Len(Stream) - Len(outgoing)) + j]

\* Everything unread is of the current request, and follows what was consumed.
PlaceInv ==
    /\ header \in {0, Current} /\ Current <= N + 1
    /\ AreBytes(Unread, Current, Progress, Len(Unread))
    /\ Before(Current) + Progress + Len(Unread) + Len(outgoing) = Len(Stream)
    /\ Current <= N => Progress + Len(Unread) <= Size(Current)

\* In the loop the view is what is unread; a header is looked for where nothing
\* was consumed, or nothing is left.
LoopInv == /\ received = Unread
           /\ header = 0 => consumed = 0 \/ Len(Unread) = 0

\* The loop is not left while there is something to be done.
RestInv == IF header = 0 THEN Len(Unread) < HeaderLength
           ELSE HeaderLength + Len(Unread) < Size(Current)

Looping == pc \in {"loop", "catch"}
Settled == \/ pc = "idle"
           \/ pc = "return" /\ protocol_change = "unchanged"

CallInv == ~pipelined /\ protocol = "http" =>
              /\ Looping \/ Settled => PlaceInv
              /\ Looping => LoopInv
              /\ Settled => RestInv

IdleInv == /\ pc = "idle" => consumed = 0
           /\ pc # "idle" => protocol = "http"

StepInv == OutInv /\ CallInv /\ IdleInv /\ AnswersInStep

\* A client that waits can be refused only for what is no header, and is there.
RefusalInv ==
    ~pipelined /\ pc = "catch" =>
       /\ Current \in Requests /\ requests[Current].kind \in Broken
       /\ error = Outcome(requests[Current].kind)
       /\ header = 0 /\ received[HeaderEnd].msg = Current
       /\ Before(Current) + HeaderLength + Len(outgoing) <= Len(Stream)

\* Once it was refused for an error of its own it is in the loop for ever, with the
\* same header at the begin of the view.
RefusedInv ==
    ~pipelined /\ Refusing =>
       /\ Looping /\ header = 0 /\ HeaderEnd # 0
       /\ answers[Len(answers)] = [code |-> 400, to |-> Current, body |-> <<>>, opened |-> FALSE]

TellInv == /\ header # 0 => requests[header].kind \notin Broken
           /\ RefusalInv /\ RefusedInv

LEMMA SameRequests ==
    ASSUME UNCHANGED requests
    PROVE  /\ Stream' = Stream
           /\ \A i \in Nat : /\ Before(i)' = Before(i) /\ Size(i)' = Size(i)
                             /\ BodyBytes(i)' = BodyBytes(i)
BY DEF Stream, Before, Size, BodyBytes, HeaderBytes, Bytes

LEMMA SameOut ==
    ASSUME OutInv, UNCHANGED <<requests, outgoing>>
    PROVE  OutInv'
BY SameRequests DEF OutInv

\* The k-th answer is what AnswersInStep says.
IsDue(k) == IF k > 1 /\ requests[answers[k - 1].to].kind = "malformed"
            THEN answers[k] = answers[k - 1]
            ELSE answers[k] = Due(k)

LEMMA SameDue == ASSUME UNCHANGED requests PROVE \A k \in Nat : Due(k)' = Due(k)
BY SameRequests DEF Due

LEMMA SameAnswers ==
    ASSUME IInv, AnswersInStep, UNCHANGED <<requests, answers>>, pipelined => pipelined'
    PROVE  AnswersInStep'
<1>1. \A k \in DOMAIN answers : Due(k)' = Due(k)
  BY SameDue, LenProperties DEF IInv, AnswersInv
<1> QED BY <1>1 DEF AnswersInStep

LEMMA CurrentType == IInv => Current \in Nat \ {0} /\ HeaderLength \in Nat \ {0} /\ Len(Unread) \in Nat
<1> SUFFICES ASSUME IInv PROVE Current \in Nat \ {0} /\ HeaderLength \in Nat \ {0} /\ Len(Unread) \in Nat
  OBVIOUS
<1>1. Current \in Nat \ {0}
  <2>1. PICK S : answers \in Seq(S)
    BY DEF IInv, AnswersInv
  <2>2. Len(answers) \in Nat /\ (answers # <<>> => Len(answers) \in DOMAIN answers)
    BY <2>1, EmptySeq, LenProperties
  <2>3. Refusing => answers[Len(answers)].to \in Nat \ {0}
    BY <2>2, Constants DEF Refusing, IInv, AnswersInv, Requests
  <2> QED BY <2>2, <2>3 DEF Current
<1>2. Unread \in Seq(Byte)
  BY FromSeq DEF IInv, DataInv, Unread
<1> QED BY <1>1, <1>2, LenProperties, HttpAssumption DEF HttpAssumption

LEMMA SameCurrent == ASSUME UNCHANGED <<requests, answers>> PROVE UNCHANGED <<Current, Refusing>>
BY DEF Current, Refusing

LEMMA Malformed == Refusing => requests[Current].kind = "malformed"
BY DEF Refusing, Current

\* The request whose turn it is gets its answer.
LEMMA AnswerDue ==
    ASSUME IInv, AnswersInStep, UNCHANGED <<requests, pipelined>>, ~pipelined, ~Refusing,
           answers' = Append(answers, Due(Current))
    PROVE  /\ AnswersInStep'
           /\ Refusing' <=> requests[Current].kind = "malformed"
           /\ Current' = IF requests[Current].kind = "malformed" THEN Current ELSE Current + 1
           /\ answers'[Len(answers')] = Due(Current)
<1> DEFINE n == Len(answers)
           e == Due(Current)
<1>1. /\ n \in Nat /\ Len(answers') = n + 1
      /\ DOMAIN answers = 1..n /\ DOMAIN answers' = 1..(n + 1)
      /\ \A k \in 1..n : answers'[k] = answers[k]
      /\ answers'[n + 1] = e
  <2>1. answers' = Append(answers, e)
    OBVIOUS
  <2> HIDE DEF e
  <2> QED BY <2>1, AnswersGrow DEF IInv
<1>2. Current = n + 1 /\ e.to = n + 1 /\ e = Due(n + 1)
  BY DEF Current, Due
<1>3. n > 0 => requests[answers[n].to].kind # "malformed"
  <2> SUFFICES ASSUME n > 0 PROVE answers # <<>>
    BY DEF Refusing
  <2> QED BY <1>1
<1>4. \A k \in 1..n : IsDue(k)
  BY <1>1 DEF AnswersInStep, IsDue
<1>5. \A k \in Nat : Due(k)' = Due(k)
  BY SameDue
<1>6. answers' # <<>>
  BY <1>1
<1> HIDE DEF n, e
<1>7. ASSUME NEW k \in 1..(n + 1) PROVE IsDue(k)'
  <2>1. k \in Nat /\ (k > 1 => k - 1 \in 1..n) /\ Due(k)' = Due(k)
    BY <1>1, <1>5
  <2>2. CASE k \in 1..n
    BY <1>1, <1>4, <2>1, <2>2 DEF IsDue
  <2>3. CASE k = n + 1
    <3>1. k - 1 = n /\ (k > 1 => n > 0)
      BY <1>1, <2>3
    <3>2. k > 1 => answers'[k - 1] = answers[n]
      BY <1>1, <2>1, <3>1
    <3> QED BY <1>1, <1>2, <1>3, <2>1, <2>3, <3>1, <3>2 DEF IsDue
  <2> QED BY <1>1, <2>2, <2>3
<1>8. AnswersInStep'
  BY <1>1, <1>7 DEF AnswersInStep, IsDue
<1>9. Refusing' <=> requests[n + 1].kind = "malformed"
  BY <1>1, <1>2, <1>6 DEF Refusing
<1>10. Current' = IF requests[n + 1].kind = "malformed" THEN n + 1 ELSE (n + 1) + 1
  BY <1>1, <1>2, <1>9 DEF Current
<1>11. answers'[Len(answers')] = e
  BY <1>1
<1> QED BY <1>2, <1>8, <1>9, <1>10, <1>11 DEF e

\* The last answer is given again.
LEMMA AnswerAgain ==
    ASSUME IInv, AnswersInStep, UNCHANGED <<requests, pipelined>>, ~pipelined, Refusing,
           answers' = Append(answers, answers[Len(answers)])
    PROVE  /\ AnswersInStep'
           /\ Refusing' /\ Current' = Current
           /\ answers'[Len(answers')] = answers[Len(answers)]
<1> DEFINE n == Len(answers)
           e == answers[Len(answers)]
<1>1. /\ n \in Nat /\ Len(answers') = n + 1
      /\ DOMAIN answers = 1..n /\ DOMAIN answers' = 1..(n + 1)
      /\ \A k \in 1..n : answers'[k] = answers[k]
      /\ answers'[n + 1] = e
  <2>1. answers' = Append(answers, e)
    OBVIOUS
  <2> HIDE DEF e
  <2> QED BY <2>1, AnswersGrow DEF IInv
<1>2. n > 0
  <2>1. answers # <<>>
    BY DEF Refusing
  <2>2. PICK S : answers \in Seq(S)
    BY DEF IInv, AnswersInv
  <2> QED BY <2>1, <2>2, EmptySeq, <1>1
<1>3. requests[e.to].kind = "malformed" /\ e = answers[n]
  BY DEF Refusing
<1>4. \A k \in 1..n : IsDue(k)
  BY <1>1 DEF AnswersInStep, IsDue
<1>5. \A k \in Nat : Due(k)' = Due(k)
  BY SameDue
<1>6. answers' # <<>>
  BY <1>1
<1>0. Current = e.to
  BY DEF Current
<1> HIDE DEF n, e
<1>7. ASSUME NEW k \in 1..(n + 1) PROVE IsDue(k)'
  <2>1. k \in Nat /\ (k > 1 => k - 1 \in 1..n) /\ Due(k)' = Due(k)
    BY <1>1, <1>5
  <2>2. CASE k \in 1..n
    BY <1>1, <1>4, <2>1, <2>2 DEF IsDue
  <2>3. CASE k = n + 1
    <3>1. k - 1 = n /\ k > 1
      BY <1>1, <1>2, <2>3
    <3>2. answers'[k - 1] = answers[n]
      BY <1>1, <2>1, <3>1
    <3> QED BY <1>1, <1>3, <2>1, <2>3, <3>1, <3>2 DEF IsDue
  <2> QED BY <1>1, <2>2, <2>3
<1>8. AnswersInStep'
  BY <1>1, <1>7 DEF AnswersInStep, IsDue
<1>9. Refusing'
  BY <1>1, <1>3, <1>6 DEF Refusing
<1>10. Current' = e.to
  BY <1>1, <1>9 DEF Current
<1>11. answers'[Len(answers')] = e
  BY <1>1
<1> QED BY <1>0, <1>8, <1>9, <1>10, <1>11 DEF e

\* Nothing but the place in the program changes.
LEMMA SamePlace ==
    ASSUME IInv, UNCHANGED <<requests, outgoing, in_buf, received, header, consumed, Current>>
    PROVE  /\ PlaceInv => PlaceInv'
           /\ LoopInv => LoopInv'
           /\ RestInv => RestInv'
<1>1. UNCHANGED <<Current, Progress, Unread>>
  BY DEF Progress, Unread, From
<1>2. UNCHANGED <<Before(Current), Size(Current), Stream>>
  BY <1>1, SameRequests, CurrentType
<1>3. PlaceInv => PlaceInv'
  BY <1>1, <1>2 DEF PlaceInv, AreBytes
<1> QED BY <1>1, <1>2, <1>3 DEF LoopInv, RestInv

\* Where the header ends in a view that begins with one.
LEMMA HeaderEnds ==
    ASSUME IInv, NEW i, AreBytes(received, i, 0, Len(received))
    PROVE  HeaderEnd = IF HeaderLength <= Len(received) THEN HeaderLength ELSE 0
<1>1. received \in Seq(Byte) /\ Len(received) \in Nat /\ HeaderLength \in Nat \ {0}
  BY CurrentType, LenProperties DEF IInv, DataInv
<1>2. ASSUME NEW p \in 1..Len(received) PROVE received[p].pos = p
  <2>1. received[p] = [msg |-> i, pos |-> 0 + p] /\ 0 + p = p
    BY <1>1 DEF AreBytes
  <2> QED BY <2>1
<1>3. /\ HeaderEnd \in 0..Len(received)
      /\ HeaderEnd # 0 => received[HeaderEnd].pos = HeaderLength
      /\ HeaderEnd = 0 => \A p \in 1..Len(received) : received[p].pos # HeaderLength
  BY <1>1, HeaderEndInView
<1> HIDE DEF HeaderEnd
<1>4. CASE HeaderEnd = 0
  <2>1. ~(HeaderLength \in 1..Len(received))
    BY <1>2, <1>3, <1>4
  <2> QED BY <1>1, <1>4, <2>1
<1>5. CASE HeaderEnd # 0
  BY <1>1, <1>2, <1>3, <1>5
<1> QED BY <1>4, <1>5

\* The loop is left, or an error thrown, without a byte consumed.
LEMMA QuietPlace ==
    ASSUME IInv, StepInv,
           NoHeader \/ ParseFails \/ ContentMissing \/ UNCHANGED vars
    PROVE  StepInv'
<1> USE DEF NoHeader, ContentMissing, Leave, connVars
<1>0. ASSUME ParseFails
      PROVE  /\ UNCHANGED <<requests, outgoing, in_buf, received, header, consumed, answers,
                            pipelined, protocol>>
             /\ pc = "loop" /\ pc' = "catch"
  <2>1. pc' = "catch"
    BY <1>0 DEF ParseFails, Throw
  <2> QED BY <1>0, <2>1 DEF ParseFails
<1>1. UNCHANGED <<requests, outgoing, in_buf, received, header, consumed, answers,
                  pipelined, protocol>>
  BY <1>0 DEF vars
<1>2. OutInv' /\ AnswersInStep'
  <2>1. UNCHANGED <<requests, outgoing>> /\ UNCHANGED <<requests, answers>>
        /\ (pipelined => pipelined')
    BY <1>1
  <2> QED BY <2>1, SameOut, SameAnswers DEF StepInv
<1>3. /\ PlaceInv => PlaceInv'
      /\ LoopInv => LoopInv'
      /\ RestInv => RestInv'
  <2>1. UNCHANGED Current
    BY <1>1, SameCurrent
  <2> QED BY <1>1, <2>1, SamePlace
<1>4. IdleInv'
  BY <1>0, <1>1 DEF StepInv, IdleInv, vars
<1>5. ASSUME ~pipelined, protocol = "http"
      PROVE  /\ Looping' \/ Settled' => PlaceInv'
             /\ Looping' => LoopInv'
             /\ Settled' => RestInv'
  <2>1. /\ Looping \/ Settled => PlaceInv
        /\ Looping => LoopInv
        /\ Settled => RestInv
    BY <1>5 DEF StepInv, CallInv
  <2>2. CASE UNCHANGED vars
    BY <1>3, <2>1, <2>2 DEF vars, Looping, Settled
  <2>3. CASE NoHeader
    <3>2. Looping /\ ~Looping'
      BY <2>3 DEF Looping
    <3>3. PlaceInv /\ LoopInv
      BY <2>1, <3>2
    <3>4. RestInv
      <4>1. header = 0 /\ HeaderEnd = 0
        BY <2>3
      <4>2. received = Unread /\ AreBytes(received, Current, 0, Len(received))
        BY <3>3, <4>1 DEF PlaceInv, LoopInv, Progress
      <4>3. ~(HeaderLength <= Len(Unread))
        BY <4>1, <4>2, HeaderEnds, CurrentType
      <4> QED BY <4>1, <4>3, CurrentType DEF RestInv
    <3> QED BY <1>3, <3>2, <3>3, <3>4
  <2>4. CASE ContentMissing
    <3>2. Looping /\ ~Looping'
      BY <2>4 DEF Looping
    <3>3. PlaceInv /\ LoopInv
      BY <2>1, <3>2
    <3>4. RestInv
      <4>1. header # 0 /\ ~(Len(received) >= requests[header].length)
        BY <2>4 DEF ContentThere
      <4>2. received = Unread /\ header = Current
        BY <3>3, <4>1 DEF PlaceInv, LoopInv
      <4>3. requests[Current].length \in Nat
        <5>1. requests[header] \in [kind : Kinds, length : Lengths]
          BY <4>1, Constants DEF IInv, DataInv, RequestsInv, Requests
        <5> QED BY <4>2, <5>1, Constants
      <4> HIDE DEF ContentMissing
      <4> QED BY <4>1, <4>2, <4>3, CurrentType DEF RestInv, Size
    <3> QED BY <1>3, <3>2, <3>3, <3>4
  <2>5. CASE ParseFails
    <3>1. Looping /\ ~Settled'
      BY <1>0, <2>5 DEF Looping, Settled
    <3> QED BY <1>3, <2>1, <3>1
  <2> QED BY <2>2, <2>3, <2>4, <2>5
<1>6. CallInv'
  BY <1>1, <1>5 DEF CallInv
<1> QED BY <1>2, <1>4, <1>6 DEF StepInv

\* The elements of two sequences in one.
AreBoth(z, x, y, h, l) == /\ Len(z) = h + l
                          /\ \A p \in 1..h : z[p] = x[p]
                          /\ \A p \in 1..l : z[h + p] = y[p]

LEMMA ConcatPlaces ==
    ASSUME NEW S, NEW x \in Seq(S), NEW y \in Seq(S), NEW h \in Nat, NEW l \in Nat,
           Len(x) = h, Len(y) = l
    PROVE  AreBoth(x \o y, x, y, h, l) /\ x \o y \in Seq(S)
BY DEF AreBoth

\* More of the same request follows what is there.
LEMMA MoreBytes ==
    ASSUME NEW i, NEW a \in Nat, NEW s, NEW l \in Nat, AreBytes(s, i, a, l),
           NEW t \in Seq(Byte), NEW n \in Nat, Len(t) = n,
           \A j \in 1..n : t[j] = [msg |-> i, pos |-> a + (l + j)]
    PROVE  AreBytes(s \o t, i, a, l + n)
<1>1. s \in Seq(Byte) /\ Len(s) = l
  BY DEF AreBytes
<1>2. AreBoth(s \o t, s, t, l, n) /\ s \o t \in Seq(Byte)
  BY <1>1, ConcatPlaces
<1>3. ASSUME NEW p \in 1..(l + n) PROVE (s \o t)[p] = [msg |-> i, pos |-> a + p]
  <2>1. CASE p <= l
    <3>1. p \in 1..l
      BY <2>1
    <3> QED BY <1>2, <3>1 DEF AreBytes, AreBoth
  <2>2. CASE ~(p <= l)
    <3> DEFINE j == p - l
    <3>1. j \in 1..n /\ l + j = p
      BY <2>2
    <3> HIDE DEF j
    <3>2. t[j] = [msg |-> i, pos |-> a + (l + j)] /\ (s \o t)[l + j] = t[j]
      BY <1>2, <3>1 DEF AreBoth
    <3> QED BY <3>1, <3>2
  <2> QED BY <2>1, <2>2
<1> QED BY <1>2, <1>3 DEF AreBytes, AreBoth

LEMMA FromProperties ==
    ASSUME NEW S, NEW s \in Seq(S), NEW n \in 0..Len(s)
    PROVE  /\ From(s, n) \in Seq(S) /\ Len(From(s, n)) = Len(s) - n
           /\ \A j \in 1..(Len(s) - n) : From(s, n)[j] = s[n + j]
<1>1. Len(s) \in Nat /\ n + 1 \in 1..(Len(s) + 1) /\ \A i \in (n + 1)..Len(s) : s[i] \in S
  BY LenProperties
<1> DEFINE a == n + 1
           b == Len(s)
<1>2. /\ SubSeq(s, a, b) \in Seq(S)
      /\ Len(SubSeq(s, a, b)) = IF a <= b THEN b - a + 1 ELSE 0
      /\ \A i \in 1..(b - a + 1) : SubSeq(s, a, b)[i] = s[a + i - 1]
  BY <1>1, SubSeqProperties
<1>3. /\ b - a + 1 = b - n /\ \A i \in 1..(b - n) : a + i - 1 = n + i
      /\ ~(a <= b) => b - n = 0
  BY <1>1
<1> QED BY <1>1, <1>2, <1>3 DEF From

\* Nothing dropped.
LEMMA FromStart ==
    ASSUME NEW s \in Seq(Byte)
    PROVE  From(s, 0) = s
<1>1. Len(s) \in Nat /\ 0 \in 0..Len(s) /\ Len(s) - 0 = Len(s) /\ \A j \in 1..Len(s) : 0 + j = j
  BY LenProperties
<1>2. From(s, 0) \in Seq(Byte) /\ Len(From(s, 0)) = Len(s)
      /\ \A j \in 1..Len(s) : From(s, 0)[j] = s[j]
  BY <1>1, FromProperties
<1> QED BY <1>2, SeqEqual

\* The rest of the bytes of a request.
LEMMA FewerBytes ==
    ASSUME NEW i, NEW a \in Nat, NEW s, NEW l \in Nat, AreBytes(s, i, a, l), NEW n \in 0..l
    PROVE  AreBytes(From(s, n), i, a + n, l - n)
<1>1. /\ From(s, n) \in Seq(Byte) /\ Len(From(s, n)) = l - n
      /\ \A j \in 1..(l - n) : From(s, n)[j] = s[n + j]
  <2>1. s \in Seq(Byte) /\ Len(s) = l
    BY DEF AreBytes
  <2> QED BY <2>1, FromProperties
<1>2. ASSUME NEW j \in 1..(l - n) PROVE From(s, n)[j] = [msg |-> i, pos |-> (a + n) + j]
  <2>1. n + j \in 1..l /\ a + (n + j) = (a + n) + j
    OBVIOUS
  <2>2. s[n + j] = [msg |-> i, pos |-> a + (n + j)]
    BY <2>1 DEF AreBytes
  <2> QED BY <1>1, <2>1, <2>2
<1> QED BY <1>1, <1>2 DEF AreBytes

\* What a receive appends belongs to the current request, as long as the client
\* does not send another one before it has an answer.
LEMMA Arrival ==
    ASSUME IInv, OutInv, PlaceInv, NEW n \in 1..Len(outgoing), ~(outgoing[n].msg > Current)
    PROVE  /\ Current \in Requests
           /\ Progress + (Len(Unread) + n) <= Size(Current)
           /\ \A j \in 1..n : outgoing[j] = [msg |-> Current, pos |-> Progress + (Len(Unread) + j)]
<1> DEFINE k == Current
           l == Len(Unread)
           o == Len(outgoing)
           t == Len(Stream)
           d == t - o
<1>1. /\ RequestsInv /\ N \in Nat /\ k \in Nat \ {0} /\ l \in Nat /\ o \in Nat /\ n \in 1..o
      /\ HeaderLength \in Nat
  BY CurrentType, Constants, LenProperties DEF IInv, DataInv
<1>2. Progress \in Nat
  BY <1>1 DEF Progress
<1> DEFINE b == Before(k)
           p == Progress
<1>3. k <= N + 1 /\ b + p + l + o = t /\ o <= t
  BY DEF PlaceInv, OutInv
<1>4. t = Before(N + 1) /\ t \in Nat
  BY <1>1, StreamProperties, LenProperties
<1>5. k \in 1..(N + 1) /\ N + 1 \in 1..(N + 1)
  BY <1>1, <1>3
<1>6. b \in Nat
  BY <1>1, <1>5, BeforeGrows
<1>7. k # N + 1
  <2>1. k = N + 1 => b = t
    BY <1>4
  <2>2. b # t
    <3> HIDE DEF k, l, o, t, b, p
    <3> QED BY <1>1, <1>2, <1>3, <1>4, <1>6 DEF p
  <2> QED BY <2>1, <2>2
<1>8. k \in Requests
  BY <1>1, <1>5, <1>7 DEF Requests
<1>9. d = b + p + l /\ d \in Nat /\ d + o = t
  <2> HIDE DEF k, l, o, t, b, p
  <2> QED BY <1>1, <1>2, <1>3, <1>4, <1>6 DEF p
<1>10. \A j \in 1..n : d + j \in 1..t /\ outgoing[j] = Stream[d + j]
  <2>1. \A j \in 1..o : outgoing[j] = Stream[d + j]
    BY DEF OutInv
  <2>2. o \in Nat /\ n \in 1..o /\ t \in Nat /\ d \in Nat /\ d + o = t
    BY <1>1, <1>4, <1>9
  <2> HIDE DEF k, l, o, t, b, p, d
  <2>3. ASSUME NEW j \in 1..n PROVE d + j \in 1..t /\ j \in 1..o
    BY <2>2
  <2> QED BY <2>1, <2>3
<1> HIDE DEF k, l, o, t, b, p
<1>11. \E i \in Nat : outgoing[n].msg = i
  <2>1. outgoing[n] \in Byte
    BY <1>1, LenProperties DEF IInv, DataInv, o
  <2> QED BY <2>1, <1>1 DEF Byte, Requests
<1>12. d + n <= Before(k + 1)
  <2>1. n \in 1..n
    BY <1>1
  <2>2. d + n \in 1..t /\ outgoing[n] = Stream[d + n]
    BY <1>10, <2>1
  <2>3. Stream[d + n].msg <= k
    BY <1>1, <1>11, <2>2 DEF k
  <2> HIDE DEF d
  <2> QED BY <1>1, <1>8, <2>2, <2>3, StreamAt DEF t
<1>13. Before(k + 1) = b + Size(k) /\ Size(k) \in Nat /\ p \in Nat /\ Before(k) = b
  BY <1>1, <1>2, <1>8, StreamProperties DEF b, p
<1> HIDE DEF d
<1>14. ASSUME NEW j \in 1..n
       PROVE  outgoing[j] = [msg |-> k, pos |-> Progress + (l + j)]
  <2> DEFINE q == d + j
  <2>1. q \in 1..t /\ outgoing[j] = Stream[q]
    BY <1>10
  <2>2. b < q /\ q <= Before(k + 1)
    BY <1>1, <1>6, <1>9, <1>12, <1>13
  <2>3. q - b = p + (l + j)
    BY <1>1, <1>6, <1>9, <1>13
  <2> HIDE DEF q
  <2>4. Stream[q] = [msg |-> k, pos |-> q - b]
    <3>1. RequestsInv /\ Before(k) < q /\ q \in 1..Len(Stream)
      BY <1>1, <1>13, <2>1, <2>2 DEF t
    <3> QED BY <1>8, <1>13, <2>2, <3>1, StreamAt
  <2> QED BY <2>1, <2>3, <2>4 DEF p
<1>15. p + (l + n) <= Size(k)
  BY <1>1, <1>6, <1>9, <1>12, <1>13
<1> QED BY <1>8, <1>14, <1>15 DEF k, l, p

LEMMA ReceivePlace ==
    ASSUME IInv, StepInv, TellInv, NEW n \in 1..Len(outgoing), Receive(n)
    PROVE  StepInv'
<1> USE DEF Receive
<1>1. /\ outgoing \in Seq(Byte) /\ in_buf \in Seq(Byte) /\ Len(outgoing) \in Nat /\ n \in Nat
      /\ n \in 0..Len(outgoing) /\ RequestsInv
  BY LenProperties DEF IInv, DataInv
<1>2. /\ Len(outgoing') = Len(outgoing) - n
      /\ \A j \in 1..(Len(outgoing) - n) : outgoing'[j] = outgoing[n + j]
  BY <1>1, FromProperties
<1>3. OutInv'
  <2>1. /\ Len(outgoing) <= Len(Stream) /\ Len(Stream) \in Nat /\ Stream' = Stream
        /\ \A j \in 1..Len(outgoing) : outgoing[j] = Stream[(Len(Stream) - Len(outgoing)) + j]
    BY <1>1, StreamProperties, LenProperties, SameRequests DEF StepInv, OutInv
  <2> DEFINE t == Len(Stream)
             o == Len(outgoing)
  <2>2. ASSUME NEW j \in 1..(o - n) PROVE outgoing'[j] = Stream[(t - (o - n)) + j]
    <3>1. n + j \in 1..o /\ (t - o) + (n + j) = (t - (o - n)) + j
      <4>1. o \in Nat /\ t \in Nat /\ o <= t
        BY <1>1, <2>1
      <4> HIDE DEF o, t
      <4> QED BY <1>1, <4>1
    <3>2. outgoing'[j] = outgoing[n + j]
      BY <1>2
    <3>3. outgoing[n + j] = Stream[(t - o) + (n + j)]
      BY <2>1, <3>1, Zenon
    <3> QED BY <3>1, <3>2, <3>3, Zenon
  <2>3. o - n <= t
    BY <1>1, <2>1
  <2> QED BY <1>2, <2>1, <2>2, <2>3 DEF OutInv
<1>4. AnswersInStep'
  BY SameAnswers DEF StepInv
<1>5. IdleInv'
  BY DEF IdleInv
<1>6. ASSUME ~pipelined'
      PROVE  PlaceInv' /\ LoopInv'
  <2>1. ~pipelined /\ ~(outgoing[n].msg > Current) /\ consumed = 0
    <3>1. ~pipelined /\ ~(outgoing[n].msg > Len(answers) + 1) /\ consumed = 0
      BY <1>6 DEF StepInv, IdleInv
    <3>2. ~Refusing
      BY <3>1 DEF TellInv, RefusedInv, Looping
    <3> QED BY <3>1, <3>2 DEF Current
  <2>2. PlaceInv
    BY <2>1 DEF StepInv, CallInv, Settled
  <2>3. Unread = in_buf
    BY <1>1, <2>1, FromStart DEF Unread
  <2> DEFINE k == Current
             l == Len(Unread)
             new == SubSeq(outgoing, 1, n)
  <2>4. in_buf' \in Seq(Byte) /\ Unread' = in_buf' /\ received' = in_buf'
    <3>1. IInv'
      BY ReceiveStep
    <3>2. in_buf' \in Seq(Byte) /\ consumed' = 0
      BY <3>1 DEF IInv, DataInv
    <3> QED BY <3>2, FromStart DEF Unread
  <2>5. UNCHANGED <<Current, Progress>>
    BY SameCurrent DEF Progress
  <2>6. /\ k \in Requests /\ Progress + (l + n) <= Size(k)
        /\ \A j \in 1..n : outgoing[j] = [msg |-> k, pos |-> Progress + (l + j)]
    BY <2>1, <2>2, Arrival DEF StepInv
  <2>7. new \in Seq(Byte) /\ Len(new) = n /\ \A j \in 1..n : new[j] = outgoing[j]
    <3>1. \A i \in 1..n : outgoing[i] \in Byte
      BY <1>1, LenProperties
    <3> QED BY <1>1, <3>1, SubSeqProperties
  <2>8. k \in Nat /\ l \in Nat /\ Progress \in Nat
    BY CurrentType DEF Progress
  <2>9. AreBytes(in_buf \o new, k, Progress, l + n)
    <3>1. \A j \in 1..n : new[j] = [msg |-> k, pos |-> Progress + (l + j)]
      BY <2>6, <2>7
    <3>2. AreBytes(in_buf, k, Progress, l)
      BY <2>2, <2>3 DEF PlaceInv
    <3> HIDE DEF new, k, l
    <3> QED BY <1>1, <2>7, <2>8, <3>1, <3>2, MoreBytes
  <2>10. in_buf' = in_buf \o new
    OBVIOUS
  <2> HIDE DEF new
  <2>11. AreBytes(Unread', k, Progress, Len(Unread')) /\ Len(Unread') = l + n
    BY <2>4, <2>9, <2>10 DEF AreBytes
  <2>12. UNCHANGED <<Before(k), Size(k), Stream>>
    BY <2>5, <2>8, SameRequests
  <2>13. PlaceInv'
    <3>1. /\ header \in {0, k} /\ k <= N + 1
          /\ Before(k) + Progress + l + Len(outgoing) = Len(Stream)
      BY <2>2 DEF PlaceInv
    <3>2. Before(k) \in Nat
      <4>1. k \in 1..(N + 1)
        BY <2>6, Constants DEF Requests
      <4> QED BY <1>1, <4>1, BeforeGrows
    <3>3. Before(k) + Progress + (l + n) + (Len(outgoing) - n) = Len(Stream)
      <4> DEFINE b == Before(k)
                 p == Progress
                 o == Len(outgoing)
      <4>1. /\ b \in Nat /\ p \in Nat /\ l \in Nat /\ n \in Nat /\ o \in Nat
            /\ b + p + l + o = Len(Stream)
        BY <1>1, <2>8, <3>1, <3>2
      <4> HIDE DEF b, p, o, l, Receive
      <4>2. b + p + (l + n) + (o - n) = Len(Stream)
        BY <4>1
      <4> QED BY <4>2 DEF b, p, o
    <3>4. Progress + (l + n) <= Size(k)
      BY <2>6
    <3>5. header' = header
      OBVIOUS
    <3> HIDE DEF l, Receive
    <3> QED BY <1>2, <2>5, <2>11, <2>12, <3>1, <3>3, <3>4, <3>5 DEF PlaceInv
  <2>14. LoopInv'
    BY <2>4 DEF LoopInv
  <2> QED BY <2>13, <2>14
<1>7. CallInv'
  <2>1. ~Settled'
    BY DEF Settled
  <2> QED BY <1>6, <2>1 DEF CallInv
<1> QED BY <1>3, <1>4, <1>5, <1>7 DEF StepInv

LEMMA HeaderPlace ==
    ASSUME IInv, StepInv, ParseHeader
    PROVE  StepInv'
<1> DEFINE k == Current
           l == Len(Unread)
           h == HeaderLength
<1>1. /\ UNCHANGED <<requests, outgoing, in_buf, protocol, pipelined, answers>>
      /\ pc = "loop" /\ header = 0 /\ HeaderEnd # 0 /\ pc' \in {"loop", "catch"}
      /\ header' = received[HeaderEnd].msg /\ consumed' = consumed + HeaderEnd
      /\ IF consumed' > Len(received) THEN TRUE ELSE received' = From(received, consumed')
  <2>1. pc' \in {"loop", "catch"}
    <3>1. CASE consumed' > Len(received)
      BY <3>1 DEF ParseHeader, Throw
    <3>2. CASE ~(consumed' > Len(received))
      BY <3>2 DEF ParseHeader
    <3> QED BY <3>1, <3>2
  <2> QED BY <2>1 DEF ParseHeader, Count, connVars
<1>2. OutInv' /\ AnswersInStep'
  <2>1. UNCHANGED <<requests, outgoing>> /\ UNCHANGED <<requests, answers>>
        /\ (pipelined => pipelined')
    BY <1>1
  <2> QED BY <2>1, SameOut, SameAnswers DEF StepInv
<1>3. IdleInv'
  BY <1>1 DEF StepInv, IdleInv
<1>4. ASSUME ~pipelined, protocol = "http"
      PROVE  PlaceInv' /\ LoopInv'
  <2>1. PlaceInv /\ LoopInv
    BY <1>1, <1>4 DEF StepInv, CallInv, Looping
  <2>2. k \in Nat \ {0} /\ h \in Nat \ {0} /\ l \in Nat /\ in_buf \in Seq(Byte)
    BY CurrentType DEF IInv, DataInv
  <2>3. received = Unread /\ AreBytes(received, k, 0, Len(received))
    BY <1>1, <2>1 DEF PlaceInv, LoopInv, Progress
  <2>4. HeaderEnd = h /\ h <= l /\ h \in 0..l
    BY <1>1, <2>2, <2>3, HeaderEnds
  <2>5. consumed = 0 /\ received = in_buf
    <3>1. consumed = 0
      BY <1>1, <2>1, <2>2, <2>4 DEF LoopInv
    <3> QED BY <2>2, <2>3, <3>1, FromStart DEF Unread
  <2>6. consumed' = h /\ Unread' = From(in_buf, h) /\ received' = Unread'
    <3>1. consumed' = h /\ ~(consumed' > Len(received))
      BY <1>1, <2>2, <2>3, <2>4, <2>5
    <3> QED BY <1>1, <2>5, <3>1 DEF Unread
  <2>7. header' = k
    <3>1. received[h] = [msg |-> k, pos |-> 0 + h]
      BY <2>2, <2>3, <2>4 DEF AreBytes
    <3> QED BY <1>1, <2>4, <3>1
  <2>8. UNCHANGED Current /\ Progress = 0 /\ Progress' = h
    BY <1>1, <2>2, <2>7, SameCurrent DEF Progress
  <2>9. UNCHANGED <<Before(k), Size(k), Stream>>
    BY <1>1, <2>2, <2>8, SameRequests
  <2>10. AreBytes(Unread', k, h, l - h) /\ Len(Unread') = l - h
    <3>1. AreBytes(From(in_buf, h), k, 0 + h, l - h)
      BY <2>2, <2>3, <2>4, <2>5, FewerBytes
    <3>2. 0 + h = h
      BY <2>2
    <3> QED BY <2>6, <3>1, <3>2 DEF AreBytes
  <2>11. /\ k <= N + 1 /\ Before(k) + 0 + l + Len(outgoing) = Len(Stream)
         /\ k <= N => 0 + l <= Size(k)
    BY <2>1, <2>8 DEF PlaceInv
  <2>12. Before(k) \in Nat /\ Len(outgoing) \in Nat
    <3>1. k \in 1..(N + 1) /\ RequestsInv
      BY <2>2, <2>11, Constants DEF IInv, DataInv
    <3> QED BY <3>1, BeforeGrows, LenProperties DEF IInv, DataInv
  <2>13. Before(k) + h + (l - h) + Len(outgoing) = Len(Stream) /\ (k <= N => h + (l - h) <= Size(k))
    <3> HIDE DEF k, l, h
    <3> QED BY <2>2, <2>4, <2>11, <2>12
  <2>14. PlaceInv'
    BY <1>1, <2>7, <2>8, <2>9, <2>10, <2>11, <2>13 DEF PlaceInv
  <2>15. LoopInv'
    BY <2>2, <2>6, <2>7 DEF LoopInv
  <2> QED BY <2>14, <2>15
<1>5. CallInv'
  BY <1>1, <1>4 DEF CallInv, Settled
<1> QED BY <1>2, <1>3, <1>5 DEF StepInv

LEMMA ReturnPlace ==
    ASSUME IInv, StepInv, Return
    PROVE  StepInv'
<1>1. /\ UNCHANGED <<requests, outgoing, header, answers, pipelined>>
      /\ in_buf' = Unread /\ consumed' = 0 /\ pc' = "idle" /\ pc = "return"
      /\ protocol' = IF protocol_change = "unchanged" THEN protocol ELSE protocol_change
  BY DEF Return, Unread
<1>2. OutInv' /\ AnswersInStep'
  <2>1. UNCHANGED <<requests, outgoing>> /\ UNCHANGED <<requests, answers>>
        /\ (pipelined => pipelined')
    BY <1>1
  <2> QED BY <2>1, SameOut, SameAnswers DEF StepInv
<1>3. IdleInv'
  BY <1>1 DEF IdleInv
<1>4. UNCHANGED <<Current, Progress, Unread>>
  <2>1. Unread \in Seq(Byte)
    BY FromSeq DEF IInv, DataInv, Unread
  <2>2. Unread' = From(Unread, 0)
    BY <1>1 DEF Unread
  <2>3. UNCHANGED Current
    BY <1>1, SameCurrent
  <2> QED BY <1>1, <2>1, <2>2, <2>3, FromStart DEF Progress
<1>5. UNCHANGED <<Before(Current), Size(Current), Stream>>
  BY <1>1, <1>4, SameRequests, CurrentType
<1>6. ASSUME ~pipelined, protocol' = "http"
      PROVE  PlaceInv' /\ RestInv'
  <2>1. protocol_change = "unchanged" /\ protocol = "http"
    BY <1>1, <1>6 DEF IInv, ControlInv
  <2>2. PlaceInv /\ RestInv
    BY <1>1, <1>6, <2>1 DEF StepInv, CallInv, Settled
  <2> QED BY <1>1, <1>4, <1>5, <2>2 DEF PlaceInv, RestInv, AreBytes
<1>7. CallInv'
  BY <1>1, <1>6 DEF CallInv, Looping
<1> QED BY <1>2, <1>3, <1>7 DEF StepInv

\* What the code of an answer decides; the other effects of Handle.
LEMMA HandleEffects ==
    ASSUME Handle
    PROVE  LET length == requests[header].length
               code == Outcome(requests[header].kind)
           IN /\ UNCHANGED <<requests, outgoing, in_buf, protocol, pipelined>>
              /\ pc = "loop" /\ header # 0 /\ Len(received) >= length /\ header' = 0
              /\ received' = From(received, length) /\ consumed' = consumed + length
              /\ pc' \in {"loop", "return", "threw"}
              /\ pc' = "loop" => code # 0
              /\ pc' = "return" => protocol_change' # "unchanged"
              /\ code = 0 => answers' = answers
              /\ code # 0 => answers' = Append(answers,
                                  [code |-> code, to |-> header, body |-> SubSeq(received, 1, length),
                                   opened |-> requests[header].kind \in HalfOpen])
<1> DEFINE length == requests[header].length
           code == Outcome(requests[header].kind)
<1>1. pc' = IF code = 0 THEN "threw"
            ELSE IF protocol_change' = "unchanged" THEN "loop" ELSE "return"
  BY DEF Handle
<1>2. /\ UNCHANGED <<requests, outgoing, in_buf, protocol, pipelined>>
      /\ pc = "loop" /\ header # 0 /\ Len(received) >= length /\ header' = 0
      /\ received' = From(received, length) /\ consumed' = consumed + length
  BY DEF Handle, ContentThere, Count, connVars
<1>3. /\ code = 0 => answers' = answers
      /\ code # 0 => answers' = Append(answers,
                          [code |-> code, to |-> header, body |-> SubSeq(received, 1, length),
                                   opened |-> requests[header].kind \in HalfOpen])
  BY DEF Handle, Answer, Body
<1> HIDE DEF code, length
<1>4. /\ pc' \in {"loop", "return", "threw"}
      /\ pc' = "loop" => code # 0
      /\ pc' = "return" => protocol_change' # "unchanged"
  BY <1>1
<1> QED BY <1>2, <1>3, <1>4 DEF code, length

LEMMA SameBytes ==
    ASSUME NEW i, NEW a \in Nat, NEW n \in Nat, NEW s, NEW t, AreBytes(s, i, a, n), AreBytes(t, i, a, n)
    PROVE  s = t
<1>1. s \in Seq(Byte) /\ t \in Seq(Byte) /\ Len(s) = n /\ Len(t) = n
  BY DEF AreBytes
<1>2. \A p \in 1..n : s[p] = t[p]
  BY DEF AreBytes
<1> QED BY <1>1, <1>2, SeqEqual

LEMMA BodyIsBytes ==
    ASSUME RequestsInv, NEW i \in Requests
    PROVE  /\ requests[i].length \in Nat /\ Size(i) = HeaderLength + requests[i].length
           /\ AreBytes(BodyBytes(i), i, HeaderLength, requests[i].length)
           /\ AreBytes(HeaderBytes(i), i, 0, HeaderLength)
<1>1. requests[i].length \in Nat /\ HeaderLength \in Nat
  BY HttpAssumption DEF RequestsInv, HttpAssumption
<1>2. AreBytes(Bytes(i, HeaderLength + 1, HeaderLength + requests[i].length), i,
               HeaderLength, requests[i].length)
  BY <1>1, BytesProperties
<1>3. AreBytes(Bytes(i, 0 + 1, 0 + HeaderLength), i, 0, HeaderLength)
  BY <1>1, BytesProperties
<1>4. 0 + 1 = 1 /\ 0 + HeaderLength = HeaderLength
  BY <1>1
<1> QED BY <1>1, <1>2, <1>3, <1>4 DEF Size, BodyBytes, HeaderBytes

\* Of a client that waits, the request that is handled is the one whose turn it
\* is; what is unread is its body, and nothing else.
LEMMA HandleTurn ==
    ASSUME IInv, StepInv, Handle, ~pipelined
    PROVE  LET k == Current
               l == requests[header].length
           IN /\ header = k /\ k \in Requests /\ PlaceInv /\ received = Unread /\ Len(Unread) = l
              /\ AreBytes(Unread, k, HeaderLength, l)
              /\ SubSeq(received, 1, l) = BodyBytes(k)
<1> DEFINE k == Current
           l == requests[header].length
           h == HeaderLength
<1>1. pc = "loop" /\ header # 0 /\ Len(received) >= l
  BY HandleEffects
<1>2. header \in Requests /\ RequestsInv /\ protocol = "http"
  BY <1>1, Constants DEF IInv, DataInv, Requests, StepInv, IdleInv
<1>3. l \in Nat /\ Size(header) = h + l /\ AreBytes(BodyBytes(header), header, h, l)
      /\ h \in Nat \ {0}
  BY <1>2, BodyIsBytes, CurrentType
<1>4. PlaceInv /\ LoopInv
  BY <1>1, <1>2 DEF StepInv, CallInv, Looping
<1>5. header = k /\ received = Unread /\ AreBytes(Unread, k, h, Len(Unread))
  BY <1>1, <1>4 DEF PlaceInv, LoopInv, Progress
<1>6. k <= N
  BY <1>2, <1>5, Constants DEF Requests
<1>7. h + Len(Unread) <= h + l
  BY <1>1, <1>3, <1>4, <1>5, <1>6 DEF PlaceInv, Progress
<1>8. Len(Unread) = l
  BY <1>1, <1>3, <1>5, <1>7, CurrentType
<1>9. SubSeq(received, 1, l) = BodyBytes(k)
  <2>1. Unread = From(Unread, 0)
    BY <1>5, FromStart DEF AreBytes
  <2>2. SubSeq(received, 1, l) = Unread
    BY <1>5, <1>8, <2>1 DEF From
  <2> QED BY <1>3, <1>5, <1>8, <2>2, SameBytes
<1> QED BY <1>2, <1>4, <1>5, <1>8, <1>9

\* What the client that waits is told when its request is handled is what it is due.
LEMMA HandleAnswers ==
    ASSUME IInv, StepInv, TellInv, Handle, ~pipelined
    PROVE  /\ ~Refusing
           /\ Outcome(requests[header].kind) # 0 =>
                /\ answers' = Append(answers, Due(Current))
                /\ AnswersInStep' /\ ~Refusing' /\ Current' = Current + 1
<1> DEFINE k == Current
           l == requests[header].length
           kind == requests[header].kind
           code == Outcome(kind)
<1>1. header = k /\ SubSeq(received, 1, l) = BodyBytes(k)
  BY HandleTurn
<1>2. kind \notin Broken /\ header # 0
  BY HandleEffects DEF TellInv
<1>3. ~Refusing
  BY <1>1, <1>2, Malformed DEF Broken
<1>4. ASSUME code # 0 PROVE answers' = Append(answers, Due(k))
  <2> DEFINE e == [code |-> code, to |-> header, body |-> SubSeq(received, 1, l),
                   opened |-> kind \in HalfOpen]
  <2>1. answers' = Append(answers, e)
    BY <1>4, HandleEffects
  <2>2. e = Due(k)
    <3>1. requests[k].kind = kind
      BY <1>1
    <3>2. Due(k) = [code |-> Outcome(requests[k].kind), to |-> k, body |-> BodyBytes(k),
                    opened |-> requests[k].kind \in HalfOpen]
      BY <1>2, <3>1 DEF Due
    <3> HIDE DEF k, kind, l
    <3> QED BY <1>1, <3>1, <3>2
  <2> HIDE DEF e
  <2> QED BY <2>1, <2>2
<1>5. UNCHANGED <<requests, pipelined>> /\ requests[k].kind # "malformed"
  BY <1>1, <1>2, HandleEffects DEF Broken
<1>6. ASSUME code # 0 PROVE AnswersInStep' /\ ~Refusing' /\ Current' = Current + 1
  <2>1. answers' = Append(answers, Due(Current))
    BY <1>4, <1>6
  <2>2. AnswersInStep
    BY DEF StepInv
  <2> QED BY <1>3, <1>5, <2>1, <2>2, AnswerDue
<1> QED BY <1>3, <1>4, <1>6

LEMMA HandlePlace ==
    ASSUME IInv, StepInv, TellInv, Handle
    PROVE  StepInv'
<1> DEFINE k == Current
           l == requests[header].length
           h == HeaderLength
           code == Outcome(requests[header].kind)
<1>1. /\ UNCHANGED <<requests, outgoing, in_buf, protocol, pipelined>>
      /\ pc = "loop" /\ header # 0 /\ Len(received) >= l /\ header' = 0
      /\ received' = From(received, l) /\ consumed' = consumed + l
      /\ pc' \in {"loop", "return", "threw"}
      /\ pc' = "loop" => code # 0
      /\ pc' = "return" => protocol_change' # "unchanged"
  BY HandleEffects
<1>2. /\ code = 0 => answers' = answers
      /\ code # 0 => answers' = Append(answers,
                          [code |-> code, to |-> header, body |-> SubSeq(received, 1, l),
                           opened |-> requests[header].kind \in HalfOpen])
  BY HandleEffects
<1>3. OutInv' /\ IdleInv'
  BY <1>1, SameOut DEF StepInv, IdleInv
<1>4. header \in Requests /\ RequestsInv /\ l \in Nat /\ Size(header) = h + l
      /\ AreBytes(BodyBytes(header), header, h, l) /\ h \in Nat \ {0}
  <2>1. header \in Requests /\ RequestsInv
    BY <1>1, Constants DEF IInv, DataInv, Requests
  <2> QED BY <2>1, BodyIsBytes, CurrentType
<1>5. k \in Nat \ {0} /\ in_buf \in Seq(Byte) /\ Len(in_buf) \in Nat /\ consumed \in 0..Len(in_buf)
      /\ protocol = "http"
  BY <1>1, CurrentType, LenProperties DEF IInv, DataInv, ViewInv, StepInv, IdleInv
<1>6. ASSUME ~pipelined
      PROVE  /\ header = k /\ PlaceInv /\ received = Unread /\ Len(Unread) = l
             /\ AreBytes(Unread, k, h, l) /\ SubSeq(received, 1, l) = BodyBytes(k)
  BY <1>6, HandleTurn
<1>7. AnswersInStep'
  <2>1. CASE code = 0 \/ pipelined
    <3>1. CASE code = 0
      <4>1. UNCHANGED <<requests, answers>> /\ (pipelined => pipelined')
        BY <1>1, <1>2, <3>1
      <4> QED BY <4>1, SameAnswers DEF StepInv
    <3>2. CASE pipelined
      BY <1>1, <3>2 DEF AnswersInStep
    <3> QED BY <2>1, <3>1, <3>2
  <2>2. CASE code # 0 /\ ~pipelined
    BY <2>2, HandleAnswers
  <2> QED BY <2>1, <2>2
<1>8. ASSUME ~pipelined, pc' = "loop"
      PROVE  PlaceInv' /\ LoopInv'
  <2>1. Current' = k + 1 /\ Progress' = 0
    <3>1. code # 0
      BY <1>1, <1>8
    <3>2. Current' = k + 1
      BY <1>8, <3>1, HandleAnswers
    <3> QED BY <1>1, <3>2 DEF Progress
  <2>2. consumed' = Len(in_buf)
    <3>1. Len(Unread) = Len(in_buf) - consumed
      BY <1>5, FromProperties DEF Unread
    <3>2. consumed' = consumed + l /\ Len(Unread) = l /\ l \in Nat
      BY <1>1, <1>4, <1>6, <1>8
    <3> HIDE DEF l
    <3> QED BY <1>5, <3>1, <3>2
  <2>3. Len(Unread') = 0 /\ Unread' \in Seq(Byte)
    <3>1. Len(in_buf) \in 0..Len(in_buf) /\ Len(in_buf) - Len(in_buf) = 0
      BY <1>5
    <3>2. Unread' = From(in_buf, Len(in_buf))
      BY <1>1, <2>2 DEF Unread
    <3> QED BY <1>5, <3>1, <3>2, FromProperties
  <2>4. Len(received') = 0 /\ received' \in Seq(Byte)
    <3>1. l \in 0..Len(Unread) /\ Len(Unread) - l = 0 /\ Unread \in Seq(Byte)
      BY <1>4, <1>6, <1>8 DEF AreBytes
    <3>2. received' = From(Unread, l)
      BY <1>1, <1>6, <1>8
    <3> HIDE DEF l
    <3>3. From(Unread, l) \in Seq(Byte) /\ Len(From(Unread, l)) = Len(Unread) - l
      BY <3>1, FromProperties
    <3> QED BY <3>1, <3>2, <3>3
  <2>5. received' = Unread'
    BY <2>3, <2>4, SeqEqual
  <2>6. AreBytes(Unread', Current', Progress', Len(Unread'))
    BY <2>3 DEF AreBytes
  <2>7. k \in Requests /\ N \in Nat /\ Requests = 1..N /\ Size(k) = h + l
    BY <1>4, <1>6, <1>8, Constants DEF Requests
  <2>8. Before(k) + h + l + Len(outgoing) = Len(Stream)
    BY <1>1, <1>6, <1>8 DEF PlaceInv, Progress
  <2>9. Before(k + 1) = Before(k) + Size(k) /\ Before(k) \in Nat /\ Len(outgoing) \in Nat
    <3>1. k \in 1..(N + 1)
      BY <2>7
    <3>2. Before(k) \in Nat
      BY <1>4, <2>7, <3>1, BeforeGrows
    <3>3. Before(k + 1) = Before(k) + Size(k)
      BY <1>4, <2>7, StreamProperties
    <3> QED BY <3>2, <3>3, LenProperties DEF IInv, DataInv
  <2>10. Before(k + 1) + 0 + 0 + Len(outgoing) = Len(Stream)
    <3> HIDE DEF k, l, h
    <3> QED BY <1>4, <2>7, <2>8, <2>9
  <2>11. k + 1 <= N + 1
    BY <1>5, <2>7
  <2>12. k + 1 <= N => 0 + 0 <= Size(k + 1)
    <3> SUFFICES ASSUME k + 1 <= N PROVE 0 + 0 <= Size(k + 1)
      OBVIOUS
    <3>1. k + 1 \in Requests
      BY <1>5, <2>7
    <3>2. Size(k + 1) \in Nat
      BY <1>4, <3>1, RequestProperties
    <3> QED BY <3>2
  <2>13. Before(Current)' = Before(k + 1) /\ Size(Current)' = Size(k + 1) /\ Stream' = Stream
    <3>1. Current' = k + 1 /\ UNCHANGED requests
      BY <1>1, <2>1
    <3> HIDE DEF k
    <3> QED BY <3>1, SameRequests DEF Before, Size
  <2>14. PlaceInv'
    <3> HIDE DEF k
    <3> QED BY <1>1, <2>1, <2>3, <2>6, <2>10, <2>11, <2>12, <2>13 DEF PlaceInv
  <2>15. LoopInv'
    BY <2>3, <2>5 DEF LoopInv
  <2> QED BY <2>14, <2>15
<1>9. CallInv'
  <2>1. ~Settled' /\ (Looping' => pc' = "loop")
    BY <1>1 DEF Settled, Looping
  <2> QED BY <1>1, <1>8, <2>1 DEF CallInv
<1> QED BY <1>3, <1>7, <1>9 DEF StepInv

\* The view that is shown to a client that waits begins with its turn's header.
LEMMA HeaderIsTurn ==
    ASSUME IInv, StepInv, pc = "loop", header = 0, HeaderEnd # 0, ~pipelined
    PROVE  /\ PlaceInv /\ LoopInv
           /\ received = Unread /\ AreBytes(received, Current, 0, Len(received))
           /\ HeaderEnd = HeaderLength /\ HeaderLength <= Len(received)
           /\ Len(received) \in Nat
           /\ received[HeaderEnd].msg = Current /\ Current \in Requests
<1> DEFINE k == Current
           h == HeaderLength
<1>1. protocol = "http"
  BY DEF StepInv, IdleInv
<1>2. PlaceInv /\ LoopInv
  BY <1>1 DEF StepInv, CallInv, Looping
<1>3. received = Unread /\ AreBytes(received, k, 0, Len(received))
  BY <1>1, <1>2 DEF PlaceInv, LoopInv, Progress
<1>4. h \in Nat \ {0} /\ Len(received) \in Nat
  BY <1>3, CurrentType DEF IInv, DataInv
<1>5. HeaderEnd = h /\ h <= Len(received)
  BY <1>1, <1>3, <1>4, HeaderEnds
<1>6. received[h] = [msg |-> k, pos |-> 0 + h] /\ received[h] \in Byte
  <2>1. h \in 1..Len(received) /\ received \in Seq(Byte)
    BY <1>3, <1>4, <1>5 DEF AreBytes
  <2> QED BY <1>3, <2>1, LenProperties DEF AreBytes
<1>7. received[HeaderEnd].msg = k /\ k \in Requests
  <2>1. received[h].msg = k /\ received[h].msg \in Requests
    BY <1>6 DEF Byte
  <2> QED BY <1>5, <2>1
<1> QED BY <1>2, <1>3, <1>4, <1>5, <1>7

\* The view that is shown to a client that waits is long enough for its header.
LEMMA HeaderFits ==
    ASSUME IInv, StepInv, ParseHeader, ~pipelined
    PROVE  pc' = "loop"
<1>1. pc = "loop" /\ header = 0 /\ HeaderEnd # 0 /\ protocol = "http"
  BY DEF ParseHeader, StepInv, IdleInv
<1>2. PlaceInv /\ LoopInv
  BY <1>1 DEF StepInv, CallInv, Looping
<1>3. received = Unread /\ received \in Seq(Byte) /\ Len(received) \in Nat /\ consumed \in Nat
  BY <1>2, CurrentType DEF LoopInv, IInv, DataInv
<1>4. HeaderEnd \in 1..Len(received)
  BY <1>1, <1>3, HeaderEndInView
<1>5. consumed = 0
  BY <1>1, <1>2, <1>3, <1>4 DEF LoopInv
<1>6. consumed' = consumed + HeaderEnd
  BY DEF ParseHeader, Count
<1> HIDE DEF HeaderEnd
<1>7. ~(consumed' > Len(received))
  BY <1>3, <1>4, <1>5, <1>6
<1> QED BY <1>1, <1>7 DEF ParseHeader

\* What stood before the blank line was the header whose turn it is.
LEMMA RefusalIsTrue ==
    ASSUME IInv, StepInv, ParseFails, ~pipelined
    PROVE  /\ Current \in Requests /\ requests[Current].kind \in Broken
           /\ error' = Outcome(requests[Current].kind)
           /\ received[HeaderEnd].msg = Current
           /\ Before(Current) + HeaderLength + Len(outgoing) <= Len(Stream)
<1> DEFINE k == Current
           h == HeaderLength
           i == received[HeaderEnd].msg
<1>1. pc = "loop" /\ header = 0 /\ HeaderEnd # 0
  BY DEF ParseFails
<1>2. PlaceInv /\ LoopInv
  BY <1>1, HeaderIsTurn
<1>3. received = Unread /\ AreBytes(received, k, 0, Len(received))
  BY <1>1, HeaderIsTurn
<1>4. k \in Nat \ {0} /\ h \in Nat \ {0} /\ Len(received) \in Nat /\ RequestsInv /\ Len(outgoing) \in Nat
  BY <1>3, CurrentType, LenProperties DEF IInv, DataInv
<1>5. HeaderEnd = h /\ h <= Len(received)
  BY <1>1, HeaderIsTurn
<1>7. i = k /\ k \in Requests
  BY <1>1, HeaderIsTurn
<1>8. SubSeq(received, 1, h) = HeaderBytes(k)
  <2> DEFINE u == SubSeq(received, 1, h)
  <2>1. u \in Seq(Byte) /\ Len(u) = h /\ \A j \in 1..h : u[j] = received[j]
    <3>1. \A j \in 1..h : j \in 1..Len(received)
      BY <1>4, <1>5
    <3>2. \A j \in 1..h : received[j] \in Byte
      BY <1>3, <3>1, LenProperties DEF AreBytes
    <3> QED BY <1>4, <3>2, SubSeqProperties
  <2> HIDE DEF u
  <2>2. AreBytes(u, k, 0, h)
    <3>1. ASSUME NEW j \in 1..h PROVE u[j] = [msg |-> k, pos |-> 0 + j]
      <4>1. j \in 1..Len(received)
        BY <1>4, <1>5
      <4> QED BY <1>3, <2>1, <4>1 DEF AreBytes
    <3> QED BY <2>1, <3>1 DEF AreBytes
  <2>3. AreBytes(HeaderBytes(k), k, 0, h)
    BY <1>4, <1>7, BodyIsBytes
  <2>4. u = HeaderBytes(k)
    BY <1>4, <2>2, <2>3, SameBytes
  <2> QED BY <2>4 DEF u
<1>9. requests[k].kind \in Broken /\ error' = Outcome(requests[k].kind)
  <2>1. IF SubSeq(received, 1, HeaderEnd) = HeaderBytes(i)
        THEN requests[i].kind \in Broken /\ error' = Outcome(requests[i].kind)
        ELSE TRUE
    BY DEF ParseFails, Throw
  <2> HIDE DEF k, i, HeaderEnd
  <2> QED BY <1>5, <1>7, <1>8, <2>1
<1>10. Before(k) + h + Len(outgoing) <= Len(Stream)
  <2>1. Before(k) + 0 + Len(received) + Len(outgoing) = Len(Stream)
    BY <1>1, <1>2, <1>3 DEF PlaceInv, Progress
  <2>2. Before(k) \in Nat
    <3>1. k \in 1..(N + 1)
      BY <1>7, Constants DEF Requests
    <3> QED BY <1>4, <3>1, BeforeGrows
  <2> HIDE DEF k, h
  <2> QED BY <1>4, <1>5, <2>1, <2>2
<1> QED BY <1>7, <1>9, <1>10

\* What the client that waits is told when its header is refused is what it is due,
\* again and again.
LEMMA CatchTells ==
    ASSUME IInv, StepInv, TellInv, Catch, ~pipelined
    PROVE  /\ AnswersInStep'
           /\ Current \in Requests /\ requests[Current].kind \in Broken
           /\ error = Outcome(requests[Current].kind)
           /\ IF Refusing THEN \/ answers' = Append(answers, answers[Len(answers)])
                               \/ answers' = answers
              ELSE answers' = Append(answers, Due(Current))
           /\ IF requests[Current].kind = "malformed"
              THEN /\ error < 500 /\ Current' = Current
                   /\ answers'[Len(answers')] = [code |-> 400, to |-> Current, body |-> <<>>,
                                                 opened |-> FALSE]
              ELSE error >= 500 /\ ~Refusing'
<1> DEFINE k == Current
           kind == requests[k].kind
           e == [code |-> error, to |-> k, body |-> <<>>, opened |-> FALSE]
<1>1. k \in Requests /\ kind \in Broken /\ error = Outcome(kind) /\ Whose = k
  BY CatchEffects DEF TellInv, RefusalInv, Whose
<1>2. /\ UNCHANGED <<requests, pipelined>>
      /\ IF Len(answers) < MaxAnswers THEN answers' = Append(answers, e) ELSE answers' = answers
  BY <1>1, CatchEffects
<1>3. e = Due(k)
  <2>1. kind \notin HalfOpen
    BY <1>1 DEF Broken, HalfOpen
  <2>2. Due(k) = [code |-> Outcome(kind), to |-> k, body |-> <<>>, opened |-> FALSE]
    <3>1. (kind \in HalfOpen) = FALSE /\ kind \in Broken
      BY <1>1, <2>1
    <3>2. (IF kind \in Broken THEN <<>> ELSE BodyBytes(k)) = <<>>
      BY <3>1
    <3> QED BY <3>1, <3>2, Zenon DEF Due
  <2> QED BY <1>1, <2>2
<1>4. error = IF kind = "malformed" THEN 400 ELSE 500
  BY <1>1, BrokenOutcome
<1>5. AnswersInStep
  BY DEF StepInv
<1>6. CASE ~Refusing
  <2>1. Len(answers) < MaxAnswers
    <3>1. k = Len(answers) + 1 /\ Len(answers) \in Nat
      BY <1>6, LenProperties DEF Current, IInv, AnswersInv
    <3> QED BY <1>1, <3>1, Constants DEF Requests
  <2>2. answers' = Append(answers, Due(Current))
    <3> HIDE DEF e
    <3> QED BY <1>2, <1>3, <2>1
  <2>3. /\ AnswersInStep'
        /\ Refusing' <=> requests[Current].kind = "malformed"
        /\ Current' = IF requests[Current].kind = "malformed" THEN Current ELSE Current + 1
        /\ answers'[Len(answers')] = Due(Current)
    BY <1>2, <1>5, <1>6, <2>2, AnswerDue
  <2>4. kind = "malformed" => answers'[Len(answers')] = [code |-> 400, to |-> k, body |-> <<>>,
                                                         opened |-> FALSE]
    BY <1>3, <1>4, <2>3
  <2>5. IF kind = "malformed" THEN error < 500 ELSE error >= 500
    BY <1>4
  <2> HIDE DEF e
  <2> QED BY <1>1, <1>6, <2>2, <2>3, <2>4, <2>5
<1>7. CASE Refusing
  <2>1. kind = "malformed" /\ error = 400
    BY <1>4, <1>7, Malformed
  <2>2. answers[Len(answers)] = e
    BY <1>7, <2>1 DEF TellInv, RefusedInv
  <2>3. answers' = Append(answers, answers[Len(answers)]) \/ answers' = answers
    <3> HIDE DEF e
    <3> QED BY <1>2, <2>2
  <2>4. /\ AnswersInStep' /\ Current' = Current
        /\ answers'[Len(answers')] = answers[Len(answers)]
    <3>1. CASE answers' = Append(answers, answers[Len(answers)])
      BY <1>2, <1>5, <1>7, <3>1, AnswerAgain
    <3>2. CASE answers' = answers
      BY <1>2, <1>5, <3>2, SameAnswers, SameCurrent
    <3> QED BY <2>3, <3>1, <3>2
  <2> QED BY <1>1, <1>7, <2>1, <2>2, <2>3, <2>4
<1> QED BY <1>6, <1>7

\* An error is caught and answered.
LEMMA CatchPlace ==
    ASSUME IInv, StepInv, TellInv, Catch
    PROVE  StepInv'
<1>1. /\ UNCHANGED <<requests, outgoing, in_buf, received, header, consumed, pipelined, protocol>>
      /\ pc = "catch"
      /\ protocol_change' = IF error >= 500 THEN "none" ELSE protocol_change
      /\ pc' = IF error >= 500 THEN "return" ELSE "loop"
  BY CatchEffects
<1>2. OutInv' /\ IdleInv'
  BY <1>1, SameOut DEF StepInv, IdleInv
<1>3. AnswersInStep'
  <2>1. CASE pipelined
    BY <1>1, <2>1 DEF AnswersInStep
  <2>2. CASE ~pipelined
    BY <2>2, CatchTells
  <2> QED BY <2>1, <2>2
<1>4. ASSUME ~pipelined, protocol = "http"
      PROVE  /\ ~Settled'
             /\ Looping' => PlaceInv' /\ LoopInv'
  <2>1. ~Settled'
    BY <1>1 DEF Settled
  <2>2. ASSUME Looping' PROVE PlaceInv' /\ LoopInv'
    <3>1. ~(error >= 500)
      BY <1>1, <2>2 DEF Looping
    <3>2. Current' = Current
      BY <1>4, <3>1, CatchTells
    <3>3. PlaceInv /\ LoopInv
      BY <1>1, <1>4 DEF StepInv, CallInv, Looping
    <3> QED BY <1>1, <3>2, <3>3, SamePlace
  <2> QED BY <2>1, <2>2
<1>5. CallInv'
  BY <1>1, <1>4 DEF CallInv
<1> QED BY <1>2, <1>3, <1>5 DEF StepInv

LEMMA NextStepInv == IInv /\ StepInv /\ TellInv /\ [Next]_vars => StepInv'
BY ReceivePlace, QuietPlace, CatchPlace, HeaderPlace, HandlePlace, ReturnPlace DEF Next, Round

\* A step that leaves the answers and the requests alone.
LEMMA QuietTells ==
    ASSUME UNCHANGED <<requests, answers>>, RefusedInv, pipelined => pipelined',
           ~pipelined' /\ Refusing => Looping' /\ header' = 0 /\ HeaderEnd' # 0
    PROVE  RefusedInv'
BY SameCurrent DEF RefusedInv

LEMMA NextTellInv == IInv /\ StepInv /\ TellInv /\ [Next]_vars => TellInv'
<1> SUFFICES ASSUME IInv, StepInv, TellInv, [Next]_vars PROVE TellInv'
  OBVIOUS
<1> DEFINE Kept == header # 0 => requests[header].kind \notin Broken
<1>0. Kept /\ RefusalInv /\ RefusedInv
  BY DEF TellInv
<1>1. ASSUME NEW n \in 1..Len(outgoing), Receive(n) PROVE TellInv'
  <2>1. /\ UNCHANGED <<requests, answers, header>> /\ pc = "idle" /\ pc' = "loop"
        /\ pipelined => pipelined'
    BY <1>1 DEF Receive
  <2>2. ~pipelined => ~Refusing
    BY <1>0, <2>1 DEF RefusedInv, Looping
  <2>3. RefusedInv'
    BY <1>0, <2>1, <2>2, QuietTells
  <2> QED BY <1>0, <2>1, <2>3 DEF TellInv, RefusalInv
<1>2. CASE NoHeader \/ ContentMissing
  <2>1. /\ UNCHANGED <<requests, answers, header, received, pipelined>>
        /\ pc' = "return" /\ (HeaderEnd = 0 \/ header # 0)
    BY <1>2 DEF NoHeader, ContentMissing, Leave, connVars
  <2>2. ~pipelined => ~Refusing
    BY <1>0, <2>1 DEF RefusedInv
  <2>3. RefusedInv'
    BY <1>0, <2>1, <2>2, QuietTells
  <2> QED BY <1>0, <2>1, <2>3 DEF TellInv, RefusalInv
<1>3. CASE ParseHeader
  <2>1. /\ UNCHANGED <<requests, answers, pipelined>> /\ pc = "loop" /\ header = 0 /\ HeaderEnd # 0
        /\ header' = received[HeaderEnd].msg
        /\ requests[received[HeaderEnd].msg].kind \notin Broken
    BY <1>3 DEF ParseHeader, connVars
  <2>2. RefusalInv'
    BY <1>3, <2>1, HeaderFits DEF RefusalInv
  <2>3. ~pipelined => ~Refusing
    BY <2>1, HeaderIsTurn, Malformed DEF Broken
  <2>4. RefusedInv'
    BY <1>0, <2>1, <2>3, QuietTells
  <2> QED BY <2>1, <2>2, <2>4 DEF TellInv
<1>4. CASE ParseFails
  <2>1. /\ UNCHANGED <<requests, outgoing, answers, pipelined, header, received>>
        /\ pc = "loop" /\ pc' = "catch" /\ header = 0 /\ HeaderEnd # 0
    <3>1. pc' = "catch"
      BY <1>4 DEF ParseFails, Throw
    <3> QED BY <1>4, <3>1 DEF ParseFails, connVars
  <2>2. HeaderEnd' = HeaderEnd
    BY <2>1, SameEnd
  <2>3. RefusalInv'
    <3> SUFFICES ASSUME ~pipelined PROVE RefusalInv'
      BY <2>1 DEF RefusalInv
    <3>1. /\ Current \in Requests /\ requests[Current].kind \in Broken
          /\ error' = Outcome(requests[Current].kind)
          /\ received[HeaderEnd].msg = Current
          /\ Before(Current) + HeaderLength + Len(outgoing) <= Len(Stream)
      BY <1>4, RefusalIsTrue
    <3>2. UNCHANGED <<Current, Stream, Before(Current)>>
      BY <2>1, SameRequests, CurrentType, SameCurrent
    <3> QED BY <2>1, <2>2, <3>1, <3>2 DEF RefusalInv, Requests
  <2>4. RefusedInv'
    <3>1. Looping'
      BY <2>1 DEF Looping
    <3> QED BY <1>0, <2>1, <2>2, <3>1, QuietTells
  <2> QED BY <1>0, <2>1, <2>3, <2>4 DEF TellInv
<1>5. CASE Handle
  <2>1. /\ UNCHANGED <<requests, pipelined>> /\ header' = 0 /\ pc' \in {"loop", "return", "threw"}
        /\ (Outcome(requests[header].kind) = 0 => answers' = answers)
    BY <1>5, HandleEffects
  <2>2. ~pipelined => ~Refusing'
    <3> SUFFICES ASSUME ~pipelined PROVE ~Refusing'
      OBVIOUS
    <3>1. CASE Outcome(requests[header].kind) = 0
      BY <1>5, <2>1, <3>1, HandleAnswers, SameCurrent
    <3>2. CASE Outcome(requests[header].kind) # 0
      BY <1>5, <3>2, HandleAnswers
    <3> QED BY <3>1, <3>2
  <2> QED BY <2>1, <2>2 DEF TellInv, RefusalInv, RefusedInv
<1>6. CASE Catch
  <2>1. /\ UNCHANGED <<requests, pipelined, header, received>> /\ pc = "catch"
        /\ pc' = IF error >= 500 THEN "return" ELSE "loop"
    BY <1>6, CatchEffects
  <2>2. HeaderEnd' = HeaderEnd
    BY <2>1, SameEnd
  <2>3. RefusalInv'
    BY <2>1 DEF RefusalInv
  <2>4. RefusedInv'
    <3> SUFFICES ASSUME ~pipelined, Refusing'
                 PROVE  /\ Looping' /\ header' = 0 /\ HeaderEnd' # 0
                        /\ answers'[Len(answers')] = [code |-> 400, to |-> Current', body |-> <<>>,
                                                      opened |-> FALSE]
      BY <2>1 DEF RefusedInv
    <3>1. /\ requests[Current].kind = "malformed" /\ ~(error >= 500) /\ Current' = Current
          /\ answers'[Len(answers')] = [code |-> 400, to |-> Current, body |-> <<>>,
                                        opened |-> FALSE]
      <4>1. requests[Current].kind = "malformed"
        BY <1>6, CatchTells
      <4>2. /\ error < 500 /\ Current' = Current
            /\ answers'[Len(answers')] = [code |-> 400, to |-> Current, body |-> <<>>,
                                          opened |-> FALSE]
        BY <1>6, <4>1, CatchTells
      <4>3. error \in Nat
        BY DEF IInv, ControlInv
      <4> QED BY <4>1, <4>2, <4>3
    <3>2. Looping'
      BY <2>1, <3>1 DEF Looping
    <3>3. header = 0 /\ HeaderEnd # 0
      BY <1>0, <2>1 DEF RefusalInv, IInv, CatchInv
    <3> QED BY <2>1, <2>2, <3>1, <3>2, <3>3
  <2> QED BY <1>0, <2>1, <2>3, <2>4 DEF TellInv
<1>7. CASE Return
  <2>1. UNCHANGED <<requests, answers, header, pipelined>> /\ pc = "return" /\ pc' = "idle"
    BY <1>7 DEF Return
  <2>2. ~pipelined => ~Refusing
    BY <1>0, <2>1 DEF RefusedInv, Looping
  <2>3. RefusedInv'
    BY <1>0, <2>1, <2>2, QuietTells
  <2> QED BY <1>0, <2>1, <2>3 DEF TellInv, RefusalInv
<1>8. CASE UNCHANGED vars
  <2>1. UNCHANGED <<requests, outgoing, answers, pipelined, header, received, pc, error>>
    BY <1>8 DEF vars
  <2>2. UNCHANGED <<Current, Refusing, Stream, Before(Current)>> /\ HeaderEnd' = HeaderEnd
    BY <2>1, SameRequests, CurrentType, SameCurrent, SameEnd
  <2> QED BY <2>1, <2>2 DEF TellInv, RefusalInv, RefusedInv, Looping, Requests
<1> QED BY <1>1, <1>2, <1>3, <1>4, <1>5, <1>6, <1>7, <1>8 DEF Next, Round

LEMMA InitTellInv == Init => TellInv
BY DEF Init, TellInv, RefusalInv, RefusedInv, Refusing

LEMMA InitStepInv == Init => StepInv
<1> SUFFICES ASSUME Init PROVE StepInv
  OBVIOUS
<1>1. IInv /\ RequestsInv /\ outgoing = Stream
  BY InitIInv DEF IInv, DataInv, Init
<1>2. Stream \in Seq(Byte) /\ Len(Stream) \in Nat
  BY <1>1, StreamProperties, LenProperties
<1>3. OutInv
  <2>1. \A j \in 1..Len(Stream) : (Len(Stream) - Len(Stream)) + j = j
    BY <1>2
  <2> QED BY <1>1, <1>2, <2>1 DEF OutInv
<1>4. Current = 1 /\ Progress = 0 /\ Unread = <<>> /\ Len(Unread) = 0
  <2>1. answers = <<>> /\ header = 0 /\ in_buf = <<>> /\ consumed = 0 /\ <<>> \in Seq(Byte)
    BY DEF Init
  <2>2. Current = 1 /\ Progress = 0
    BY <2>1 DEF Current, Refusing, Progress
  <2>3. Unread = in_buf
    BY <2>1, FromStart DEF Unread
  <2> QED BY <2>1, <2>2, <2>3
<1>5. PlaceInv
  <2>1. Before(1) = 0 /\ (1 <= N => Size(1) \in Nat)
    BY <1>1, StreamProperties, RequestProperties, Constants DEF Requests
  <2>2. AreBytes(Unread, 1, 0, 0)
    BY <1>4 DEF AreBytes
  <2>3. 1 <= N + 1 /\ 0 + 0 + 0 + Len(outgoing) = Len(Stream) /\ (1 <= N => 0 + 0 <= Size(1))
    BY <1>1, <1>2, <2>1, Constants
  <2>4. header \in {0, Current}
    BY DEF Init
  <2> QED BY <1>4, <2>1, <2>2, <2>3, <2>4 DEF PlaceInv
<1>6. RestInv
  BY <1>1, <1>4, CurrentType DEF RestInv, Init
<1>7. CallInv /\ IdleInv
  BY <1>5, <1>6 DEF Init, CallInv, IdleInv, Looping
<1>8. AnswersInStep
  BY DEF Init, AnswersInStep
<1> QED BY <1>3, <1>7, <1>8 DEF StepInv

\* Less of the same bytes is a strict prefix of them.
LEMMA FewerArePrefix ==
    ASSUME NEW i, NEW a \in Nat, NEW l \in Nat, NEW n \in Nat, l < n,
           NEW s, NEW t, AreBytes(s, i, a, l), AreBytes(t, i, a, n)
    PROVE  IsStrictPrefix(s, t)
<1>1. s \in Seq(Byte) /\ t \in Seq(Byte) /\ Len(s) = l /\ Len(t) = n
  BY DEF AreBytes
<1> DEFINE u == SubSeq(t, 1, l)
<1>2. u \in Seq(Byte) /\ Len(u) = l /\ \A j \in 1..l : u[j] = t[j]
  <2>1. \A j \in 1..l : t[j] \in Byte
    BY <1>1, LenProperties
  <2> QED BY <1>1, <2>1, SubSeqProperties
<1>3. AreBytes(u, i, a, l)
  <2> HIDE DEF u
  <2>1. ASSUME NEW j \in 1..l PROVE u[j] = [msg |-> i, pos |-> a + j]
    <3>1. j \in 1..n
      OBVIOUS
    <3> QED BY <1>2, <3>1 DEF AreBytes
  <2> QED BY <1>2, <2>1 DEF AreBytes
<1>4. u = s
  BY <1>3, SameBytes
<1>5. SubSeq(s, 1, l) = s
  BY <1>1, FromStart DEF From
<1>6. s # t /\ l <= n
  BY <1>1
<1> QED BY <1>1, <1>4, <1>5, <1>6 DEF IsStrictPrefix, IsPrefix

\* A client that awaits each answer gets one to each of its requests, in their
\* order, each made from its own body and with the status that becomes of it; a
\* header that is refused with an error of the client is told so again and again, and
\* nothing else is said from there on.  For any requests, however their bytes were cut.
THEOREM AnswersInOrder == Spec => []AnswersInStep
<1>1. StepInv => AnswersInStep
  BY DEF StepInv
<1> QED BY <1>1, InitIInv, NextIInv, InitStepInv, NextStepInv, InitTellInv, NextTellInv, PTL DEF Spec

\* Between two calls the buffer and the header that was kept are the unanswered
\* rest of what arrived: no byte is lost or used twice, and no complete request
\* is left unanswered, for any requests and however their bytes were cut.
THEOREM NothingIsLeft == Spec => []NothingLeftBehind
<1>1. ASSUME IInv, StepInv, TellInv PROVE NothingLeftBehind
  <2> SUFFICES ASSUME ~pipelined, pc = "idle", protocol = "http"
               PROVE  LET k == Len(answers) + 1
                      IN \/ in_buf = <<>> /\ header = 0
                         \/ /\ header = 0 /\ IsStrictPrefix(in_buf, HeaderBytes(k))
                         \/ /\ header = k /\ IsStrictPrefix(in_buf, BodyBytes(k))
    BY DEF NothingLeftBehind
  <2> DEFINE k == Current
             l == Len(Unread)
             h == HeaderLength
  <2>0. k = Len(answers) + 1
    BY <1>1 DEF TellInv, RefusedInv, Looping, Current
  <2>1. PlaceInv /\ RestInv /\ consumed = 0
    BY <1>1 DEF StepInv, CallInv, IdleInv, Settled
  <2>2. Unread = in_buf
    BY <1>1, <2>1, FromStart DEF IInv, DataInv, Unread
  <2>3. k \in Nat \ {0} /\ h \in Nat \ {0} /\ l \in Nat /\ RequestsInv
    BY <1>1, CurrentType DEF IInv, DataInv
  <2>4. AreBytes(in_buf, k, Progress, l) /\ header \in {0, k} /\ k <= N + 1
    BY <2>1, <2>2 DEF PlaceInv
  <2>5. CASE header = 0 /\ in_buf = <<>>
    BY <2>5
  <2>6. CASE header = 0 /\ in_buf # <<>>
    <3>1. AreBytes(in_buf, k, 0, l) /\ l < h
      BY <2>1, <2>4, <2>6 DEF Progress, RestInv
    <3>2. k \in Requests
      <4>1. 1 \in 1..l /\ in_buf \in Seq(Byte)
        <5>1. in_buf \in Seq(Byte) /\ Len(in_buf) = l
          BY <2>4 DEF AreBytes
        <5>2. l # 0
          BY <2>6, <5>1, EmptySeq
        <5> QED BY <2>3, <5>1, <5>2
      <4>2. in_buf[1] = [msg |-> k, pos |-> 0 + 1]
        BY <3>1, <4>1 DEF AreBytes
      <4>3. in_buf[1] \in Byte
        BY <2>2, <4>1, LenProperties
      <4> QED BY <4>2, <4>3 DEF Byte
    <3>3. AreBytes(HeaderBytes(k), k, 0, h)
      BY <2>3, <3>2, BodyIsBytes
    <3>4. IsStrictPrefix(in_buf, HeaderBytes(k))
      BY <2>3, <3>1, <3>3, FewerArePrefix
    <3> QED BY <2>0, <2>6, <3>4
  <2>7. CASE header # 0
    <3>1. header = k /\ k \in Requests
      BY <1>1, <2>4, <2>7, Constants DEF IInv, DataInv, Requests
    <3>2. /\ AreBytes(BodyBytes(k), k, h, requests[k].length)
          /\ Size(k) = h + requests[k].length /\ requests[k].length \in Nat
      BY <2>3, <3>1, BodyIsBytes
    <3>3. AreBytes(in_buf, k, h, l) /\ h + l < Size(k)
      BY <2>1, <2>4, <2>7 DEF Progress, RestInv
    <3>4. l < requests[k].length
      BY <2>3, <3>2, <3>3
    <3>5. IsStrictPrefix(in_buf, BodyBytes(k))
      BY <2>3, <3>2, <3>3, <3>4, FewerArePrefix
    <3> QED BY <2>0, <3>1, <3>5
  <2> QED BY <2>5, <2>6, <2>7
<1> QED BY <1>1, InitIInv, NextIInv, InitStepInv, NextStepInv, InitTellInv, NextTellInv, PTL DEF Spec

(***************************************************************************)
(* Dialogue is implemented                                                 *)
(***************************************************************************)

\* What becomes of the protocol is decided last.
DecisionInv == pc \in {"idle", "loop", "catch"} => protocol_change = "unchanged"

LEMMA NextDecisionInv == DecisionInv /\ [Next]_vars => DecisionInv'
<1> SUFFICES ASSUME DecisionInv, [Next]_vars PROVE DecisionInv'
  OBVIOUS
<1>1. ASSUME NEW n \in 1..Len(outgoing), Receive(n) PROVE DecisionInv'
  BY <1>1 DEF Receive, DecisionInv
<1>2. CASE NoHeader \/ ContentMissing \/ ParseHeader \/ ParseFails
  BY <1>2 DEF NoHeader, ContentMissing, ParseHeader, ParseFails, DecisionInv
<1>3. CASE Handle
  BY <1>3 DEF Handle, DecisionInv
<1>4. CASE Catch
  BY <1>4, CatchEffects DEF DecisionInv
<1>5. CASE Return
  BY <1>5 DEF Return, DecisionInv
<1>6. CASE UNCHANGED vars
  BY <1>6 DEF vars, DecisionInv
<1> QED BY <1>1, <1>2, <1>3, <1>4, <1>5, <1>6 DEF Next, Round

\* Dialogue counts the bytes of the requests as the stream has them.
LEMMA Counts ==
    ASSUME RequestsInv
    PROVE  /\ Len(Stream) = Client!SumTo(Client!Sizes, N) /\ Len(Stream) \in Nat
           /\ \A i \in 1..(N + 1) : Before(i) = Client!SumTo(Client!Sizes, i - 1) /\ Before(i) \in Nat
           /\ \A i \in Requests : /\ Before(i + 1) = Client!SumTo(Client!Sizes, i)
                                  /\ Client!Sizes[i] = Size(i)
<1> DEFINE g == [j \in Requests |-> Size(j)]
<1>1. Client!Sizes = g
  BY DEF Client!Sizes, Requests, Size
<1>2. \A i \in Nat : Before(i) = Client!SumTo(g, i - 1)
  BY DEF Before, SumTo, Client!SumTo
<1>3. \A i \in Requests : g[i] = Size(i)
  OBVIOUS
<1> HIDE DEF g
<1>4. N \in Nat /\ N + 1 \in Nat /\ (N + 1) - 1 = N /\ \A i \in Requests : i + 1 \in Nat /\ (i + 1) - 1 = i
  BY Constants DEF Requests
<1>5. Len(Stream) = Before(N + 1) /\ Len(Stream) \in Nat
  BY StreamProperties, LenProperties
<1>6. \A i \in 1..(N + 1) : Before(i) \in Nat /\ i \in Nat
  BY BeforeGrows
<1> QED BY <1>1, <1>2, <1>3, <1>4, <1>5, <1>6

\* The connection is an HTTP connection as long as nothing was decided.
LEMMA StillHttp ==
    ASSUME StepInv, DecisionInv, pc \in {"loop", "catch"} \/ (pc = "idle" /\ protocol = "http")
    PROVE  /\ State = IF Refusing THEN "refusing" ELSE "http"
           /\ protocol = "http" /\ protocol_change = "unchanged"
<1>1. pc # "threw" /\ protocol_change = "unchanged" /\ protocol = "http"
  BY DEF StepInv, IdleInv, DecisionInv
<1> QED BY <1>1 DEF State

\* The request whose turn it is, if nothing is refused.
LEMMA TurnIsCurrent == ~Refusing => Client!Turn = Current
BY DEF Client!Turn, Current

LEMMA StartOfDialogue == Init => Client!Init
<1> SUFFICES ASSUME Init PROVE Client!Init
  OBVIOUS
<1>1. RequestsInv
  BY DEF Init, RequestsInv
<1>2. Len(outgoing) = Client!SumTo(Client!Sizes, N)
  BY <1>1, Counts DEF Init
<1>3. State = "http"
  BY DEF Init, State, Refusing
<1> QED BY <1>1, <1>2, <1>3 DEF Init, Client!Init, RequestsInv, Requests

\* While the client has something to send, it is some request's turn.
LEMMA TurnIsThere ==
    ASSUME IInv, PlaceInv, NEW n \in 1..Len(outgoing)
    PROVE  Current \in Requests
<1> DEFINE k == Current
<1>1. /\ k \in Nat \ {0} /\ k <= N + 1 /\ N \in Nat /\ RequestsInv
      /\ Len(Unread) \in Nat /\ Len(outgoing) \in Nat /\ Progress \in Nat
      /\ Before(k) + Progress + Len(Unread) + Len(outgoing) = Len(Stream)
  BY CurrentType, Constants, LenProperties DEF IInv, DataInv, PlaceInv, Progress
<1>2. Len(Stream) = Before(N + 1) /\ Len(Stream) \in Nat
  BY <1>1, StreamProperties, LenProperties
<1>3. k # N + 1
  <2> SUFFICES ASSUME k = N + 1 PROVE FALSE
    OBVIOUS
  <2>1. Before(k) = Len(Stream)
    BY <1>2
  <2> HIDE DEF k
  <2> QED BY <1>1, <1>2, <2>1
<1> QED BY <1>1, <1>3 DEF Requests

\* A byte of a later request is there exactly when more has arrived than the
\* request whose turn it is, and those before.
LEMMA ArrivalCounts ==
    ASSUME IInv, OutInv, PlaceInv, NEW n \in 1..Len(outgoing)
    PROVE  outgoing[n].msg > Current
             <=> Before(Current + 1) + (Len(outgoing) - n) < Len(Stream)
<1> DEFINE k == Current
           o == Len(outgoing)
           t == Len(Stream)
           q == (t - o) + n
           a == Before(k + 1)
           b == Before(k)
<1>1. RequestsInv /\ k \in Requests /\ N \in Nat /\ o \in Nat /\ n \in 1..o /\ t \in Nat /\ o <= t
  BY TurnIsThere, Constants, LenProperties, StreamProperties DEF IInv, DataInv, OutInv
<1>2. q \in 1..t /\ outgoing[n] = Stream[q]
  <2>1. outgoing[n] = Stream[q]
    BY DEF OutInv
  <2> HIDE DEF o, t
  <2> QED BY <1>1, <2>1
<1>3. outgoing[n].msg \in Nat
  <2>1. outgoing[n] \in Byte
    BY <1>1, LenProperties DEF IInv, DataInv
  <2> QED BY <1>1, <2>1 DEF Byte, Requests
<1>4. a \in Nat /\ b \in Nat /\ k \in Nat /\ b < q
  <2>1. k \in 1..(N + 1) /\ k + 1 \in 1..(N + 1) /\ k \in Nat
    BY <1>1 DEF Requests
  <2>2. a \in Nat /\ b \in Nat
    BY <1>1, <2>1, BeforeGrows
  <2>3. b + Progress + Len(Unread) + o = t /\ Progress \in Nat /\ Len(Unread) \in Nat
    BY CurrentType DEF PlaceInv, Progress
  <2> DEFINE p == Progress
             u == Len(Unread)
  <2>4. b + p + u + o = t /\ p \in Nat /\ u \in Nat
    BY <2>3
  <2> HIDE DEF k, o, t, a, b, p, u
  <2> QED BY <1>1, <2>1, <2>2, <2>4
<1>5. Stream[q].msg <= k => q <= a
  BY <1>1, <1>2, StreamAt
<1>6. q <= a => Stream[q].msg = k
  <2>1. q <= a => Stream[q] = [msg |-> k, pos |-> q - b]
    BY <1>1, <1>2, <1>4, StreamAt
  <2> QED BY <2>1
<1>7. q <= a <=> ~(a + (o - n) < t)
  <2> HIDE DEF k, o, t, a, b
  <2> QED BY <1>1, <1>4
<1>8. outgoing[n].msg <= k <=> q <= a
  <2> HIDE DEF k, o, t, a, b, q
  <2> QED BY <1>2, <1>4, <1>5, <1>6
<1> HIDE DEF k, o, t, a, b, q
<1>9. outgoing[n].msg > k <=> a + (o - n) < t
  BY <1>3, <1>4, <1>7, <1>8
<1> QED BY <1>9 DEF k, o, t, a

\* Bytes arrive.
LEMMA ArriveRefines ==
    ASSUME IInv, StepInv, TellInv, DecisionInv, NEW n \in 1..Len(outgoing), Receive(n)
    PROVE  Client!Arrive \/ Client!Garble
<1>1. /\ UNCHANGED <<requests, answers, protocol>> /\ pc = "idle" /\ protocol = "http"
      /\ pc' = "loop" /\ protocol_change' = "unchanged"
      /\ pipelined' = (pipelined \/ outgoing[n].msg > Len(answers) + 1)
      /\ outgoing' = From(outgoing, n)
  BY DEF Receive
<1>2. /\ outgoing \in Seq(Byte) /\ Len(outgoing) \in Nat /\ n \in Nat /\ n \in 0..Len(outgoing)
      /\ RequestsInv /\ N \in Nat
  BY Constants, LenProperties DEF IInv, DataInv
<1>3. Len(outgoing') = Len(outgoing) - n
  BY <1>1, <1>2, FromProperties
<1>4. /\ State = IF Refusing THEN "refusing" ELSE "http"
      /\ State' = IF Refusing THEN "refusing" ELSE "http"
  <2>1. Refusing' = Refusing
    BY <1>1, SameCurrent
  <2> QED BY <1>1, <2>1, StillHttp DEF State
<1>5. CASE pipelined
  <2>1. Len(outgoing') <= Len(outgoing)
    BY <1>2, <1>3
  <2>2. pipelined' = pipelined
    BY <1>1, <1>5 DEF IInv, ControlInv
  <2> QED BY <1>1, <1>4, <1>5, <2>1, <2>2 DEF Client!Garble
<1>6. CASE ~pipelined
  <2>0. ~Refusing /\ Current = Len(answers) + 1
    BY <1>1, <1>6 DEF TellInv, RefusedInv, Looping, Current
  <2>1. PlaceInv /\ OutInv
    BY <1>1, <1>6 DEF StepInv, CallInv, Settled
  <2>2. Current \in Requests /\ Current <= N
    BY <1>2, <2>1, TurnIsThere DEF Requests
  <2>3. Before(Current + 1) = Client!SumTo(Client!Sizes, Current) /\ Len(Stream) = Client!SumTo(Client!Sizes, N)
    BY <1>2, <2>2, Counts
  <2>4. pipelined' = (Client!SumTo(Client!Sizes, Current) + Len(outgoing') < Client!SumTo(Client!Sizes, N))
    <3>1. outgoing[n].msg > Current
            <=> Before(Current + 1) + (Len(outgoing) - n) < Len(Stream)
      BY <2>1, ArrivalCounts
    <3> QED BY <1>1, <1>3, <1>6, <2>0, <2>3, <3>1
  <2>5. Len(outgoing) > 0 /\ Len(outgoing') \in 0..(Len(outgoing) - 1)
    BY <1>2, <1>3
  <2> QED BY <1>1, <1>4, <1>6, <2>0, <2>2, <2>4, <2>5 DEF Client!Arrive, Client!Turn
<1> QED BY <1>5, <1>6

\* Nothing that the client can see changes.
LEMMA Unseen ==
    ASSUME IInv, StepInv, DecisionInv,
           NoHeader \/ ParseHeader \/ ParseFails \/ ContentMissing \/ Return \/ UNCHANGED vars
    PROVE  UNCHANGED Client!dialogueVars
<1>1. UNCHANGED <<requests, outgoing, answers, pipelined>>
  BY DEF NoHeader, ParseHeader, ParseFails, ContentMissing, Return, connVars, vars
<1>0. Refusing' = Refusing
  BY <1>1, SameCurrent
<1>2. UNCHANGED State
  <2>1. CASE NoHeader \/ ParseHeader \/ ParseFails \/ ContentMissing
    <3>1. pc = "loop" /\ UNCHANGED <<protocol, protocol_change>>
      BY <2>1 DEF NoHeader, ParseHeader, ParseFails, ContentMissing, connVars
    <3>2. pc' # "threw"
      <4>1. CASE NoHeader \/ ContentMissing
        BY <4>1 DEF NoHeader, ContentMissing, Leave
      <4>2. CASE ParseHeader
        <5>1. CASE consumed' > Len(received)
          BY <4>2, <5>1 DEF ParseHeader, Throw
        <5>2. CASE ~(consumed' > Len(received))
          BY <3>1, <4>2, <5>2 DEF ParseHeader
        <5> QED BY <5>1, <5>2
      <4>3. CASE ParseFails
        BY <4>3 DEF ParseFails, Throw
      <4> QED BY <2>1, <4>1, <4>2, <4>3
    <3> QED BY <1>0, <3>1, <3>2 DEF State
  <2>2. CASE Return
    <3>1. /\ pc = "return" /\ pc' = "idle" /\ protocol_change' = "unchanged"
          /\ protocol' = IF protocol_change = "unchanged" THEN protocol ELSE protocol_change
      BY <2>2 DEF Return
    <3>2. protocol_change \in {"unchanged", "websocket", "none"}
      BY DEF IInv, ControlInv
    <3>3. CASE protocol_change = "unchanged"
      BY <1>0, <3>1, <3>3 DEF State
    <3>4. CASE protocol_change # "unchanged"
      <4>1. State = protocol_change
        BY <3>1, <3>4 DEF State
      <4>2. protocol' = protocol_change /\ protocol' # "http"
        BY <3>1, <3>2, <3>4
      <4>3. State' = protocol'
        BY <3>1, <4>2 DEF State
      <4> QED BY <4>1, <4>2, <4>3
    <3> QED BY <3>3, <3>4
  <2>3. CASE UNCHANGED vars
    BY <1>0, <2>3 DEF vars, State
  <2> QED BY <2>1, <2>2, <2>3
<1> QED BY <1>1, <1>2 DEF Client!dialogueVars

\* An error of the header is caught and answered.
LEMMA CatchRefines ==
    ASSUME IInv, StepInv, TellInv, DecisionInv, Catch
    PROVE  Client!Refuse \/ Client!Repeat \/ Client!Garble \/ UNCHANGED Client!dialogueVars
<1>1. /\ UNCHANGED <<requests, outgoing, pipelined, protocol>> /\ pc = "catch"
      /\ protocol_change' = IF error >= 500 THEN "none" ELSE protocol_change
      /\ pc' = IF error >= 500 THEN "return" ELSE "loop"
  BY CatchEffects
<1>2. /\ State = IF Refusing THEN "refusing" ELSE "http"
      /\ protocol = "http" /\ protocol_change = "unchanged"
  BY <1>1, StillHttp
<1>3. State' = IF error >= 500 THEN "none" ELSE IF Refusing' THEN "refusing" ELSE "http"
  <2>1. CASE error >= 500
    <3>1. protocol_change' = "none" /\ pc' = "return"
      BY <1>1, <2>1
    <3> QED BY <2>1, <3>1 DEF State
  <2>2. CASE ~(error >= 500)
    <3>1. protocol_change' = "unchanged" /\ pc' = "loop" /\ protocol' = "http"
      BY <1>1, <1>2, <2>2
    <3> QED BY <2>2, <3>1 DEF State
  <2> QED BY <2>1, <2>2
<1>4. CASE pipelined
  <2>1. Len(outgoing') <= Len(outgoing)
    BY <1>1, LenProperties DEF IInv, DataInv
  <2>2. \/ UNCHANGED answers
        \/ Len(answers') = Len(answers) + 1 /\ SubSeq(answers', 1, Len(answers)) = answers
    <3> DEFINE e == [code |-> error, to |-> Whose, body |-> <<>>, opened |-> FALSE]
    <3>1. answers' = Append(answers, e) \/ answers' = answers
      BY CatchEffects
    <3> HIDE DEF e
    <3> QED BY <3>1, AnswersGrow DEF IInv
  <2>3. State \in {"http", "refusing"} /\ State' \in {"none", "refusing", "http"}
    BY <1>2, <1>3
  <2> QED BY <1>1, <1>4, <2>1, <2>2, <2>3 DEF Client!Garble
<1>5. CASE ~pipelined
  <2> DEFINE k == Current
  <2>1. /\ k \in Requests /\ requests[k].kind \in Broken
        /\ error = Outcome(requests[k].kind)
        /\ IF Refusing THEN \/ answers' = Append(answers, answers[Len(answers)])
                            \/ answers' = answers
           ELSE answers' = Append(answers, Due(k))
        /\ IF requests[k].kind = "malformed" THEN error < 500 ELSE error >= 500 /\ ~Refusing'
    BY <1>5, CatchTells
  <2>2. error \in Nat
    BY DEF IInv, ControlInv
  <2>3. CASE Refusing
    <3>1. ~(error >= 500)
      BY <2>1, <2>2, <2>3, Malformed
    <3>2. CASE answers' = answers
      <4>1. Refusing'
        BY <1>1, <2>3, <3>2, SameCurrent
      <4> QED BY <1>1, <1>2, <1>3, <2>3, <3>1, <3>2, <4>1 DEF Client!dialogueVars
    <3>3. CASE answers' = Append(answers, answers[Len(answers)])
      <4>1. Refusing'
        BY <1>1, <1>5, <2>3, <3>3, AnswerAgain DEF StepInv
      <4> QED BY <1>1, <1>2, <1>3, <1>5, <2>3, <3>1, <3>3, <4>1 DEF Client!Repeat
    <3> QED BY <2>1, <2>3, <3>2, <3>3
  <2>4. CASE ~Refusing
    <3>1. /\ RequestsInv /\ Before(k) + HeaderLength + Len(outgoing) <= Len(Stream)
      BY <1>1, <1>5 DEF TellInv, RefusalInv, IInv, DataInv
    <3>2. k <= N /\ k \in 1..(N + 1)
      BY <2>1, Constants DEF Requests
    <3>3. /\ Before(k) = Client!SumTo(Client!Sizes, k - 1)
          /\ Len(Stream) = Client!SumTo(Client!Sizes, N)
      BY <3>1, <3>2, Counts
    <3>4. Client!Turn = k /\ Client!Kind = requests[k].kind
      BY <2>4, TurnIsCurrent DEF Client!Kind
    <3>5. Client!Here(HeaderLength) /\ Client!Kind \in Client!Broken /\ Client!Turn <= N
      BY <2>1, <3>1, <3>2, <3>3, <3>4 DEF Client!Here, Client!Broken, Broken
    <3>6. Due(k) = Client!Said(<<>>)
      <4>1. (IF requests[k].kind \in Broken THEN <<>> ELSE BodyBytes(k)) = <<>>
        BY <2>1
      <4> HIDE DEF k
      <4> QED BY <3>4, <4>1, Zenon DEF Due, Client!Said, HalfOpen, Client!HalfOpen
    <3>7. answers' = Append(answers, Client!Said(<<>>))
      BY <2>1, <2>4, <3>6
    <3>8. Refusing' <=> requests[k].kind = "malformed"
      BY <1>1, <1>5, <2>1, <2>4, AnswerDue, CatchEffects DEF StepInv
    <3>9. State' = IF Outcome(Client!Kind) >= 500 THEN "none" ELSE "refusing"
      BY <1>3, <2>1, <2>2, <3>4, <3>8
    <3> HIDE DEF k
    <3> QED BY <1>1, <1>2, <1>5, <2>4, <3>5, <3>7, <3>9 DEF Client!Refuse
  <2> QED BY <2>3, <2>4
<1> QED BY <1>4, <1>5

\* Dialogue's body of a request is the one that the client sends.
LEMMA SameBody ==
    ASSUME RequestsInv, Current \in Requests, ~Refusing
    PROVE  Client!MyBody = BodyBytes(Current)
<1> DEFINE l == requests[Current].length
           h == HeaderLength
<1>1. l \in Nat /\ h \in Nat
  BY BodyIsBytes, HttpAssumption DEF HttpAssumption
<1>2. (h + l) - (h + 1) + 1 = l /\ \A p \in 1..l : (h + 1) + p - 1 = h + p
  <2> HIDE DEF l, h
  <2> QED BY <1>1
<1> QED BY <1>2, TurnIsCurrent DEF Client!MyBody, BodyBytes, Bytes

\* Where a request leads the connection.
LEMMA ChangeIsAfter ==
    ASSUME NEW kind, NEW change \in Change(kind, Outcome(kind))
    PROVE  (IF change # "unchanged" THEN change ELSE "http") \in Client!After(kind)
<1>0. kind = "old" => Outcome(kind) = 200
  <2>1. 200 \in Reasons
    BY DEF Reasons
  <2> QED BY <2>1 DEF Outcome, Status
<1>1. CASE Outcome(kind) = 101
  <2>1. change = "websocket" /\ Client!After(kind) = {"websocket"}
    BY <1>0, <1>1 DEF Change, Client!After
  <2> QED BY <2>1
<1>2. CASE Outcome(kind) # 101 /\ Outcome(kind) >= 500
  <2>1. change = "none" /\ Client!After(kind) = {"none"}
    BY <1>0, <1>2 DEF Change, Client!After
  <2> QED BY <2>1
<1>3. CASE Outcome(kind) # 101 /\ ~(Outcome(kind) >= 500) /\ kind = "old"
  <2>1. change \in {"unchanged", "none"} /\ Client!After(kind) = {"http", "none"}
    BY <1>3 DEF Change, Client!After
  <2> QED BY <2>1
<1>4. CASE Outcome(kind) # 101 /\ ~(Outcome(kind) >= 500) /\ kind # "old"
  <2>1. change = "unchanged" /\ Client!After(kind) = {"http"}
    BY <1>4 DEF Change, Client!After
  <2> QED BY <2>1
<1> QED BY <1>1, <1>2, <1>3, <1>4

\* A request is handled.
LEMMA HandleRefines ==
    ASSUME IInv, StepInv, TellInv, DecisionInv, Handle
    PROVE  Client!Answer \/ Client!Die \/ Client!Garble
<1> DEFINE kind == requests[header].kind
           l == requests[header].length
           code == Outcome(kind)
           e == [code |-> code, to |-> header, body |-> SubSeq(received, 1, l),
                 opened |-> kind \in HalfOpen]
<1>1. /\ UNCHANGED <<requests, outgoing, protocol, pipelined>> /\ pc = "loop" /\ header # 0
      /\ code = 0 => answers' = answers
      /\ code # 0 => answers' = Append(answers, e)
      /\ protocol_change' \in Change(kind, code)
      /\ pc' = IF code = 0 THEN "threw"
               ELSE IF protocol_change' = "unchanged" THEN "loop" ELSE "return"
  <2>1. /\ protocol_change' \in Change(kind, code)
        /\ pc' = IF code = 0 THEN "threw"
                 ELSE IF protocol_change' = "unchanged" THEN "loop" ELSE "return"
    BY DEF Handle
  <2> QED BY <2>1, HandleEffects
<1>2. /\ State = IF Refusing THEN "refusing" ELSE "http"
      /\ protocol' = "http" /\ kind \notin Broken /\ RequestsInv
  BY <1>1, StillHttp DEF TellInv, IInv, DataInv
<1>3. /\ code = 0 => State' = "threw"
      /\ code # 0 => State' = IF protocol_change' # "unchanged" THEN protocol_change'
                              ELSE IF Refusing' THEN "refusing" ELSE "http"
  <2> HIDE DEF code
  <2> QED BY <1>1, <1>2 DEF State
<1>4. CASE pipelined
  <2>1. State \in {"http", "refusing"} /\ State' \in {"http", "refusing", "websocket", "none", "threw"}
    <3>1. protocol_change' \in {"unchanged", "websocket", "none"}
      BY <1>1, Changes
    <3> HIDE DEF code
    <3> QED BY <1>2, <1>3, <3>1
  <2>2. \/ UNCHANGED answers
        \/ Len(answers') = Len(answers) + 1 /\ SubSeq(answers', 1, Len(answers)) = answers
    <3> HIDE DEF code, e
    <3> QED BY <1>1, AnswersGrow DEF IInv
  <2>3. Len(outgoing') <= Len(outgoing)
    BY <1>1, LenProperties DEF IInv, DataInv
  <2> QED BY <1>1, <1>4, <2>1, <2>2, <2>3 DEF Client!Garble
<1>5. CASE ~pipelined
  <2> DEFINE k == Current
  <2>0. ~Refusing /\ State = "http"
    BY <1>2, <1>5, HandleAnswers
  <2>1. /\ header = k /\ k \in Requests /\ PlaceInv /\ Len(Unread) = l
        /\ SubSeq(received, 1, l) = BodyBytes(k)
    BY <1>5, HandleTurn
  <2>2. k <= N /\ k \in 1..(N + 1)
    BY <2>1, Constants DEF Requests
  <2>3. /\ Before(k) = Client!SumTo(Client!Sizes, k - 1) /\ Before(k) \in Nat
        /\ Len(Stream) = Client!SumTo(Client!Sizes, N)
        /\ Client!Sizes[k] = Size(k)
    BY <1>2, <2>1, <2>2, Counts
  <2>4. Client!Here(Client!Sizes[Client!Turn])
    <3>1. Before(k) + HeaderLength + l + Len(outgoing) = Len(Stream) /\ Size(k) = HeaderLength + l
      BY <1>1, <2>1 DEF PlaceInv, Progress, Size
    <3>2. l \in Nat /\ HeaderLength \in Nat /\ Len(outgoing) \in Nat /\ Len(Stream) \in Nat
      BY <1>2, <2>1, BodyIsBytes, CurrentType, LenProperties, StreamProperties DEF IInv, DataInv
    <3>3. Before(k) + Size(k) + Len(outgoing) <= Len(Stream)
      <4> HIDE DEF k, l
      <4> QED BY <2>3, <3>1, <3>2
    <3>4. Client!Turn = k
      BY <2>0, TurnIsCurrent
    <3> HIDE DEF k
    <3> QED BY <2>3, <3>3, <3>4 DEF Client!Here
  <2>5. Client!Kind = kind /\ Client!Turn = k /\ Client!Turn <= N /\ Client!MyBody = BodyBytes(k)
    BY <1>2, <2>0, <2>1, <2>2, SameBody, TurnIsCurrent DEF Client!Kind
  <2>6. CASE code = 0
    <3>1. State' = "threw" /\ answers' = answers
      BY <1>1, <1>3, <2>6
    <3> HIDE DEF k, kind
    <3> QED BY <1>1, <1>2, <1>5, <2>0, <2>4, <2>5, <2>6, <3>1 DEF Client!Die, Client!Broken, Broken
  <2>7. CASE code # 0
    <3>1. State' \in Client!After(kind)
      <4>1. ~Refusing'
        BY <1>5, <2>7, HandleAnswers
      <4> QED BY <1>1, <1>3, <2>7, <4>1, ChangeIsAfter
    <3>2. answers' = Append(answers, Client!Said(Client!MyBody))
      <4>1. answers' = Append(answers, e)
        BY <1>1, <2>7
      <4>2. e = Client!Said(Client!MyBody)
        <5>1. /\ code = Outcome(Client!Kind) /\ header = Client!Turn
              /\ SubSeq(received, 1, l) = Client!MyBody
              /\ (kind \in HalfOpen) = (Client!Kind \in Client!HalfOpen)
          BY <2>1, <2>5 DEF HalfOpen, Client!HalfOpen
        <5> HIDE DEF code, kind, l
        <5> QED BY <5>1, Zenon DEF Client!Said
      <4> HIDE DEF e
      <4> QED BY <4>1, <4>2
    <3> HIDE DEF k, kind
    <3> QED BY <1>1, <1>2, <1>5, <2>0, <2>4, <2>5, <2>7, <3>1, <3>2
            DEF Client!Answer, Client!Broken, Broken
  <2> QED BY <2>6, <2>7
<1> QED BY <1>4, <1>5

\* The dialogue is implemented: with a buffer, a kept header and a count of what
\* was consumed, and in whatever pieces bytes arrive, the connection answers one
\* request at a time, each when all of it is there, after a malformed header its
\* refusal and nothing else, and nothing after it left HTTP.
THEOREM DialogueRefined == Spec => ImplementsDialogue
<1>1. Init => IInv /\ StepInv /\ TellInv /\ DecisionInv /\ Client!Init
  <2>1. Init => DecisionInv
    BY DEF Init, DecisionInv
  <2> QED BY <2>1, InitIInv, InitStepInv, InitTellInv, StartOfDialogue
<1>2. IInv /\ StepInv /\ TellInv /\ DecisionInv /\ [Next]_vars => [Client!Next]_(Client!dialogueVars)
  <2> SUFFICES ASSUME IInv, StepInv, TellInv, DecisionInv, [Next]_vars
               PROVE  Client!Next \/ UNCHANGED Client!dialogueVars
    OBVIOUS
  <2>1. ASSUME NEW n \in 1..Len(outgoing), Receive(n) PROVE Client!Next
    BY <2>1, ArriveRefines DEF Client!Next
  <2>2. CASE Catch
    BY <2>2, CatchRefines DEF Client!Next
  <2>3. CASE Handle
    BY <2>3, HandleRefines DEF Client!Next
  <2>4. CASE NoHeader \/ ParseHeader \/ ParseFails \/ ContentMissing \/ Return \/ UNCHANGED vars
    BY <2>4, Unseen
  <2> QED BY <2>1, <2>2, <2>3, <2>4 DEF Next, Round
<1> QED BY <1>1, <1>2, NextIInv, NextStepInv, NextTellInv, NextDecisionInv, PTL
        DEF Spec, ImplementsDialogue, Client!Spec

=============================================================================
