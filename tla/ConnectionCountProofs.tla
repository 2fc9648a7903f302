------------------------ MODULE ConnectionCountProofs ------------------------
(***************************************************************************)
(* Proof that getOutBufferSize tells the truth modulo 2^64: outBufferSize  *)
(* follows the queue through write and operator(), although it is brought  *)
(* up to date only when flush_job has returned.                            *)
(***************************************************************************)
EXTENDS ConnectionProofs, SumProofs

LeftOf(j) == j.size - j.sent

\* What is left of each job in the queue: what Backlog adds up.
Lefts == [k \in DOMAIN transmit_jobs |-> transmit_jobs[k].size - transmit_jobs[k].sent]

\* What operator()'s flush_job has sent of the first job and not accounted for.
Owed == IF ioPc = "outSend" THEN toSend - LeftOf(Head(transmit_jobs)) ELSE 0

\* The number a, counted by the size_t b.
Wrapped(a, b) == \E q \in Nat : a = b + q * Word

CountInv ==
    ~Dead => /\ ioPc = "outSend" => LeftOf(Head(transmit_jobs)) <= toSend
             /\ Wrapped(Backlog + Owed, outBufferSize)

(***************************************************************************)
(* Arithmetic modulo Word                                                  *)
(***************************************************************************)

LEMMA WrappedAdd ==
    ASSUME NEW a \in Nat, NEW b \in 0..(Word - 1), Wrapped(a, b),
           NEW n \in 0..(Word - 1)
    PROVE  Wrapped(a + n, AddW(b, n))
<1>1. PICK q \in Nat : a = b + q * Word
  BY DEF Wrapped
<1>2. Word \in Nat
  BY Constants
<1>3. q * Word \in Nat /\ (q + 1) * Word = q * Word + Word /\ q + 1 \in Nat
  BY <1>2
<1>4. CASE b + n < Word
  <2>1. a + n = AddW(b, n) + q * Word
    BY <1>1, <1>2, <1>3, <1>4 DEF AddW
  <2> QED
    BY <2>1 DEF Wrapped
<1>5. CASE ~(b + n < Word)
  <2>1. a + n = AddW(b, n) + (q + 1) * Word
    BY <1>1, <1>2, <1>3, <1>5 DEF AddW
  <2> QED
    BY <1>3, <2>1 DEF Wrapped
<1> QED
  BY <1>4, <1>5

LEMMA WrappedSub ==
    ASSUME NEW a \in Nat, NEW b \in 0..(Word - 1), NEW n \in 0..(Word - 1),
           Wrapped(a + n, b)
    PROVE  Wrapped(a, SubW(b, n))
<1>1. PICK q \in Nat : a + n = b + q * Word
  BY DEF Wrapped
<1>2. Word \in Nat
  BY Constants
<1>3. CASE n <= b
  <2>1. a = SubW(b, n) + q * Word
    <3>1. q * Word \in Nat
      BY <1>2
    <3> QED
      BY <1>1, <1>3, <3>1 DEF SubW
  <2> QED
    BY <2>1 DEF Wrapped
<1>4. CASE ~(n <= b)
  <2>1. q # 0
    BY <1>1, <1>2, <1>4
  <2>2. PICK p \in Nat : q = p + 1
    <3>1. q - 1 \in Nat /\ q = (q - 1) + 1
      BY <2>1
    <3> QED
      BY <3>1
  <2>3. p * Word \in Nat /\ (p + 1) * Word = p * Word + Word
    BY <1>2, <2>2
  <2>4. a = SubW(b, n) + p * Word
    BY <1>1, <1>2, <1>4, <2>2, <2>3 DEF SubW
  <2> QED
    BY <2>4 DEF Wrapped
<1> QED
  BY <1>3, <1>4

LEMMA Remainder ==
    ASSUME NEW w \in Nat \ {0}, NEW q \in Nat, NEW b \in Nat, b < w
    PROVE  (q * w + b) % w = b
OBVIOUS

\* A size_t that counts a number is that number modulo Word.
LEMMA WrappedIsModulo ==
    ASSUME NEW a \in Nat, NEW b \in 0..(Word - 1), Wrapped(a, b)
    PROVE  b = a % Word
<1>1. PICK q \in Nat : a = b + q * Word
  BY DEF Wrapped
<1>2. Word \in Nat \ {0} /\ b \in Nat /\ b < Word
  BY Constants
<1>3. q * Word \in Nat
  BY <1>2
<1>4. a = q * Word + b
  BY <1>1, <1>2, <1>3
<1> QED
  BY <1>2, <1>4, Remainder

(***************************************************************************)
(* The queue and its sum                                                   *)
(***************************************************************************)

\* While the socket works no job in the queue, nor the one being written, has
\* sent more than it has.
LEMMA LeftRange ==
    ASSUME IInv, ~Dead
    PROVE  /\ \A k \in Queued : /\ Lefts[k] \in 0..(Word - 1)
                                /\ Lefts[k] = LeftOf(transmit_jobs[k])
           /\ writing # "no" => LeftOf(job) \in 0..(Word - 1)
<1>1. ASSUME NEW j \in Jobs, j.id \in Messages, j.size = size[j.id], j.sent = wire[j.id]
      PROVE  LeftOf(j) \in 0..(Word - 1)
  <2>1. j.sent \in 0..(Word - 1) /\ j.size \in 0..(Word - 1)
    BY JobRange
  <2>2. wire[j.id] <= size[j.id]
    BY <1>1 DEF IInv, DataInv, StreamInOrder
  <2>3. j.sent <= j.size /\ Word \in Nat
    BY <1>1, <2>2, Constants
  <2> QED
    BY <2>1, <2>3 DEF LeftOf
<1>2. ASSUME NEW k \in Queued
      PROVE  Lefts[k] \in 0..(Word - 1) /\ Lefts[k] = LeftOf(transmit_jobs[k])
  <2> DEFINE j == transmit_jobs[k]
  <2>1. j \in Jobs
    BY <1>2, Domains DEF IInv
  <2>2. j.id \in Messages /\ j.size = size[j.id] /\ j.sent = wire[j.id]
    BY <1>2 DEF IInv, DataInv, QueueInv, SentInv
  <2>3. Lefts[k] = LeftOf(j)
    BY <1>2 DEF Lefts, LeftOf, Queued
  <2> QED
    BY <1>1, <2>1, <2>2, <2>3
<1>3. ASSUME writing # "no" PROVE LeftOf(job) \in 0..(Word - 1)
  <2>1. job \in Jobs
    BY DEF IInv, TypeOK, OutputTypes
  <2>2. job.id \in Messages /\ job.size = size[job.id] /\ job.sent = wire[job.id]
    BY <1>3 DEF IInv, DataInv, QueueInv, SentInv
  <2> QED
    BY <1>1, <2>1, <2>2
<1> QED
  BY <1>2, <1>3

LEMMA BacklogNat ==
    ASSUME IInv, ~Dead
    PROVE  /\ Backlog \in Nat /\ Backlog = SumTo(Lefts, Len(transmit_jobs))
           /\ Len(transmit_jobs) \in Nat /\ Queued = 1..Len(transmit_jobs)
           /\ \A k \in 1..Len(transmit_jobs) : Lefts[k] \in Nat
<1>1. Len(transmit_jobs) \in Nat /\ Queued = 1..Len(transmit_jobs)
  BY Domains DEF IInv
<1>2. \A k \in 1..Len(transmit_jobs) : Lefts[k] \in Nat
  <2>1. 0..(Word - 1) \subseteq Nat
    BY Constants
  <2> QED
    BY <1>1, <2>1, LeftRange
<1>3. Backlog = SumTo(Lefts, Len(transmit_jobs))
  BY DEF Backlog, Lefts
<1>4. Backlog \in Nat
  <2>1. Len(transmit_jobs) \in 0..Len(transmit_jobs)
    BY <1>1
  <2> QED
    BY <1>1, <1>2, <1>3, <2>1, SumNat
<1> QED
  BY <1>1, <1>2, <1>3, <1>4

LEMMA CountTypes ==
    ASSUME IInv
    PROVE  outBufferSize \in 0..(Word - 1) /\ toSend \in 0..(Word - 1)
BY DEF IInv, TypeOK, OutputTypes

(***************************************************************************)
(* The steps                                                               *)
(***************************************************************************)

\* Steps that touch neither the queue nor the counter, and that flush_job of
\* operator() does not see.
LEMMA CountQuiet ==
    ASSUME CountInv, Dead => Dead', UNCHANGED <<transmit_jobs, outBufferSize>>,
           \/ UNCHANGED <<ioPc, toSend>>
           \/ ioPc # "outSend" /\ ioPc' # "outSend"
    PROVE  CountInv'
BY DEF CountInv, Backlog, Owed, Wrapped, LeftOf

\* operator() takes the first job: nothing of it is owed yet.
LEMMA CountOutHead ==
    ASSUME IInv, CountInv, OutHead
    PROVE  CountInv'
<1> SUFFICES ASSUME ~Dead' PROVE CountInv'
  BY DEF CountInv
<1>1. /\ ~Dead /\ transmit_jobs # <<>> /\ ioPc = "outHead" /\ ioPc' = "outSend"
      /\ UNCHANGED <<transmit_jobs, outBufferSize>>
      /\ toSend' = SubW(Head(transmit_jobs).size, Head(transmit_jobs).sent)
  BY DEF OutHead, Dead, envVars, outVars
<1> DEFINE h == Head(transmit_jobs)
<1>2. /\ h \in Jobs /\ h = transmit_jobs[1] /\ 1 \in Queued
  BY <1>1, HeadOfQueue DEF IInv, Queued
<1>3. /\ h.sent \in 0..(Word - 1) /\ h.size \in 0..(Word - 1)
      /\ LeftOf(h) \in 0..(Word - 1)
  BY <1>1, <1>2, JobRange, LeftRange
<1>4. toSend' = LeftOf(h) /\ LeftOf(h) \in Nat
  <2>1. Word \in Nat
    BY Constants
  <2> QED
    BY <1>1, <1>3, <2>1 DEF SubW, LeftOf
<1>5. Owed = 0 /\ Owed' = 0 /\ Backlog' = Backlog
  BY <1>1, <1>4 DEF Owed, Backlog, LeftOf
<1>6. Wrapped(Backlog, outBufferSize)
  BY <1>1, <1>5, BacklogNat DEF CountInv
<1>7. Wrapped(Backlog + Owed, outBufferSize)'
  BY <1>1, <1>5, <1>6, BacklogNat DEF Wrapped
<1> QED
  BY <1>1, <1>4, <1>7 DEF CountInv, LeftOf

\* flush_job of operator() sends n bytes of the first job: what is left of it
\* becomes less by what is owed more.
LEMMA CountOutTaken ==
    ASSUME IInv, CountInv, OutTaken
    PROVE  CountInv'
<1> SUFFICES ASSUME ~Dead' PROVE CountInv'
  BY DEF CountInv
<1> DEFINE h == Head(transmit_jobs)
<1>1. /\ ~Dead /\ transmit_jobs # <<>> /\ ioPc = "outSend" /\ ioPc' = "outSend"
      /\ UNCHANGED <<toSend, outBufferSize>>
  BY DEF OutTaken, Dead, ioVars, IInv, LockInv
<1>2. /\ h \in Jobs /\ h = transmit_jobs[1] /\ 1 \in Queued
      /\ Len(transmit_jobs) \in Nat \ {0}
  BY <1>1, HeadOfQueue DEF IInv, Queued
<1>3. PICK n \in 1..Room : SendTaken(h, n)
                           /\ transmit_jobs' = [transmit_jobs EXCEPT ![1] = AfterTaken(transmit_jobs[1], n)]
  BY DEF OutTaken
<1>4. n \in 1..(h.size - h.sent) /\ Unfinished(h)
  BY <1>2, <1>3, SendTakenTypes DEF IInv, SendTaken
<1> DEFINE a == AfterTaken(h, n)
<1>5. a \in Jobs /\ a.size = h.size /\ a.sent = h.sent + n
  BY <1>2, <1>4, FlushStep
<1>6. /\ DOMAIN transmit_jobs' = DOMAIN transmit_jobs /\ transmit_jobs'[1] = a
      /\ \A k \in DOMAIN transmit_jobs : k # 1 => transmit_jobs'[k] = transmit_jobs[k]
      /\ transmit_jobs' \in Seq(Jobs)
  BY <1>1, <1>2, <1>3, <1>5, HeadReplaced DEF IInv
<1>7. Len(transmit_jobs') = Len(transmit_jobs) /\ Head(transmit_jobs') = a
  BY <1>2, <1>6
<1> DEFINE m == Len(transmit_jobs) - 1
           rest == [k \in 1..m |-> Lefts[k + 1]]
<1>8. /\ m \in Nat /\ Len(transmit_jobs) = m + 1
      /\ DOMAIN transmit_jobs = 1..(m + 1)
      /\ \A k \in 1..m : rest[k] = Lefts[k + 1]
  BY <1>2
<1> HIDE DEF m, rest
<1>9. Lefts[1] = LeftOf(h) /\ Lefts'[1] = LeftOf(a)
  BY <1>2, <1>6 DEF Lefts, LeftOf, Queued
<1>10. \A k \in 1..(m + 1) : Lefts[k] \in Nat
  BY <1>1, <1>8, BacklogNat
<1>11. Backlog = Lefts[1] + SumTo(rest, m) /\ Lefts[1] \in Nat /\ SumTo(rest, m) \in Nat
  <2>1. Backlog = SumTo(Lefts, m + 1)
    BY <1>1, <1>8, BacklogNat
  <2>2. /\ SumTo(Lefts, m + 1) = Lefts[1] + SumTo(rest, m)
        /\ Lefts[1] \in Nat /\ SumTo(rest, m) \in Nat
    <3>1. m \in Nat /\ \A k \in 1..m : rest[k] = Lefts[k + 1]
      BY <1>8
    <3> HIDE DEF Lefts
    <3> QED
      BY <1>10, <3>1, SumHead
  <2> QED
    BY <2>1, <2>2
<1>12. LeftOf(a) \in Nat => Backlog' = Lefts'[1] + SumTo(rest, m)
  <2> HAVE LeftOf(a) \in Nat
  <2>1. \A k \in 1..m : k + 1 \in 1..(m + 1) /\ k + 1 # 1
    BY <1>8
  <2>2. \A k \in 1..m : Lefts'[k + 1] = Lefts[k + 1]
    BY <1>6, <1>8, <2>1 DEF Lefts
  <2>3. \A k \in 1..m : rest[k] = Lefts'[k + 1]
    BY <1>8, <2>2
  <2>4. \A k \in 1..(m + 1) : Lefts'[k] \in Nat
    <3>1. ASSUME NEW k \in 1..(m + 1), k # 1 PROVE Lefts'[k] = Lefts[k]
      BY <1>6, <1>8, <3>1 DEF Lefts
    <3> QED
      BY <1>9, <1>10, <3>1
  <2>5. Backlog' = SumTo(Lefts', m + 1)
    BY <1>7, <1>8 DEF Backlog, Lefts
  <2>6. SumTo(Lefts', m + 1) = Lefts'[1] + SumTo(rest, m)
    BY <1>8, <2>3, <2>4, SumHead
  <2> QED
    BY <2>5, <2>6
<1>13. /\ h.sent \in Nat /\ h.size \in Nat /\ n \in Nat /\ toSend \in Nat
       /\ LeftOf(a) = LeftOf(h) - n /\ LeftOf(a) <= LeftOf(h) /\ LeftOf(h) \in Nat
       /\ LeftOf(a) \in Nat
  <2>1. h.sent \in 0..(Word - 1) /\ h.size \in 0..(Word - 1) /\ toSend \in 0..(Word - 1)
    BY <1>2, JobRange, CountTypes
  <2>2. Word \in Nat
    BY Constants
  <2> QED
    BY <1>4, <1>5, <1>9, <1>11, <2>1, <2>2 DEF LeftOf
<1>14. LeftOf(h) <= toSend /\ Wrapped(Backlog + Owed, outBufferSize)
  BY <1>1 DEF CountInv
<1>15. Owed = toSend - LeftOf(h) /\ Owed' = toSend - LeftOf(a)
  BY <1>1, <1>7 DEF Owed, LeftOf
<1> HIDE DEF h, a
<1>16. Backlog' + Owed' = Backlog + Owed /\ LeftOf(a) <= toSend
  BY <1>9, <1>11, <1>12, <1>13, <1>14, <1>15
<1> QED
  BY <1>1, <1>7, <1>14, <1>16 DEF CountInv, Wrapped, LeftOf

\* What flush_job's caller takes off outBufferSize is what was owed.
LEMMA AccountedIsOwed ==
    ASSUME IInv, CountInv, ~Dead, ioPc = "outSend",
           outBufferSize' = Accounted(Head(transmit_jobs))
    PROVE  /\ outBufferSize' \in 0..(Word - 1)
           /\ Wrapped(Backlog, outBufferSize')
<1> DEFINE h == Head(transmit_jobs)
<1>1. transmit_jobs # <<>>
  BY DEF IInv, LockInv
<1>2. h \in Jobs /\ h = transmit_jobs[1] /\ 1 \in Queued
  BY <1>1, HeadOfQueue DEF IInv, Queued
<1>3. /\ h.sent \in 0..(Word - 1) /\ h.size \in 0..(Word - 1)
      /\ LeftOf(h) \in 0..(Word - 1) /\ LeftOf(h) <= toSend
  BY <1>2, JobRange, LeftRange DEF CountInv
<1>4. Owed = toSend - LeftOf(h) /\ Wrapped(Backlog + Owed, outBufferSize)
  BY DEF CountInv, Owed
<1>5. Word \in Nat /\ toSend \in 0..(Word - 1) /\ outBufferSize \in 0..(Word - 1)
  BY Constants, CountTypes
<1>6. outBufferSize' = SubW(outBufferSize, SubW(toSend, SubW(h.size, h.sent)))
  BY DEF Accounted
<1> HIDE DEF h
<1>7. SubW(h.size, h.sent) = LeftOf(h)
  BY <1>3, <1>5 DEF SubW, LeftOf
<1>8. SubW(toSend, LeftOf(h)) = Owed /\ Owed \in 0..(Word - 1)
  BY <1>3, <1>4, <1>5 DEF SubW
<1>9. outBufferSize' = SubW(outBufferSize, Owed)
  BY <1>6, <1>7, <1>8
<1>10. Backlog \in Nat
  BY BacklogNat
<1> HIDE DEF Owed, Backlog
<1>11. Wrapped(Backlog, SubW(outBufferSize, Owed))
  BY <1>4, <1>5, <1>8, <1>10, WrappedSub
<1>12. SubW(outBufferSize, Owed) \in 0..(Word - 1)
  BY <1>5, <1>8, WordArithmetic
<1> QED
  BY <1>9, <1>11, <1>12

LEMMA CountOutBlocks ==
    ASSUME IInv, CountInv, OutBlocks
    PROVE  CountInv'
<1> SUFFICES ASSUME ~Dead' PROVE CountInv'
  BY DEF CountInv
<1>1. /\ ~Dead /\ ioPc = "outSend" /\ ioPc' = "outEnd"
      /\ outBufferSize' = Accounted(Head(transmit_jobs))
      /\ transmit_jobs' = transmit_jobs
  BY DEF OutBlocks, Dead, envVars
<1>2. Wrapped(Backlog, outBufferSize')
  BY <1>1, AccountedIsOwed
<1>3. Backlog' = Backlog /\ Owed' = 0 /\ Backlog \in Nat
  BY <1>1, BacklogNat DEF Backlog, Owed
<1>4. Backlog' + Owed' = Backlog
  BY <1>3
<1> QED
  BY <1>1, <1>2, <1>4 DEF CountInv, Wrapped

\* The finished job leaves the queue, and nothing was left of it.
LEMMA CountOutDone ==
    ASSUME IInv, CountInv, OutDone
    PROVE  CountInv'
<1> SUFFICES ASSUME ~Dead' PROVE CountInv'
  BY DEF CountInv
<1> DEFINE h == Head(transmit_jobs)
           m == Len(transmit_jobs) - 1
<1>1. /\ ~Dead /\ ioPc = "outSend" /\ ioPc' = "outHead" /\ ~Unfinished(h)
      /\ outBufferSize' = Accounted(h)
      /\ transmit_jobs' = Tail(transmit_jobs) /\ transmit_jobs # <<>>
  BY DEF OutDone, Finish, Dead, envVars, Erased, IInv, LockInv
<1>2. Wrapped(Backlog, outBufferSize')
  BY <1>1, AccountedIsOwed
<1>3. /\ h \in Jobs /\ h = transmit_jobs[1] /\ 1 \in Queued
      /\ transmit_jobs \in Seq(Jobs) /\ Len(transmit_jobs) \in Nat \ {0}
  BY <1>1, HeadOfQueue DEF IInv, Queued, TypeOK, OutputTypes
<1>4. /\ m \in Nat /\ Len(transmit_jobs) = m + 1
      /\ DOMAIN transmit_jobs = 1..(m + 1)
  BY <1>3
<1>5. /\ Len(transmit_jobs') = m /\ DOMAIN transmit_jobs' = 1..m
      /\ \A k \in 1..m : transmit_jobs'[k] = transmit_jobs[k + 1]
  BY <1>1, <1>3
<1> HIDE DEF m
<1>6. Lefts[1] = 0
  <2>1. LeftOf(h) \in 0..(Word - 1) /\ Lefts[1] = LeftOf(h)
    BY <1>1, <1>3, LeftRange
  <2>2. h.sent \in 0..(Word - 1) /\ h.size \in 0..(Word - 1) /\ Word \in Nat
    BY <1>3, JobRange, Constants
  <2> QED
    BY <1>1, <2>1, <2>2 DEF Unfinished, LeftOf
<1>7. \A k \in 1..m : Lefts'[k] = Lefts[k + 1]
  <2>1. \A k \in 1..m : k + 1 \in 1..(m + 1)
    BY <1>4
  <2> QED
    BY <1>4, <1>5, <2>1 DEF Lefts
<1>8. \A k \in 1..(m + 1) : Lefts[k] \in Nat
  BY <1>1, <1>4, BacklogNat
<1>9. Backlog = Lefts[1] + SumTo(Lefts', m) /\ SumTo(Lefts', m) \in Nat
  <2>1. Backlog = SumTo(Lefts, m + 1)
    BY <1>1, <1>4, BacklogNat
  <2>2. SumTo(Lefts, m + 1) = Lefts[1] + SumTo(Lefts', m) /\ SumTo(Lefts', m) \in Nat
    BY <1>4, <1>7, <1>8, SumHead
  <2> QED
    BY <2>1, <2>2
<1>10. Backlog' = SumTo(Lefts', m)
  BY <1>5 DEF Backlog, Lefts
<1>11. Owed' = 0
  BY <1>1 DEF Owed
<1>12. Backlog' + Owed' = Backlog
  BY <1>6, <1>9, <1>10, <1>11
<1> QED
  BY <1>1, <1>2, <1>12 DEF CountInv, Wrapped

\* write queues the rest of a buffer and counts it.
LEMMA CountWriteQueue ==
    ASSUME IInv, CountInv, WriteQueue
    PROVE  CountInv'
<1> SUFFICES ASSUME ~Dead' PROVE CountInv'
  BY DEF CountInv
<1> DEFINE m == Len(transmit_jobs)
           n == LeftOf(job)
<1>1. /\ ~Dead /\ writing # "no" /\ ioPc # "outSend" /\ ioPc' # "outSend"
      /\ outBufferSize' = AddW(outBufferSize, SubW(job.size, job.sent))
      /\ transmit_jobs' = Append(transmit_jobs, job)
  BY DEF WriteQueue, Dead, envVars, ioVars, Enqueued, IInv, LockInv
<1>2. /\ job \in Jobs /\ transmit_jobs \in Seq(Jobs) /\ m \in Nat
      /\ DOMAIN transmit_jobs = 1..m
      /\ outBufferSize \in 0..(Word - 1) /\ Word \in Nat
  BY Constants DEF IInv, TypeOK, OutputTypes
<1>3. n \in 0..(Word - 1) /\ n \in Nat
  <2>1. n \in 0..(Word - 1)
    BY <1>1, LeftRange
  <2> QED
    BY <1>2, <2>1
<1>4. SubW(job.size, job.sent) = n
  <2>1. job.sent \in 0..(Word - 1) /\ job.size \in 0..(Word - 1)
    BY <1>2, JobRange
  <2> QED
    BY <1>2, <1>3, <2>1 DEF SubW, LeftOf
<1>5. /\ Len(transmit_jobs') = m + 1 /\ DOMAIN transmit_jobs' = 1..(m + 1)
      /\ transmit_jobs'[m + 1] = job
      /\ \A k \in 1..m : transmit_jobs'[k] = transmit_jobs[k]
  BY <1>1, <1>2
<1>6. Lefts'[m + 1] = n /\ \A k \in 1..m : Lefts'[k] = Lefts[k]
  <2>1. m + 1 \in 1..(m + 1) /\ \A k \in 1..m : k \in 1..(m + 1)
    BY <1>2
  <2> QED
    BY <1>2, <1>5, <2>1 DEF Lefts, LeftOf
<1>7. /\ Backlog = SumTo(Lefts, m) /\ Backlog \in Nat
      /\ \A k \in 1..m : Lefts[k] \in Nat
  BY <1>1, BacklogNat
<1> HIDE DEF m, n
<1>8. \A k \in 1..(m + 1) : Lefts'[k] \in Nat
  <2>1. \A k \in 1..(m + 1) : k = m + 1 \/ k \in 1..m
    BY <1>2
  <2> QED
    BY <1>3, <1>6, <1>7, <2>1
<1>9. Backlog' = Backlog + n
  <2>1. Backlog' = SumTo(Lefts', m + 1)
    BY <1>5 DEF Backlog, Lefts
  <2>2. SumTo(Lefts', m + 1) = SumTo(Lefts', m) + Lefts'[m + 1]
    BY <1>2, <1>8, SumEquations
  <2>3. \A k \in 1..m : Lefts[k] \in Nat /\ Lefts[k] = Lefts'[k]
    BY <1>6, <1>7
  <2>4. SumTo(Lefts, m) = SumTo(Lefts', m)
    BY <1>2, <2>3, SumSame
  <2> QED
    BY <1>6, <1>7, <2>1, <2>2, <2>4
<1>10. Owed = 0 /\ Owed' = 0
  BY <1>1 DEF Owed
<1>11. Wrapped(Backlog, outBufferSize)
  <2>1. Backlog + Owed = Backlog
    BY <1>7, <1>10
  <2> QED
    BY <1>1, <2>1 DEF CountInv
<1>12. Wrapped(Backlog + n, outBufferSize')
  BY <1>1, <1>2, <1>3, <1>4, <1>7, <1>11, WrappedAdd
<1>13. Backlog' + Owed' = Backlog + n
  BY <1>3, <1>7, <1>9, <1>10
<1> QED
  BY <1>1, <1>12, <1>13 DEF CountInv, Wrapped

\* Calls of send fail on a broken socket only.
LEMMA CountFails ==
    ASSUME WriteFails \/ OutFails
    PROVE  CountInv'
<1>1. Dead'
  BY DEF WriteFails, OutFails, SendFails, Dead, envVars
<1> QED
  BY <1>1 DEF CountInv

\* The steps of a write that do not touch the queue.
LEMMA CountWrite ==
    ASSUME IInv, CountInv,
           \/ \E t \in Threads, s \in Sizes, c \in Callbacks : WriteEnter(t, s, c)
           \/ WriteTaken \/ WriteBlocks \/ WriteDone
    PROVE  CountInv'
<1>1. UNCHANGED <<transmit_jobs, outBufferSize, ioPc, toSend>>
  BY DEF WriteEnter, Pending, WriteTaken, WriteBlocks, WriteDone, outVars, ioVars
<1>2. Dead => Dead'
  <2>1. con' => con
    BY Zenon DEF WriteEnter, Pending, WriteTaken, WriteBlocks, WriteDone, Finish
  <2>2. peer' = peer
    BY DEF WriteEnter, Pending, WriteTaken, WriteBlocks, WriteDone, envVars
  <2> QED
    BY <2>1, <2>2 DEF Dead
<1> QED
  BY <1>1, <1>2, CountQuiet

\* The steps of operator() outside of its flush_job, and those of the world.
LEMMA CountOther ==
    ASSUME IInv, CountInv,
           \/ Dispatch \/ EnterHangup \/ HangupClose \/ HandlerThrows \/ Enter \/ RecvFull \/ RecvRest \/ RecvFails
           \/ \E n \in 0..in_buf, keep \in BOOLEAN : ProtoReturn(n, keep)
           \/ OutLock \/ OutEnd \/ Check \/ Rearm \/ EnvStep \/ UNCHANGED vars
    PROVE  CountInv'
<1>1. Dead => Dead'
  BY OtherBreaks
<1>2. UNCHANGED <<transmit_jobs, outBufferSize>>
  BY DEF Dispatch, EnterHangup, HangupClose, HandlerThrows, Enter, RecvFull, RecvRest, RecvFails, ProtoReturn,
         OutLock, OutEnd, Check, Rearm, EnvStep, vars, outVars
<1>3. \/ UNCHANGED <<ioPc, toSend>>
      \/ ioPc # "outSend" /\ ioPc' # "outSend"
  BY DEF Dispatch, EnterHangup, HangupClose, HandlerThrows, InHandler, Enter, RecvFull, RecvRest, RecvFails,
         ProtoReturn, AfterInput, OutLock, OutEnd, Check, Pending, Rearm, EnvStep, vars, ioVars
<1> QED
  BY <1>1, <1>2, <1>3, CountQuiet

LEMMA CountStep ==
    ASSUME IInv, CountInv, [Next]_vars
    PROVE  CountInv'
BY CountOutHead, CountOutTaken, CountOutBlocks, CountOutDone, CountWriteQueue,
   CountFails, CountWrite, CountOther DEF Next, WriteStep, IOStep

LEMMA CountInit == Init => CountInv
<1> SUFFICES ASSUME Init PROVE CountInv
  OBVIOUS
<1>1. transmit_jobs = <<>> /\ ioPc = "idle" /\ outBufferSize = 0
  BY DEF Init
<1>2. Len(transmit_jobs) = 0
  BY <1>1
<1>3. Backlog = 0 /\ Owed = 0
  BY <1>1, <1>2, SumZero DEF Backlog, Owed
<1>4. Backlog + Owed = 0 + 0 * Word /\ 0 \in Nat
  BY <1>3, Constants
<1> QED
  BY <1>1, <1>4 DEF CountInv, Wrapped

LEMMA CountFromInv == IInv /\ CountInv => CountExact
<1> SUFFICES ASSUME IInv, CountInv, ~Dead, transmit_job_mutex = NoThread
             PROVE  outBufferSize = Backlog % Word
  BY DEF CountExact
<1>1. ioPc # "outSend"
  BY Constants DEF IInv, LockInv
<1>2. Backlog + Owed = Backlog /\ Backlog \in Nat
  BY <1>1, BacklogNat DEF Owed
<1>3. Wrapped(Backlog, outBufferSize)
  BY <1>2 DEF CountInv
<1> QED
  BY <1>2, <1>3, CountTypes, WrappedIsModulo

\* Whenever nobody is sending, what getOutBufferSize reports of a socket that
\* works is what the queue still holds, modulo the width of a size_t: every
\* path through write and operator() adds and subtracts the right numbers.
THEOREM CountIsExact == Spec => []CountExact
<1>1. Init => IInv /\ CountInv
  BY TypeInit, DataInit, CountInit DEF IInv
<1>2. IInv /\ CountInv /\ [Next]_vars => (IInv /\ CountInv)'
  BY TypeStep, DataStep, CountStep DEF IInv
<1> QED
  BY <1>1, <1>2, CountFromInv, PTL DEF Spec

==============================================================================
