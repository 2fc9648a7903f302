--------------------------- MODULE ConnectionProofs ---------------------------
(***************************************************************************)
(* Proofs about Connection for every number of threads, every bound and    *)
(* every width of size_t.                                                  *)
(***************************************************************************)
EXTENDS Connection, TLAPS

(***************************************************************************)
(* The inductive invariant                                                 *)
(***************************************************************************)

Queued == DOMAIN transmit_jobs

InFlight(i) == writing # "no" /\ job.id = i
InQueue(i) == \E k \in Queued : transmit_jobs[k].id = i

\* Who holds the mutex, and where that thread is.
LockInv ==
    /\ writing # "no" => transmit_job_mutex # NoThread
    /\ writing # "no" /\ transmit_job_mutex = IO => InHandler
    /\ ioPc \in {"outHead", "outSend", "outEnd"}
          => transmit_job_mutex = IO /\ writing = "no"
    /\ ioPc = "outSend" => transmit_jobs # <<>>
    /\ writing = "send" => transmit_jobs = <<>>

\* The queue holds accepted buffers in their order; the job being written is
\* the youngest of all.
QueueInv ==
    /\ \A k \in Queued : /\ transmit_jobs[k].id \in Messages
                         /\ transmit_jobs[k].size = size[transmit_jobs[k].id]
    /\ \A j, k \in Queued : j < k => transmit_jobs[j].id < transmit_jobs[k].id
    /\ writing # "no" => /\ job.id = Len(size) /\ job.id \in Messages
                         /\ job.size = size[job.id]
                         /\ \A k \in Queued : transmit_jobs[k].id < job.id

\* While the socket works, bytes_sent is what the kernel took; only the oldest
\* unfinished buffer has sent anything, and what is neither queued nor in
\* flight is complete.
SentInv ==
    ~Dead =>
      /\ \A k \in Queued : /\ transmit_jobs[k].sent = wire[transmit_jobs[k].id]
                           /\ k > 1 => transmit_jobs[k].sent = 0
      /\ writing # "no" => /\ job.sent = wire[job.id]
                           /\ transmit_jobs # <<>> => job.sent = 0
      /\ \A i \in Messages : ~InFlight(i) /\ ~InQueue(i) => wire[i] = size[i]

\* Callbacks ran for accepted buffers, each older than all that are left.
CalledInv ==
    /\ \A k \in DOMAIN called : called[k] \in Messages
    /\ \A k \in DOMAIN called : \A j \in Queued : called[k] < transmit_jobs[j].id
    /\ \A k \in DOMAIN called : writing # "no" => called[k] < job.id

DataInv == /\ Len(wire) = Len(size)
           /\ QueueInv
           /\ SentInv
           /\ StreamInOrder
           /\ CalledInv
           /\ CallbackOrder

IInv == TypeOK /\ LockInv /\ DataInv

(***************************************************************************)
(* Types, with the mutex discipline that the head of the queue depends on. *)
(***************************************************************************)

LEMMA Constants ==
  /\ Word \in Nat \ {0} /\ Sizes \subseteq 0..(Word - 1)
  /\ Room \in Nat \ {0} /\ MaxIn \in Nat /\ ReadSize \in Nat \ {0}
  /\ Callbacks \subseteq {"none", "notify", "close"}
  /\ IO # NoThread
BY ConnectionAssumption DEF Threads

\* A history that grows by one element keeps its type.
LEMMA OneMore ==
    ASSUME NEW S, NEW s \in Seq(S), NEW e \in S
    PROVE  Append(s, e) \in Seq(S)
OBVIOUS

\* Counting modulo Word stays within a size_t.
LEMMA WordArithmetic ==
  ASSUME NEW a \in 0..(Word - 1), NEW b \in 0..(Word - 1)
  PROVE  /\ AddW(a, b) \in 0..(Word - 1)
         /\ SubW(a, b) \in 0..(Word - 1)
BY Constants DEF AddW, SubW

LEMMA JobRange ==
  ASSUME NEW j \in Jobs
  PROVE  j.sent \in 0..(Word - 1) /\ j.size \in 0..(Word - 1)
<1>1. j.sent \in 0..(Word - 1) /\ j.size \in Sizes \cup {0}
  BY DEF Jobs
<1>2. 0 \in 0..(Word - 1) /\ Sizes \subseteq 0..(Word - 1)
  BY Constants
<1> QED
  BY <1>1, <1>2

\* One call of send changes bytes_sent of a job and nothing else of it; bytes
\* that the kernel took are counted without wrapping around.
LEMMA FlushStep ==
  ASSUME NEW j \in Jobs, Unfinished(j)
  PROVE  /\ AfterFailure(j) \in Jobs
         /\ AfterFailure(j).id = j.id /\ AfterFailure(j).size = j.size
         /\ \A n \in 1..(j.size - j.sent) :
              /\ AfterTaken(j, n) \in Jobs
              /\ AfterTaken(j, n).id = j.id /\ AfterTaken(j, n).size = j.size
              /\ AfterTaken(j, n).sent = j.sent + n
<1>1. /\ j.sent \in 0..(Word - 1) /\ j.size \in 0..(Word - 1)
      /\ j.sent < j.size
  BY JobRange DEF Unfinished
<1>2. SubW(j.sent, 1) \in 0..(Word - 1)
  BY <1>1, Constants DEF SubW
<1>3. ASSUME NEW n \in 1..(j.size - j.sent)
      PROVE  AddW(j.sent, n) = j.sent + n /\ j.sent + n \in 0..(Word - 1)
  BY <1>1, Constants DEF AddW
<1>4. /\ AfterFailure(j) \in Jobs
      /\ AfterFailure(j).id = j.id /\ AfterFailure(j).size = j.size
  BY <1>2 DEF AfterFailure, Jobs
<1>5. ASSUME NEW n \in 1..(j.size - j.sent)
      PROVE  /\ AfterTaken(j, n) \in Jobs
             /\ AfterTaken(j, n).id = j.id /\ AfterTaken(j, n).size = j.size
             /\ AfterTaken(j, n).sent = j.sent + n
  BY <1>3, <1>5 DEF AfterTaken, Jobs
<1> QED
  BY <1>4, <1>5

LEMMA NoJobType == NoJob \in Jobs
BY Constants DEF Jobs, NoJob

\* How many bytes one call of send may take.
LEMMA TakenRange ==
  ASSUME TypeOK, NEW j \in Jobs, Unfinished(j), NEW n \in 1..Min2(room, j.size - j.sent)
  PROVE  /\ n \in 1..(j.size - j.sent) /\ room - n \in 0..Room
         /\ j.sent \in 0..(Word - 1) /\ j.size \in 0..(Word - 1) /\ n \in Nat
<1>1. room \in 0..Room
  BY DEF TypeOK, SocketTypes
<1>2. /\ j.sent \in 0..(Word - 1) /\ j.size \in 0..(Word - 1)
      /\ j.sent < j.size
  BY JobRange DEF Unfinished
<1> QED
  BY <1>1, <1>2, Constants DEF Min2

LEMMA HeadOfQueue ==
  ASSUME TypeOK, transmit_jobs # <<>>
  PROVE  /\ Head(transmit_jobs) \in Jobs
         /\ Head(transmit_jobs) = transmit_jobs[1]
         /\ Len(transmit_jobs) \in Nat \ {0} /\ 1 \in DOMAIN transmit_jobs
         /\ Tail(transmit_jobs) \in Seq(Jobs)
BY DEF TypeOK, OutputTypes

\* Replacing the head of the queue, as flush_job does through its reference.
LEMMA HeadReplaced ==
  ASSUME TypeOK, transmit_jobs # <<>>, NEW h \in Jobs,
         transmit_jobs' = [transmit_jobs EXCEPT ![1] = h]
  PROVE  /\ transmit_jobs' \in Seq(Jobs)
         /\ DOMAIN transmit_jobs' = DOMAIN transmit_jobs
         /\ transmit_jobs'[1] = h
         /\ \A k \in DOMAIN transmit_jobs : k # 1 => transmit_jobs'[k] = transmit_jobs[k]
<1>1. transmit_jobs \in Seq(Jobs)
  BY DEF TypeOK, OutputTypes
<1>2. /\ transmit_jobs \in [1..Len(transmit_jobs) -> Jobs]
      /\ Len(transmit_jobs) \in Nat \ {0}
  BY <1>1
<1>3. transmit_jobs' \in [1..Len(transmit_jobs) -> Jobs]
  BY <1>2
<1> QED
  BY <1>2, <1>3

\* A thread that sees the kernel take n bytes leaves the room and the record
\* of the wire with their types.
LEMMA SendTakenTypes ==
  ASSUME TypeOK, NEW j \in Jobs, NEW n, SendTaken(j, n)
  PROVE  /\ room' \in 0..Room /\ n \in 1..(j.size - j.sent)
         /\ wire' \in Seq(Nat) /\ Len(wire') = Len(wire)
<1>1. n \in 1..(j.size - j.sent) /\ room - n \in 0..Room /\ n \in Nat
  BY TakenRange DEF SendTaken
<1>2. wire \in Seq(Nat)
  BY DEF TypeOK, HistoryTypes
<1>3. wire \in [1..Len(wire) -> Nat] /\ Len(wire) \in Nat
  BY <1>2
<1>4. wire' \in [1..Len(wire) -> Nat]
  <2>1. wire' = [wire EXCEPT ![j.id] = wire[j.id] + n]
    BY DEF SendTaken
  <2>2. CASE j.id \in 1..Len(wire)
    BY <1>1, <1>3, <2>1, <2>2
  <2>3. CASE j.id \notin 1..Len(wire)
    <3>1. wire' = [k \in DOMAIN wire |-> wire[k]]
      BY <1>3, <2>1, <2>3
    <3> QED
      BY <3>1, <1>3
  <2> QED
    BY <2>2, <2>3
<1>5. wire' \in Seq(Nat) /\ Len(wire') = Len(wire)
  BY <1>3, <1>4
<1> QED
  BY <1>1, <1>5 DEF SendTaken

LEMMA TypeInit == Init => TypeOK /\ LockInv
<1> SUFFICES ASSUME Init PROVE TypeOK /\ LockInv
  OBVIOUS
<1> USE DEF Init
<1>1. SocketTypes
  BY Constants DEF SocketTypes
<1>2. HandlerTypes
  BY DEF HandlerTypes
<1>3. OutputTypes
  BY Constants, NoJobType DEF OutputTypes
<1>4. HistoryTypes
  BY DEF HistoryTypes
<1>5. LockInv
  BY DEF LockInv
<1> QED
  BY <1>1, <1>2, <1>3, <1>4, <1>5 DEF TypeOK

LEMMA TypeStep ==
  ASSUME TypeOK, LockInv, [Next]_vars
  PROVE  TypeOK' /\ LockInv'
<1> USE DEF TypeOK, SocketTypes, HandlerTypes, OutputTypes, HistoryTypes, LockInv,
            InHandler, envVars, inVars, outVars, writeVars, ioVars, streamVars
<1>1. ASSUME NEW t \in Threads, NEW s \in Sizes, NEW c \in Callbacks, WriteEnter(t, s, c)
      PROVE  TypeOK' /\ LockInv'
  <2>1. t # NoThread /\ (t = IO => InHandler)
    BY <1>1, ConnectionAssumption DEF WriteEnter, Pending, MayWrite
  <2>2. job' \in Jobs
    BY <1>1, Constants DEF WriteEnter, Pending, Jobs
  <2>3. HistoryTypes' /\ SocketTypes'
    BY <1>1 DEF WriteEnter, Pending
  <2>4. HandlerTypes' /\ OutputTypes'
    BY <1>1, <2>2 DEF WriteEnter, Pending
  <2>5. LockInv'
    BY <1>1, <2>1, Constants DEF WriteEnter, Pending
  <2> QED
    BY <2>3, <2>4, <2>5
<1>2. CASE WriteTaken
  <2>1. PICK n \in 1..Room : SendTaken(job, n) /\ job' = AfterTaken(job, n)
    BY <1>2 DEF WriteTaken
  <2>2. room' \in 0..Room /\ wire' \in Seq(Nat) /\ n \in 1..(job.size - job.sent)
    BY <2>1, SendTakenTypes
  <2>3. job' \in Jobs
    BY <2>1, <2>2, FlushStep DEF SendTaken
  <2> QED
    BY <1>2, <2>2, <2>3 DEF WriteTaken
<1>3. CASE WriteFails
  <2>1. job' \in Jobs
    BY <1>3, FlushStep DEF WriteFails, SendFails
  <2> QED
    BY <1>3, <2>1 DEF WriteFails
<1>4. CASE WriteBlocks
  BY <1>4 DEF WriteBlocks
<1>5. CASE WriteDone
  <2>1. called' \in Seq(Nat)
    BY <1>5 DEF WriteDone, Finish, Jobs
  <2> QED
    BY <1>5, <2>1, NoJobType DEF WriteDone, Finish
<1>6. CASE WriteQueue
  <2>1. outBufferSize' \in 0..(Word - 1)
    BY <1>6, WordArithmetic, JobRange DEF WriteQueue, Enqueued
  <2> QED
    BY <1>6, <2>1, NoJobType DEF WriteQueue, Enqueued
<1>7. CASE Dispatch
  BY <1>7 DEF Dispatch, Ready
<1>8. CASE EnterHangup
  <2>1. peerClosed' \in Nat
    BY <1>8 DEF EnterHangup, Close, Told
  <2> QED
    BY <1>8, <2>1 DEF EnterHangup, Close, Told
<1>81. CASE HangupClose \/ HandlerThrows
  BY <1>81 DEF HangupClose, HandlerThrows, Close
<1>9. CASE Enter
  BY <1>9 DEF Enter, AfterInput
<1>10. CASE RecvFull
  BY <1>10, Constants DEF RecvFull
<1>11. CASE RecvRest
  BY <1>11 DEF RecvRest
<1>12. CASE RecvFails
  BY <1>12 DEF RecvFails
<1>13. ASSUME NEW n \in 0..in_buf, NEW keep \in BOOLEAN, ProtoReturn(n, keep)
       PROVE  TypeOK' /\ LockInv'
  BY <1>13 DEF ProtoReturn, AfterInput
<1>14. CASE OutLock
  BY <1>14 DEF OutLock, Threads
<1>15. CASE OutHead
  <2>1. toSend' \in 0..(Word - 1)
    BY <1>15, WordArithmetic, JobRange, HeadOfQueue DEF OutHead
  <2> QED
    BY <1>15, <2>1 DEF OutHead
<1>16. CASE OutTaken
  <2> DEFINE h == Head(transmit_jobs)
  <2>1. h \in Jobs /\ h = transmit_jobs[1] /\ transmit_jobs # <<>>
    BY <1>16, HeadOfQueue DEF OutTaken
  <2>2. PICK n \in 1..Room :
          /\ SendTaken(h, n)
          /\ transmit_jobs' = [transmit_jobs EXCEPT ![1] = AfterTaken(transmit_jobs[1], n)]
    BY <1>16 DEF OutTaken
  <2> HIDE DEF h
  <2>3. room' \in 0..Room /\ wire' \in Seq(Nat) /\ n \in 1..(h.size - h.sent)
    BY <2>1, <2>2, SendTakenTypes
  <2>4. AfterTaken(transmit_jobs[1], n) \in Jobs
    BY <2>1, <2>2, <2>3, FlushStep DEF SendTaken
  <2>5. transmit_jobs' \in Seq(Jobs) /\ transmit_jobs' # <<>>
    BY <2>1, <2>2, <2>4
  <2> QED
    BY <1>16, <2>3, <2>5 DEF OutTaken
<1>17. CASE OutFails
  <2>1. transmit_jobs[1] \in Jobs /\ Unfinished(transmit_jobs[1]) /\ transmit_jobs # <<>>
    BY <1>17, HeadOfQueue DEF OutFails, SendFails
  <2>2. AfterFailure(transmit_jobs[1]) \in Jobs
    BY <2>1, FlushStep
  <2>3. transmit_jobs' = [transmit_jobs EXCEPT ![1] = AfterFailure(transmit_jobs[1])]
    BY <1>17 DEF OutFails
  <2>4. transmit_jobs' \in Seq(Jobs) /\ transmit_jobs' # <<>>
    BY <2>1, <2>2, <2>3
  <2> QED
    BY <1>17, <2>4 DEF OutFails
<1>18. CASE OutBlocks
  <2>1. outBufferSize' \in 0..(Word - 1)
    BY <1>18, WordArithmetic, JobRange, HeadOfQueue DEF OutBlocks, Accounted
  <2> QED
    BY <1>18, <2>1 DEF OutBlocks
<1>19. CASE OutDone
  <2>1. Head(transmit_jobs) \in Jobs /\ Tail(transmit_jobs) \in Seq(Jobs)
    BY <1>19, HeadOfQueue DEF OutDone, Erased
  <2>2. outBufferSize' \in 0..(Word - 1)
    BY <1>19, <2>1, WordArithmetic, JobRange DEF OutDone, Erased, Accounted
  <2>3. called' \in Seq(Nat)
    <3> DEFINE h == Head(transmit_jobs)
    <3>1. h.id \in Nat
      BY <2>1 DEF Jobs
    <3>2. called \in Seq(Nat)
      OBVIOUS
    <3>3. called' = called \/ called' = Append(called, h.id)
      BY <1>19 DEF OutDone, Finish
    <3> DEFINE id == h.id
    <3>4. id \in Nat /\ ((called' = called) \/ called' = Append(called, id))
      BY <3>1, <3>3
    <3> HIDE DEF h, id
    <3>5. Append(called, id) \in Seq(Nat)
      BY <3>2, <3>4, OneMore
    <3> QED BY <3>2, <3>4, <3>5
  <2> QED
    BY <1>19, <2>1, <2>2, <2>3 DEF OutDone, Erased, Finish
<1>20. CASE OutEnd
  BY <1>20 DEF OutEnd, Listening, Threads
<1>21. CASE Check
  BY <1>21 DEF Check, Pending
<1>22. CASE Rearm
  <2>1. interest' \in SUBSET {"IN", "OUT"} /\ toSend' \in 0..(Word - 1)
    BY <1>22, Constants DEF Rearm, Armed
  <2> QED
    BY <1>22, <2>1 DEF Rearm, Armed
<1>23. CASE EnvStep
  <2>1. PeerSends \/ PeerDrains \/ \E how \in {"fin", "rst"} : PeerLeaves(how)
    BY <1>23, ConnectionAssumption DEF EnvStep
  <2>2. con' \in BOOLEAN /\ interest' \in SUBSET {"IN", "OUT"}
    BY <1>23 DEF EnvStep
  <2>3. ASSUME PeerSends PROVE SocketTypes'
    <3>1. inbox' \in Nat /\ sentIn' \in 0..MaxIn
      BY <2>3, Constants DEF PeerSends
    <3> QED
      BY <2>2, <2>3, <3>1 DEF PeerSends
  <2>4. ASSUME PeerDrains PROVE SocketTypes'
    <3>1. room' \in 0..Room
      BY <2>4, Constants DEF PeerDrains
    <3> QED
      BY <2>2, <2>4, <3>1 DEF PeerDrains
  <2>5. ASSUME \E how \in {"fin", "rst"} : PeerLeaves(how) PROVE SocketTypes'
    <3>1. peer' \in {"up", "fin", "rst"}
      BY <2>5 DEF PeerLeaves
    <3> QED
      BY <2>2, <2>5, <3>1 DEF PeerLeaves
  <2>6. SocketTypes'
    BY <2>1, <2>3, <2>4, <2>5
  <2> QED
    BY <1>23, <2>6 DEF EnvStep
<1>24. CASE UNCHANGED vars
  BY <1>24 DEF vars
<1> QED
  BY <1>1, <1>2, <1>3, <1>4, <1>5, <1>6, <1>7, <1>8, <1>81, <1>9, <1>10, <1>11, <1>12, <1>13,
     <1>14, <1>15, <1>16, <1>17, <1>18, <1>19, <1>20, <1>21, <1>22, <1>23, <1>24
     DEF Next, WriteStep, IOStep

\* The types of Connection hold in every reachable state: in particular
\* bytes_sent never leaves the range of a size_t, errors of send included.
THEOREM TypeCorrect == Spec => []TypeOK
<1>1. TypeOK /\ LockInv /\ [Next]_vars => (TypeOK /\ LockInv)'
  BY TypeStep
<1> QED
  BY TypeInit, <1>1, PTL DEF Spec

(***************************************************************************)
(* The invariant of the data: queue, job in flight, wire and callbacks.    *)
(***************************************************************************)

LEMMA DataInit == Init => DataInv
<1> SUFFICES ASSUME Init PROVE DataInv
  OBVIOUS
<1> USE DEF Init, Messages, Queued
<1>1. /\ DOMAIN transmit_jobs = {} /\ DOMAIN size = {} /\ DOMAIN called = {}
      /\ Len(wire) = Len(size)
  OBVIOUS
<1>2. QueueInv /\ SentInv /\ CalledInv
  BY <1>1 DEF QueueInv, SentInv, CalledInv
<1>3. StreamInOrder /\ CallbackOrder
  BY <1>1 DEF StreamInOrder, CallbackOrder
<1> QED
  BY <1>1, <1>2, <1>3 DEF DataInv

\* Steps that leave the queue, the writer and the history alone; the socket may
\* break.
LEMMA DataQuiet ==
  ASSUME DataInv, Dead => Dead',
         UNCHANGED <<transmit_jobs, writing, job, size, wire, called>>
  PROVE  DataInv'
BY DEF DataInv, QueueInv, SentInv, StreamInOrder, CalledInv, CallbackOrder,
       InFlight, InQueue, Queued, Messages

\* The lengths and domains that the steps below count with.
LEMMA Domains ==
  ASSUME TypeOK, DataInv
  PROVE  /\ Len(size) \in Nat /\ Messages = 1..Len(size) /\ DOMAIN wire = Messages
         /\ Len(called) \in Nat /\ DOMAIN called = 1..Len(called)
         /\ Len(transmit_jobs) \in Nat /\ Queued = 1..Len(transmit_jobs)
         /\ \A i \in Messages : wire[i] \in Nat /\ size[i] \in Nat
         /\ \A k \in DOMAIN called : called[k] \in Nat
         /\ \A k \in Queued : transmit_jobs[k] \in Jobs
<1>1. /\ Len(size) \in Nat /\ Messages = 1..Len(size)
      /\ Len(called) \in Nat /\ DOMAIN called = 1..Len(called)
      /\ Len(transmit_jobs) \in Nat /\ Queued = 1..Len(transmit_jobs)
      /\ \A k \in DOMAIN called : called[k] \in Nat
      /\ \A k \in Queued : transmit_jobs[k] \in Jobs
      /\ \A i \in Messages : size[i] \in Sizes
  BY DEF TypeOK, HistoryTypes, OutputTypes, Messages, Queued
<1>2. DOMAIN wire = Messages /\ \A i \in Messages : wire[i] \in Nat
  BY DEF TypeOK, HistoryTypes, DataInv, Messages
<1>3. Sizes \subseteq Nat
  BY Constants
<1>4. \A i \in Messages : size[i] \in Nat
  BY <1>1, <1>3
<1> QED
  BY <1>1, <1>2, <1>4

\* The kernel takes n bytes of the oldest job that is not finished.
LEMMA OldestTaken ==
  ASSUME TypeOK, DataInv, UNCHANGED size,
         NEW j \in Jobs, NEW n, SendTaken(j, n),
         j.id \in Messages, j.size = size[j.id], j.sent = wire[j.id],
         \A i \in Messages : i < j.id => wire[i] = size[i]
  PROVE  /\ Len(wire') = Len(size') /\ StreamInOrder'
         /\ wire'[j.id] = j.sent + n
         /\ \A i \in Messages : i # j.id => wire'[i] = wire[i]
<1>1. /\ wire' = [wire EXCEPT ![j.id] = wire[j.id] + n]
      /\ n \in 1..(j.size - j.sent) /\ Len(wire') = Len(wire)
  BY SendTakenTypes DEF SendTaken
<1>2. /\ DOMAIN wire = Messages /\ Messages \subseteq Nat
      /\ \A i \in Messages : wire[i] \in Nat /\ size[i] \in Nat
  BY Domains
<1>3. /\ wire'[j.id] = wire[j.id] + n
      /\ \A i \in Messages : i # j.id => wire'[i] = wire[i]
  BY <1>1, <1>2
<1>4. /\ wire[j.id] \in Nat /\ size[j.id] \in Nat
      /\ n \in Nat \ {0} /\ wire[j.id] + n <= size[j.id]
  <2>1. wire[j.id] \in Nat /\ size[j.id] \in Nat
    BY <1>2
  <2> QED
    BY <1>1, <2>1
<1>5. /\ \A i \in Messages : wire[i] <= size[i]
      /\ \A i, k \in Messages : i < k /\ wire[k] > 0 => wire[i] = size[i]
  BY DEF DataInv, StreamInOrder
<1>6. ASSUME NEW k \in Messages, j.id < k PROVE wire[k] = 0
  <2>1. wire[k] > 0 => wire[j.id] = size[j.id]
    BY <1>5, <1>6
  <2>2. wire[j.id] # size[j.id]
    BY <1>4
  <2>3. wire[k] \in Nat
    BY <1>2
  <2> QED
    BY <2>1, <2>2, <2>3
<1>7. \A i \in Messages : wire'[i] <= size[i]
  BY <1>3, <1>4, <1>5
<1>8. ASSUME NEW i \in Messages, NEW k \in Messages, i < k, wire'[k] > 0
      PROVE  wire'[i] = size[i]
  <2>1. CASE k = j.id
    BY <1>2, <1>3, <1>8, <2>1
  <2>2. CASE k # j.id /\ i = j.id
    BY <1>2, <1>3, <1>6, <1>8, <2>2
  <2>3. CASE k # j.id /\ i # j.id
    BY <1>3, <1>5, <1>8, <2>3
  <2> QED
    BY <2>1, <2>2, <2>3
<1>9. StreamInOrder'
  BY <1>7, <1>8 DEF StreamInOrder, Messages
<1> QED
  BY <1>1, <1>3, <1>9 DEF DataInv

LEMMA DataWriteEnter ==
  ASSUME TypeOK, LockInv, DataInv,
         NEW t \in Threads, NEW s \in Sizes, NEW c \in Callbacks, WriteEnter(t, s, c)
  PROVE  DataInv'
<1>1. /\ writing = "no" /\ writing' # "no"
      /\ UNCHANGED <<transmit_jobs, called, con, peer>>
      /\ size' = Append(size, s) /\ wire' = Append(wire, 0)
      /\ job'.id = Len(size) + 1 /\ job'.size = s /\ job'.sent = 0
  BY ConnectionAssumption
     DEF WriteEnter, Pending, LockInv, outVars, envVars, TypeOK, OutputTypes
<1>2. /\ Len(size) \in Nat /\ Messages = 1..Len(size) /\ DOMAIN wire = Messages
      /\ Len(wire) = Len(size)
      /\ \A i \in Messages : wire[i] \in Nat /\ size[i] \in Nat
      /\ DOMAIN called \subseteq Nat
  BY Domains DEF DataInv
<1>3. /\ Len(size') = Len(size) + 1 /\ Len(wire') = Len(size')
      /\ Messages' = 1..(Len(size) + 1)
      /\ \A i \in Messages : size'[i] = size[i] /\ wire'[i] = wire[i]
      /\ size'[Len(size) + 1] = s /\ wire'[Len(size) + 1] = 0
  BY <1>1, <1>2 DEF Messages, TypeOK, HistoryTypes
<1>4. /\ Messages \subseteq Messages' /\ job'.id \in Messages'
      /\ \A i \in Messages' : i \in Messages \/ i = job'.id
      /\ \A i \in Messages : i < job'.id
      /\ s \in Nat
  BY <1>1, <1>2, <1>3, Constants
<1>5. QueueInv'
  BY <1>1, <1>3, <1>4 DEF DataInv, QueueInv, Queued
<1>6. SentInv'
  <2> SUFFICES ASSUME ~Dead PROVE SentInv'
    BY <1>1 DEF SentInv, Dead
  <2>1. /\ \A k \in Queued : /\ transmit_jobs[k].id \in Messages
                             /\ transmit_jobs[k].sent = wire[transmit_jobs[k].id]
                             /\ k > 1 => transmit_jobs[k].sent = 0
        /\ \A i \in Messages : ~InQueue(i) => wire[i] = size[i]
    BY <1>1 DEF DataInv, QueueInv, SentInv, InFlight
  <2>2. ASSUME NEW i \in Messages', ~InFlight(i)', ~InQueue(i)'
        PROVE  wire'[i] = size'[i]
    <3>1. i \in Messages /\ ~InQueue(i)
      BY <1>1, <1>4, <2>2 DEF InFlight, InQueue, Queued
    <3> QED
      BY <1>3, <2>1, <3>1
  <2>3. job'.sent = wire'[job'.id]
    BY <1>1, <1>3
  <2>4. \A k \in Queued' : /\ transmit_jobs'[k].sent = wire'[transmit_jobs'[k].id]
                           /\ k > 1 => transmit_jobs'[k].sent = 0
    BY <1>1, <1>3, <2>1 DEF Queued
  <2> QED
    BY <1>1, <2>2, <2>3, <2>4 DEF SentInv
<1>7. StreamInOrder'
  <2>1. /\ \A i \in Messages : wire[i] <= size[i]
        /\ \A i, k \in Messages : i < k /\ wire[k] > 0 => wire[i] = size[i]
    BY DEF DataInv, StreamInOrder
  <2>2. \A i \in Messages' : wire'[i] <= size'[i]
    BY <1>1, <1>3, <1>4, <2>1
  <2>3. ASSUME NEW i \in Messages', NEW k \in Messages', i < k, wire'[k] > 0
        PROVE  wire'[i] = size'[i]
    <3>1. k \in Messages
      BY <1>1, <1>3, <1>4, <2>3
    <3>2. i \in Messages
      BY <1>1, <1>2, <1>3, <2>3, <3>1
    <3> QED
      BY <1>3, <2>1, <2>3, <3>1, <3>2
  <2> QED
    BY <2>2, <2>3 DEF StreamInOrder
<1>8. CalledInv'
  BY <1>1, <1>4 DEF DataInv, CalledInv, Queued
<1>9. CallbackOrder'
  BY <1>1 DEF DataInv, CallbackOrder
<1> QED
  BY <1>3, <1>5, <1>6, <1>7, <1>8, <1>9 DEF DataInv

LEMMA DataWriteTaken ==
  ASSUME TypeOK, LockInv, DataInv, WriteTaken
  PROVE  DataInv'
<1>1. /\ writing = "send" /\ transmit_jobs = <<>>
      /\ UNCHANGED <<transmit_jobs, writing, size, called, con, peer>>
  BY DEF WriteTaken, LockInv, inVars, outVars
<1>2. PICK n \in 1..Room : SendTaken(job, n) /\ job' = AfterTaken(job, n)
  BY DEF WriteTaken
<1>3. job \in Jobs /\ job.id \in Messages /\ job.size = size[job.id] /\ ~Dead
  BY <1>1, <1>2 DEF DataInv, QueueInv, TypeOK, OutputTypes, SendTaken
<1>4. Queued = {} /\ Queued' = {}
  BY <1>1 DEF Queued
<1>5. /\ job.sent = wire[job.id]
      /\ \A i \in Messages : i # job.id => wire[i] = size[i]
  BY <1>1, <1>3, <1>4 DEF DataInv, SentInv, InFlight, InQueue
<1>6. \A i \in Messages : i < job.id => i # job.id
  BY <1>3, Domains
<1>7. /\ Len(wire') = Len(size') /\ StreamInOrder'
      /\ wire'[job.id] = job.sent + n
      /\ \A i \in Messages : i # job.id => wire'[i] = wire[i]
  BY <1>1, <1>2, <1>3, <1>5, <1>6, OldestTaken
<1>8. job'.id = job.id /\ job'.size = job.size /\ job'.sent = job.sent + n
  BY <1>2, <1>3, SendTakenTypes, FlushStep DEF SendTaken
<1>9. QueueInv'
  BY <1>1, <1>4, <1>8 DEF DataInv, QueueInv, Messages
<1>10. SentInv'
  BY <1>1, <1>4, <1>5, <1>7, <1>8 DEF SentInv, InFlight, Messages
<1>11. CalledInv' /\ CallbackOrder'
  BY <1>1, <1>4, <1>8 DEF DataInv, CalledInv, CallbackOrder, Messages
<1> QED
  BY <1>7, <1>9, <1>10, <1>11 DEF DataInv

\* A failed send and EAGAIN change neither the wire nor who is in flight.
LEMMA DataWriteFails ==
  ASSUME TypeOK, LockInv, DataInv, WriteFails
  PROVE  DataInv'
<1>1. /\ Dead' /\ writing = "send"
      /\ UNCHANGED <<transmit_jobs, writing, size, wire, called>>
      /\ job' = AfterFailure(job) /\ job \in Jobs /\ Unfinished(job)
  BY DEF WriteFails, SendFails, Dead, TypeOK, OutputTypes, envVars, outVars, streamVars
<1>2. job'.id = job.id /\ job'.size = job.size
  BY <1>1, FlushStep
<1> QED
  BY <1>1, <1>2 DEF DataInv, QueueInv, SentInv, StreamInOrder, CalledInv,
                    CallbackOrder, Queued, Messages

LEMMA DataWriteBlocks ==
  ASSUME LockInv, DataInv, WriteBlocks
  PROVE  DataInv'
<1>1. /\ writing = "send" /\ writing' = "queue" /\ transmit_jobs = <<>>
      /\ UNCHANGED <<transmit_jobs, job, size, wire, called, con, peer>>
  BY DEF WriteBlocks, LockInv, envVars, outVars, streamVars
<1> QED
  BY <1>1 DEF DataInv, QueueInv, SentInv, StreamInOrder, CalledInv, CallbackOrder,
              InFlight, InQueue, Queued, Messages, Dead

\* The callback of a job younger than all whose callback ran keeps the order.
LEMMA CallbackRuns ==
  ASSUME TypeOK, CallbackOrder, NEW j \in Jobs, Finish(j),
         \A k \in DOMAIN called : called[k] < j.id
  PROVE  /\ CallbackOrder'
         /\ \A k \in DOMAIN called' :
               called'[k] = j.id \/ \E i \in DOMAIN called : called'[k] = called[i]
<1>1. CASE called' = called
  BY <1>1 DEF CallbackOrder
<1>2. CASE called' = Append(called, j.id)
  <2>1. /\ DOMAIN called = 1..Len(called) /\ Len(called) \in Nat
        /\ DOMAIN called' = 1..(Len(called) + 1)
        /\ \A k \in DOMAIN called : called'[k] = called[k]
        /\ called'[Len(called) + 1] = j.id
    BY <1>2 DEF TypeOK, HistoryTypes, Jobs
  <2>2. \A k \in DOMAIN called' : k \in DOMAIN called \/ k = Len(called) + 1
    BY <2>1
  <2>3. ASSUME NEW i \in DOMAIN called', NEW k \in DOMAIN called', i < k
        PROVE  called'[i] < called'[k]
    <3>1. i \in DOMAIN called
      BY <2>1, <2>3
    <3> QED
      BY <2>1, <2>2, <2>3, <3>1 DEF CallbackOrder
  <2> QED
    BY <2>1, <2>2, <2>3 DEF CallbackOrder
<1> QED
  BY <1>1, <1>2 DEF Finish

LEMMA DataWriteDone ==
  ASSUME TypeOK, LockInv, DataInv, WriteDone
  PROVE  DataInv'
<1>1. /\ writing = "send" /\ writing' = "no" /\ transmit_jobs = <<>>
      /\ UNCHANGED <<transmit_jobs, size, wire, peer>>
      /\ con' => con
      /\ ~Unfinished(job) /\ job \in Jobs
  BY DEF WriteDone, Finish, LockInv, envVars, outVars, TypeOK, OutputTypes
<1>2. Queued = {} /\ Queued' = {} /\ job.id \in Messages /\ job.size = size[job.id]
  BY <1>1 DEF Queued, DataInv, QueueInv
<1>3. QueueInv' /\ StreamInOrder' /\ Len(wire') = Len(size')
  BY <1>1, <1>2 DEF DataInv, QueueInv, StreamInOrder, Messages
<1>4. SentInv'
  <2> SUFFICES ASSUME ~Dead PROVE SentInv'
    BY <1>1 DEF SentInv, Dead
  <2>1. /\ job.sent = wire[job.id]
        /\ \A i \in Messages : i # job.id => wire[i] = size[i]
    BY <1>1, <1>2 DEF DataInv, SentInv, InFlight, InQueue
  <2>2. wire[job.id] = size[job.id]
    <3>1. wire[job.id] \in Nat /\ size[job.id] \in Nat
      BY <1>2, Domains
    <3>2. wire[job.id] <= size[job.id]
      BY <1>2 DEF DataInv, StreamInOrder
    <3> QED
      BY <1>1, <1>2, <2>1, <3>1, <3>2 DEF Unfinished
  <2> QED
    BY <1>1, <1>2, <2>1, <2>2 DEF SentInv, Messages
<1>5. CalledInv' /\ CallbackOrder'
  <2>1. /\ \A k \in DOMAIN called : called[k] \in Messages /\ called[k] < job.id
        /\ CallbackOrder
    BY <1>1 DEF DataInv, CalledInv
  <2>2. /\ CallbackOrder'
        /\ \A k \in DOMAIN called' :
              called'[k] = job.id \/ \E i \in DOMAIN called : called'[k] = called[i]
    BY <1>1, <2>1, CallbackRuns DEF WriteDone
  <2> QED
    BY <1>1, <1>2, <2>1, <2>2 DEF CalledInv, Messages
<1> QED
  BY <1>3, <1>4, <1>5 DEF DataInv

LEMMA DataWriteQueue ==
  ASSUME TypeOK, LockInv, DataInv, WriteQueue
  PROVE  DataInv'
<1>1. /\ writing = "queue" /\ writing' = "no" /\ job \in Jobs
      /\ transmit_jobs' = Append(transmit_jobs, job)
      /\ UNCHANGED <<size, wire, called, con, peer>>
  BY DEF WriteQueue, Enqueued, TypeOK, OutputTypes, envVars, streamVars
<1> DEFINE last == Len(transmit_jobs) + 1
<1>2. /\ last \in Nat \ {0} /\ Queued = 1..(last - 1) /\ Queued' = 1..last
      /\ transmit_jobs'[last] = job
      /\ \A k \in Queued : transmit_jobs'[k] = transmit_jobs[k]
      /\ last > 1 => transmit_jobs # <<>>
  BY <1>1 DEF TypeOK, OutputTypes, Queued
<1> HIDE DEF last
<1>3. /\ \A k \in Queued' : k \in Queued \/ k = last
      /\ last \in Queued' /\ Queued \subseteq Queued'
      /\ \A k \in Queued : k < last /\ ~(last < k)
      /\ ~(last < last)
  BY <1>2
<1>4. /\ job.id = Len(size) /\ job.id \in Messages /\ job.size = size[job.id]
      /\ \A k \in Queued : transmit_jobs[k].id < job.id
  BY <1>1 DEF DataInv, QueueInv
<1>5. QueueInv'
  <2>1. \A k \in Queued' : /\ transmit_jobs'[k].id \in Messages'
                           /\ transmit_jobs'[k].size = size'[transmit_jobs'[k].id]
    BY <1>1, <1>2, <1>3, <1>4 DEF DataInv, QueueInv, Messages
  <2>2. \A i, k \in Queued' : i < k => transmit_jobs'[i].id < transmit_jobs'[k].id
    BY <1>2, <1>3, <1>4 DEF DataInv, QueueInv
  <2> QED
    BY <1>1, <2>1, <2>2 DEF QueueInv
<1>6. SentInv'
  <2> SUFFICES ASSUME ~Dead PROVE SentInv'
    BY <1>1 DEF SentInv, Dead
  <2>1. /\ \A k \in Queued : /\ transmit_jobs[k].sent = wire[transmit_jobs[k].id]
                             /\ k > 1 => transmit_jobs[k].sent = 0
        /\ job.sent = wire[job.id] /\ (transmit_jobs # <<>> => job.sent = 0)
        /\ \A i \in Messages : job.id # i /\ ~InQueue(i) => wire[i] = size[i]
    BY <1>1 DEF DataInv, SentInv, InFlight
  <2>2. \A k \in Queued' : /\ transmit_jobs'[k].sent = wire'[transmit_jobs'[k].id]
                           /\ k > 1 => transmit_jobs'[k].sent = 0
    <3>1. ASSUME NEW k \in Queued'
          PROVE  /\ transmit_jobs'[k].sent = wire[transmit_jobs'[k].id]
                 /\ k > 1 => transmit_jobs'[k].sent = 0
      BY <1>2, <1>3, <2>1
    <3> QED BY <1>1, <3>1
  <2>3. ASSUME NEW i \in Messages, ~InQueue(i)' PROVE wire[i] = size[i]
    <3>1. job.id # i /\ ~InQueue(i)
      BY <1>2, <1>3, <2>3 DEF InQueue
    <3> QED
      BY <2>1, <3>1
  <2> QED
    BY <1>1, <2>2, <2>3 DEF SentInv, Messages
<1>7. CalledInv' /\ CallbackOrder'
  BY <1>1, <1>2, <1>3 DEF DataInv, CalledInv, CallbackOrder, Messages
<1> QED
  BY <1>1, <1>5, <1>6, <1>7 DEF DataInv, StreamInOrder, Messages

LEMMA DataOutTaken ==
  ASSUME TypeOK, LockInv, DataInv, OutTaken
  PROVE  DataInv'
<1> DEFINE h == Head(transmit_jobs)
<1>1. /\ writing = "no" /\ transmit_jobs # <<>>
      /\ UNCHANGED <<writing, job, size, called, con, peer>>
  BY DEF OutTaken, LockInv, inVars, writeVars
<1>2. /\ h \in Jobs /\ h = transmit_jobs[1] /\ 1 \in Queued
      /\ Len(transmit_jobs) \in Nat /\ Queued = 1..Len(transmit_jobs)
  BY <1>1, HeadOfQueue, Domains DEF Queued
<1>3. PICK n \in 1..Room :
        /\ SendTaken(h, n)
        /\ transmit_jobs' = [transmit_jobs EXCEPT ![1] = AfterTaken(transmit_jobs[1], n)]
  BY DEF OutTaken
<1> HIDE DEF h
<1>4. ~Dead /\ h.id \in Messages /\ h.size = size[h.id]
  BY <1>2, <1>3 DEF SendTaken, DataInv, QueueInv
<1>5. /\ \A k \in Queued : /\ transmit_jobs[k].id \in Messages
                           /\ transmit_jobs[k].size = size[transmit_jobs[k].id]
                           /\ transmit_jobs[k].sent = wire[transmit_jobs[k].id]
                           /\ k > 1 => transmit_jobs[k].sent = 0
      /\ \A i, k \in Queued : i < k => transmit_jobs[i].id < transmit_jobs[k].id
      /\ \A i \in Messages : ~InQueue(i) => wire[i] = size[i]
  BY <1>1, <1>4 DEF DataInv, QueueInv, SentInv, InFlight
<1>6. /\ \A k \in Queued : k # 1 => 1 < k
      /\ \A k \in Queued : transmit_jobs[k].id \in Nat
      /\ \A i \in Messages : i \in Nat
  BY <1>2, <1>5, Domains
<1>7. ASSUME NEW i \in Messages, i < h.id PROVE wire[i] = size[i]
  <2>1. ASSUME NEW k \in Queued, transmit_jobs[k].id = i PROVE FALSE
    <3>1. CASE k = 1
      BY <1>2, <1>6, <1>7, <2>1, <3>1
    <3>2. CASE k # 1
      BY <1>2, <1>5, <1>6, <1>7, <2>1, <3>2
    <3> QED
      BY <3>1, <3>2
  <2> QED
    BY <1>5, <2>1 DEF InQueue
<1>8. /\ Len(wire') = Len(size') /\ StreamInOrder'
      /\ wire'[h.id] = h.sent + n
      /\ \A i \in Messages : i # h.id => wire'[i] = wire[i]
  BY <1>1, <1>2, <1>3, <1>4, <1>5, <1>7, OldestTaken
<1> DEFINE g == AfterTaken(transmit_jobs[1], n)
<1>9. g \in Jobs /\ g.id = h.id /\ g.size = h.size /\ g.sent = h.sent + n
  BY <1>2, <1>3, SendTakenTypes, FlushStep DEF SendTaken
<1> HIDE DEF g
<1>10. /\ Queued' = Queued /\ transmit_jobs'[1] = g
       /\ \A k \in Queued : k # 1 => transmit_jobs'[k] = transmit_jobs[k]
  BY <1>1, <1>3, <1>9, HeadReplaced DEF Queued, g
<1>11. \A k \in Queued : /\ transmit_jobs'[k].id = transmit_jobs[k].id
                         /\ transmit_jobs'[k].size = transmit_jobs[k].size
  BY <1>2, <1>9, <1>10
<1>12. QueueInv'
  BY <1>1, <1>5, <1>10, <1>11 DEF QueueInv, Messages
<1>13. SentInv'
  <2>1. \A k \in Queued : k # 1 => transmit_jobs[k].id # h.id
    BY <1>2, <1>5, <1>6
  <2>2. \A k \in Queued : /\ transmit_jobs'[k].sent = wire'[transmit_jobs'[k].id]
                          /\ k > 1 => transmit_jobs'[k].sent = 0
    BY <1>2, <1>5, <1>8, <1>9, <1>10, <1>11, <2>1
  <2>3. ASSUME NEW i \in Messages, ~InQueue(i)' PROVE wire'[i] = size[i]
    <3>1. ~InQueue(i)
      BY <1>10, <1>11, <2>3 DEF InQueue
    <3>2. i # h.id
      BY <1>2, <3>1 DEF InQueue
    <3> QED
      BY <1>5, <1>8, <3>1, <3>2
  <2> QED
    BY <1>1, <1>10, <2>2, <2>3 DEF SentInv, Messages
<1>14. CalledInv' /\ CallbackOrder'
  BY <1>1, <1>10, <1>11 DEF DataInv, CalledInv, CallbackOrder, Messages
<1> QED
  BY <1>8, <1>12, <1>13, <1>14 DEF DataInv

LEMMA DataOutFails ==
  ASSUME TypeOK, LockInv, DataInv, OutFails
  PROVE  DataInv'
<1>1. /\ Dead' /\ writing = "no" /\ transmit_jobs # <<>>
      /\ UNCHANGED <<writing, job, size, wire, called>>
      /\ transmit_jobs' = [transmit_jobs EXCEPT ![1] = AfterFailure(transmit_jobs[1])]
  BY DEF OutFails, SendFails, LockInv, Dead, envVars, inVars, writeVars, streamVars
<1>2. transmit_jobs[1] \in Jobs /\ Unfinished(transmit_jobs[1])
  BY <1>1, HeadOfQueue DEF OutFails, SendFails
<1> DEFINE g == AfterFailure(transmit_jobs[1])
<1>3. g \in Jobs /\ g.id = transmit_jobs[1].id /\ g.size = transmit_jobs[1].size
  BY <1>2, FlushStep
<1> HIDE DEF g
<1>4. /\ Queued' = Queued /\ transmit_jobs'[1] = g
      /\ \A k \in Queued : k # 1 => transmit_jobs'[k] = transmit_jobs[k]
  BY <1>1, <1>3, HeadReplaced DEF Queued, g
<1>5. \A k \in Queued : /\ transmit_jobs'[k].id = transmit_jobs[k].id
                        /\ transmit_jobs'[k].size = transmit_jobs[k].size
  BY <1>3, <1>4
<1> QED
  BY <1>1, <1>4, <1>5 DEF DataInv, QueueInv, SentInv, StreamInOrder, CalledInv,
                          CallbackOrder, Messages

LEMMA DataOutDone ==
  ASSUME TypeOK, LockInv, DataInv, OutDone
  PROVE  DataInv'
<1> DEFINE h == Head(transmit_jobs)
<1>1. /\ writing = "no" /\ transmit_jobs # <<>>
      /\ transmit_jobs' = Tail(transmit_jobs)
      /\ UNCHANGED <<writing, job, size, wire, peer>>
      /\ Finish(h) /\ (con' => con)
  BY DEF OutDone, Erased, Finish, LockInv, envVars, writeVars
<1>2. /\ h \in Jobs /\ h = transmit_jobs[1] /\ 1 \in Queued
      /\ Len(transmit_jobs) \in Nat \ {0} /\ Queued = 1..Len(transmit_jobs)
      /\ \A k \in Queued : transmit_jobs[k].id \in Nat
      /\ \A i \in Messages : i \in Nat
  <2>1. /\ h \in Jobs /\ h = transmit_jobs[1] /\ Len(transmit_jobs) \in Nat \ {0}
    BY <1>1, HeadOfQueue
  <2>2. /\ Queued = 1..Len(transmit_jobs) /\ Messages = 1..Len(size)
        /\ \A k \in Queued : transmit_jobs[k] \in Jobs
    BY Domains
  <2> QED
    BY <2>1, <2>2 DEF Jobs
<1>3. /\ Queued' = 1..(Len(transmit_jobs) - 1)
      /\ \A k \in Queued' : transmit_jobs'[k] = transmit_jobs[k + 1]
  BY <1>1, <1>2 DEF TypeOK, OutputTypes, Queued
<1> HIDE DEF h
<1>4. /\ \A k \in Queued' : k + 1 \in Queued /\ k + 1 > 1 /\ 1 < k + 1
      /\ \A i, k \in Queued' : i < k => i + 1 < k + 1
      /\ \A k \in Queued : k # 1 => k - 1 \in Queued' /\ (k - 1) + 1 = k
  BY <1>2, <1>3
<1>5. /\ \A k \in Queued : /\ transmit_jobs[k].id \in Messages
                           /\ transmit_jobs[k].size = size[transmit_jobs[k].id]
      /\ \A i, k \in Queued : i < k => transmit_jobs[i].id < transmit_jobs[k].id
  BY DEF DataInv, QueueInv
<1>6. QueueInv'
  BY <1>1, <1>3, <1>4, <1>5 DEF QueueInv, Messages
<1>7. SentInv'
  <2> SUFFICES ASSUME ~Dead PROVE SentInv'
    BY <1>1 DEF SentInv, Dead
  <2>1. /\ \A k \in Queued : /\ transmit_jobs[k].sent = wire[transmit_jobs[k].id]
                             /\ k > 1 => transmit_jobs[k].sent = 0
        /\ \A i \in Messages : ~InQueue(i) => wire[i] = size[i]
    BY <1>1 DEF DataInv, SentInv, InFlight
  <2>2. wire[h.id] = size[h.id]
    <3>1. wire[h.id] \in Nat /\ size[h.id] \in Nat /\ wire[h.id] <= size[h.id]
      BY <1>2, <1>5, Domains DEF DataInv, StreamInOrder
    <3>2. h.sent = wire[h.id] /\ h.size = size[h.id] /\ ~(h.sent < h.size)
      BY <1>1, <1>2, <1>5, <2>1 DEF Finish, Unfinished
    <3> QED
      BY <3>1, <3>2
  <2>3. \A k \in Queued' : /\ transmit_jobs'[k].sent = wire'[transmit_jobs'[k].id]
                           /\ k > 1 => transmit_jobs'[k].sent = 0
    BY <1>1, <1>3, <1>4, <2>1
  <2>4. ASSUME NEW i \in Messages, ~InQueue(i)' PROVE wire[i] = size[i]
    <3>1. CASE i = h.id
      BY <2>2, <3>1
    <3>2. CASE i # h.id
      <4>1. ASSUME NEW k \in Queued, transmit_jobs[k].id = i PROVE FALSE
        BY <1>2, <1>3, <1>4, <2>4, <3>2, <4>1 DEF InQueue
      <4> QED
        BY <2>1, <4>1 DEF InQueue
    <3> QED
      BY <3>1, <3>2
  <2> QED
    BY <1>1, <2>3, <2>4 DEF SentInv, Messages
<1>8. CalledInv' /\ CallbackOrder'
  <2>1. /\ \A k \in DOMAIN called : /\ called[k] \in Messages
                                    /\ \A i \in Queued : called[k] < transmit_jobs[i].id
        /\ CallbackOrder
    BY DEF DataInv, CalledInv
  <2>2. /\ CallbackOrder'
        /\ \A k \in DOMAIN called' :
              called'[k] = h.id \/ \E i \in DOMAIN called : called'[k] = called[i]
    BY <1>1, <1>2, <2>1, CallbackRuns
  <2>3. h.id \in Messages /\ \A k \in Queued' : h.id < transmit_jobs'[k].id
    BY <1>2, <1>3, <1>4, <1>5
  <2> QED
    BY <1>1, <1>3, <1>4, <2>1, <2>2, <2>3 DEF CalledInv, Messages
<1> QED
  BY <1>1, <1>6, <1>7, <1>8 DEF DataInv, StreamInOrder, Messages

\* The steps of the handler and of the world that touch neither the queue nor
\* a buffer; some of them break the socket, and none repairs it.
LEMMA OtherBreaks ==
  ASSUME \/ Dispatch \/ EnterHangup \/ HangupClose \/ HandlerThrows \/ Enter \/ RecvFull \/ RecvRest \/ RecvFails
         \/ \E n \in 0..in_buf, keep \in BOOLEAN : ProtoReturn(n, keep)
         \/ OutLock \/ OutHead \/ OutBlocks \/ OutEnd \/ Check \/ Rearm
         \/ EnvStep \/ UNCHANGED vars
  PROVE  /\ UNCHANGED <<transmit_jobs, writing, job, size, wire, called>>
         /\ Dead => Dead'
<1> USE DEF envVars, inVars, outVars, writeVars, ioVars, streamVars
<1>1. UNCHANGED <<transmit_jobs, writing, job, size, wire, called>>
  BY DEF Dispatch, EnterHangup, HangupClose, HandlerThrows, Close, Told, Enter, RecvFull, RecvRest, RecvFails, ProtoReturn,
         OutLock, OutHead, OutBlocks, OutEnd, Listening, Check, Pending, Rearm, Armed, EnvStep, vars
<1>2. con' => con
  BY Zenon DEF Dispatch, EnterHangup, HangupClose, HandlerThrows, Close, Told, Enter, RecvFull, RecvRest, RecvFails, ProtoReturn,
         OutLock, OutHead, OutBlocks, OutEnd, Listening, Check, Pending, Rearm, Armed, EnvStep, vars
<1>3. peer = "rst" => peer' = "rst"
  <2>1. CASE EnvStep
    BY <2>1 DEF EnvStep, PeerSends, PeerDrains, PeerLeaves
  <2>2. CASE ~EnvStep
    BY <2>2 DEF Dispatch, EnterHangup, HangupClose, HandlerThrows, Close, Told, Enter, RecvFull, RecvRest, RecvFails, ProtoReturn,
         OutLock, OutHead, OutBlocks, OutEnd, Listening, Check, Pending, Rearm, Armed, vars
  <2> QED
    BY <2>1, <2>2
<1> QED
  BY <1>1, <1>2, <1>3 DEF Dead

LEMMA DataStep ==
  ASSUME TypeOK, LockInv, DataInv, [Next]_vars
  PROVE  DataInv'
BY DataWriteEnter, DataWriteTaken, DataWriteFails, DataWriteBlocks, DataWriteDone,
   DataWriteQueue, DataOutTaken, DataOutFails, DataOutDone, DataQuiet, OtherBreaks
   DEF Next, WriteStep, IOStep

\* The invariant of Connection holds in every reachable state.
THEOREM Invariance == Spec => []IInv
<1>1. Init => IInv
  BY TypeInit, DataInit DEF IInv
<1>2. IInv /\ [Next]_vars => IInv'
  BY TypeStep, DataStep DEF IInv
<1> QED
  BY <1>1, <1>2, PTL DEF Spec

\* Buffers leave in the order of their acceptance, completely and once,
\* whichever threads write.
THEOREM StreamIsInOrder == Spec => []StreamInOrder
<1>1. IInv => StreamInOrder
  BY DEF IInv, DataInv
<1> QED
  BY <1>1, Invariance, PTL

\* Callbacks run once each, in the order of the buffers.
THEOREM CallbacksAreInOrder == Spec => []CallbackOrder
<1>1. IInv => CallbackOrder
  BY DEF IInv, DataInv
<1> QED
  BY <1>1, Invariance, PTL

LEMMA HonestFromInv == IInv => CallbackHonest
<1> SUFFICES ASSUME IInv, ~Dead, NEW k \in DOMAIN called
             PROVE  wire[called[k]] = size[called[k]]
  BY DEF CallbackHonest
<1>1. /\ called[k] \in Messages /\ called[k] \in Nat
      /\ \A i \in Queued : called[k] < transmit_jobs[i].id /\ transmit_jobs[i].id \in Nat
      /\ writing # "no" => called[k] < job.id /\ job.id \in Nat
  BY Domains DEF IInv, DataInv, CalledInv, Jobs, TypeOK, OutputTypes
<1>2. ~InFlight(called[k]) /\ ~InQueue(called[k])
  BY <1>1 DEF InFlight, InQueue
<1> QED
  BY <1>1, <1>2 DEF IInv, DataInv, SentInv

\* On a socket that works a callback means that the buffer was sent.
THEOREM CallbacksAreHonest == Spec => []CallbackHonest
BY HonestFromInv, Invariance, PTL

(***************************************************************************)
(* The connection implements the byte stream.                              *)
(***************************************************************************)

\* A step that leaves the buffers alone stutters or breaks the stream.
LEMMA StreamBreaks ==
  ASSUME UNCHANGED <<size, wire, called>>, Dead => Dead'
  PROVE  [Stream!Next]_(Stream!streamVars)
<1>1. CASE Dead'
  BY <1>1 DEF Stream!Next, Stream!Break
<1>2. CASE ~Dead'
  <2>1. Dead' = Dead
    BY <1>2 DEF Dead
  <2> QED
    BY <2>1 DEF Stream!streamVars
<1> QED
  BY <1>1, <1>2

\* flush_job's send is Transmit ...
LEMMA StreamTransmits ==
  ASSUME TypeOK, DataInv, NEW j \in Jobs, NEW n, SendTaken(j, n),
         UNCHANGED <<size, called, con, peer>>,
         j.id \in Messages, j.size = size[j.id], j.sent = wire[j.id],
         \A i \in Messages : i < j.id => wire[i] = size[i]
  PROVE  [Stream!Next]_(Stream!streamVars)
<1>1. /\ wire[j.id] \in Nat /\ size[j.id] \in Nat
      /\ n \in 1..(j.size - j.sent)
  BY Domains, SendTakenTypes
<1>2. wire[j.id] + n <= size[j.id] /\ n \in 1..size[j.id]
  BY <1>1
<1>3. ~Dead /\ Dead' = Dead
  BY DEF SendTaken, Dead
<1>4. Stream!Transmit(j.id, n)
  BY <1>2, <1>3 DEF Stream!Transmit, Stream!Messages, Stream!Complete, SendTaken, Messages
<1> QED
  BY <1>2, <1>4 DEF Stream!Next, Stream!Messages, Messages

\* ... and its callback is Notify.
LEMMA StreamNotifies ==
  ASSUME TypeOK, DataInv, NEW j \in Jobs, Finish(j),
         UNCHANGED <<size, wire, peer>>,
         j.id \in Messages, Dead \/ wire[j.id] = size[j.id],
         \A k \in DOMAIN called : called[k] < j.id
  PROVE  [Stream!Next]_(Stream!streamVars)
<1>1. Dead => Dead'
  BY DEF Finish, Dead
<1>2. CASE j.cb = "none"
  BY <1>1, <1>2, StreamBreaks DEF Finish
<1>3. CASE j.cb # "none"
  <2>1. Dead' = Dead \/ Dead' = TRUE
    BY <1>1 DEF Dead
  <2>2. Stream!Notify(j.id)
    BY <1>3, <2>1 DEF Finish, Stream!Notify, Stream!Complete
  <2> QED
    BY <2>2 DEF Stream!Next, Stream!Messages, Messages
<1> QED
  BY <1>2, <1>3

LEMMA StreamInit == Init => Stream!Init
BY DEF Init, Stream!Init, Dead

\* Every step of the connection is a step of the stream or a stutter.
LEMMA StreamStep ==
  ASSUME IInv, [Next]_vars
  PROVE  [Stream!Next]_(Stream!streamVars)
<1> USE DEF IInv
<1>1. ASSUME NEW t \in Threads, NEW s \in Sizes, NEW c \in Callbacks, WriteEnter(t, s, c)
      PROVE  [Stream!Next]_(Stream!streamVars)
  <2>1. Dead' = Dead
    BY <1>1 DEF WriteEnter, Pending, envVars, Dead
  <2>2. Stream!Accept(s)
    BY <1>1, <2>1 DEF WriteEnter, Pending, Stream!Accept
  <2> QED
    BY <2>2 DEF Stream!Next
<1>2. CASE WriteTaken
  <2>1. PICK n \in 1..Room : SendTaken(job, n)
    BY <1>2 DEF WriteTaken
  <2>2. /\ writing = "send" /\ Queued = {} /\ ~Dead /\ job \in Jobs
        /\ UNCHANGED <<size, called, con, peer>>
    BY <1>2, <2>1 DEF WriteTaken, LockInv, Queued, SendTaken, TypeOK, OutputTypes
  <2>3. /\ job.id \in Messages /\ job.size = size[job.id] /\ job.sent = wire[job.id]
        /\ \A i \in Messages : i # job.id => wire[i] = size[i]
    BY <2>2 DEF DataInv, QueueInv, SentInv, InFlight, InQueue
  <2>4. \A i \in Messages : i < job.id => i # job.id
    BY <2>3, Domains
  <2> QED
    BY <2>1, <2>2, <2>3, <2>4, StreamTransmits
<1>3. CASE WriteDone
  <2>1. /\ writing = "send" /\ Queued = {} /\ job \in Jobs /\ Finish(job)
        /\ UNCHANGED <<size, wire, peer>>
    BY <1>3 DEF WriteDone, LockInv, Queued, TypeOK, OutputTypes, envVars
  <2>2. /\ job.id \in Messages /\ job.size = size[job.id]
        /\ \A k \in DOMAIN called : called[k] < job.id
        /\ Dead \/ job.sent = wire[job.id]
    BY <2>1 DEF DataInv, QueueInv, SentInv, CalledInv
  <2>3. /\ wire[job.id] \in Nat /\ size[job.id] \in Nat /\ wire[job.id] <= size[job.id]
    BY <2>2, Domains DEF DataInv, StreamInOrder
  <2>4. Dead \/ wire[job.id] = size[job.id]
    BY <2>1, <2>2, <2>3 DEF Finish, Unfinished
  <2> QED
    BY <2>1, <2>2, <2>4, StreamNotifies
<1>4. CASE OutTaken
  <2> DEFINE h == Head(transmit_jobs)
  <2>1. PICK n \in 1..Room : SendTaken(h, n)
    BY <1>4 DEF OutTaken
  <2>2. /\ writing = "no" /\ transmit_jobs # <<>> /\ ~Dead
        /\ UNCHANGED <<size, called, con, peer>>
    BY <1>4, <2>1 DEF OutTaken, LockInv, SendTaken
  <2>3. /\ h \in Jobs /\ h = transmit_jobs[1] /\ 1 \in Queued
        /\ Queued = 1..Len(transmit_jobs) /\ Len(transmit_jobs) \in Nat
    BY <2>2, HeadOfQueue, Domains DEF Queued
  <2> HIDE DEF h
  <2>4. h.id \in Messages /\ h.size = size[h.id] /\ h.sent = wire[h.id]
    BY <2>2, <2>3 DEF DataInv, QueueInv, SentInv
  <2>5. ASSUME NEW i \in Messages, i < h.id PROVE wire[i] = size[i]
    <3>1. /\ i \in Nat /\ \A k \in Queued : transmit_jobs[k].id \in Nat
          /\ \A k \in Queued : k # 1 => h.id < transmit_jobs[k].id
      BY <2>3, Domains DEF DataInv, QueueInv
    <3>2. ASSUME NEW k \in Queued, transmit_jobs[k].id = i PROVE FALSE
      <4>1. CASE k = 1
        BY <2>3, <2>5, <3>1, <3>2, <4>1
      <4>2. CASE k # 1
        BY <2>3, <2>5, <3>1, <3>2, <4>2
      <4> QED
        BY <4>1, <4>2
    <3> QED
      BY <2>2, <3>2 DEF DataInv, SentInv, InFlight, InQueue
  <2> QED
    BY <2>1, <2>2, <2>3, <2>4, <2>5, StreamTransmits
<1>5. CASE OutDone
  <2> DEFINE h == Head(transmit_jobs)
  <2>1. /\ transmit_jobs # <<>> /\ Finish(h)
        /\ UNCHANGED <<size, wire, peer>>
    BY <1>5 DEF OutDone, Erased, LockInv, envVars
  <2>2. h \in Jobs /\ h = transmit_jobs[1] /\ 1 \in Queued
    BY <2>1, HeadOfQueue DEF Queued
  <2> HIDE DEF h
  <2>3. /\ h.id \in Messages /\ h.size = size[h.id]
        /\ \A k \in DOMAIN called : called[k] < h.id
        /\ Dead \/ h.sent = wire[h.id]
    BY <2>2 DEF DataInv, QueueInv, SentInv, CalledInv
  <2>4. /\ wire[h.id] \in Nat /\ size[h.id] \in Nat /\ wire[h.id] <= size[h.id]
    BY <2>3, Domains DEF DataInv, StreamInOrder
  <2>5. Dead \/ wire[h.id] = size[h.id]
    BY <2>1, <2>3, <2>4 DEF Finish, Unfinished
  <2> QED
    BY <2>1, <2>2, <2>3, <2>5, StreamNotifies
<1>6. CASE WriteFails \/ WriteBlocks \/ WriteQueue \/ OutFails
  <2>1. UNCHANGED <<size, wire, called, con, peer>>
    BY <1>6 DEF WriteFails, WriteBlocks, WriteQueue, Enqueued, OutFails, envVars, streamVars
  <2> QED
    BY <2>1, StreamBreaks DEF Dead
<1>7. CASE \/ Dispatch \/ EnterHangup \/ HangupClose \/ HandlerThrows \/ Enter \/ RecvFull \/ RecvRest \/ RecvFails
           \/ \E n \in 0..in_buf, keep \in BOOLEAN : ProtoReturn(n, keep)
           \/ OutLock \/ OutHead \/ OutBlocks \/ OutEnd \/ Check \/ Rearm
           \/ EnvStep \/ UNCHANGED vars
  BY <1>7, OtherBreaks, StreamBreaks
<1> QED
  BY <1>1, <1>2, <1>3, <1>4, <1>5, <1>6, <1>7 DEF Next, WriteStep, IOStep

\* The byte stream is implemented: whatever the threads, the loop and the peer
\* do, an observer of the buffers sees a run of ByteStream.
THEOREM Refinement == Spec => ImplementsStream
<1>1. IInv /\ [Next]_vars => [Stream!Next]_(Stream!streamVars)
  BY StreamStep
<1> QED
  BY <1>1, StreamInit, Invariance, PTL DEF Spec, ImplementsStream, Stream!Spec

(***************************************************************************)
(* Nothing comes after the hang-up.                                        *)
(***************************************************************************)

HangupInv == peerClosed > 0 => \/ ~con /\ ioPc = "idle"
                               \/ ioPc \in {"hangup", "threw"}

LEMMA HangupStep ==
  ASSUME TypeOK, LockInv, HangupInv, [Next]_vars
  PROVE  /\ HangupInv'
         /\ peerClosed > 0 => /\ peerClosed' = peerClosed
                              /\ ioPc' \notin {"recv", "proto"}
<1> USE DEF HangupInv, envVars, inVars, outVars, writeVars, ioVars, streamVars
<1>1. CASE EnterHangup \/ HangupClose \/ HandlerThrows
  BY <1>1 DEF EnterHangup, HangupClose, HandlerThrows, InHandler, Close, Told
<1>2. CASE WriteDone
  BY <1>2, Zenon DEF WriteDone, Finish
<1>3. ASSUME NEW t \in Threads, NEW s \in Sizes, NEW c \in Callbacks, WriteEnter(t, s, c)
      PROVE  UNCHANGED <<con, ioPc, peerClosed>>
  BY <1>3 DEF WriteEnter, Pending
<1>4. CASE \/ WriteTaken \/ WriteFails \/ WriteBlocks \/ WriteQueue
           \/ EnvStep \/ UNCHANGED vars
  <2>1. UNCHANGED <<con, ioPc, peerClosed>>
    BY <1>4 DEF WriteTaken, WriteFails, WriteBlocks, WriteQueue, Enqueued, EnvStep, vars
  <2> QED
    BY <2>1
<1>5. CASE \/ Dispatch \/ Enter \/ RecvFull \/ RecvRest \/ RecvFails
           \/ \E n \in 0..in_buf, keep \in BOOLEAN : ProtoReturn(n, keep)
           \/ OutLock \/ OutHead \/ OutTaken \/ OutFails \/ OutBlocks
           \/ OutDone \/ OutEnd \/ Check \/ Rearm
  <2>1. peerClosed' = peerClosed
    BY <1>5 DEF Dispatch, Enter, RecvFull, RecvRest, RecvFails, ProtoReturn, OutLock,
                OutHead, OutTaken, OutFails, OutBlocks, OutDone, Erased, OutEnd, Listening, Check, Pending, Rearm, Armed
  <2>2. ~(~con /\ ioPc = "idle") /\ ioPc \notin {"hangup", "threw"}
    BY <1>5 DEF Dispatch, Enter, RecvFull, RecvRest, RecvFails, ProtoReturn, OutLock,
                OutHead, OutTaken, OutFails, OutBlocks, OutDone, Erased, OutEnd, Listening, Check, Pending, Rearm, Armed
  <2> QED
    BY <2>1, <2>2
<1> QED
  BY <1>1, <1>2, <1>3, <1>4, <1>5 DEF Next, WriteStep, IOStep

\* After onPeerClose the protocol is never called again: no other thread's
\* write brings a closed socket back into the loop.
THEOREM HangupIsFinal == Spec => HangupIsLast
<1>1. Init => HangupInv
  BY DEF Init, HangupInv
<1>2. /\ TypeOK /\ LockInv /\ HangupInv /\ [Next]_vars => HangupInv'
  BY HangupStep
<1>3. TypeOK /\ LockInv /\ HangupInv /\ [Next]_vars
        => [peerClosed > 0 => /\ peerClosed' = peerClosed
                              /\ ioPc' \notin {"recv", "proto"}]_vars
  BY HangupStep
<1>4. IInv => TypeOK /\ LockInv
  BY DEF IInv
<1> QED
  BY <1>1, <1>2, <1>3, <1>4, Invariance, PTL DEF Spec, HangupIsLast

(***************************************************************************)
(* A single writer is never forgotten.                                     *)
(***************************************************************************)

\* Between the test of the queue and modFD nobody else touches either.
ArmedInv == AppThreads = {} =>
                /\ ioPc = "rearm" => (modOut <=> Pending)
                /\ ArmedWhenPending

\* The only writer writes from within onDataReceived and onPeerClose.
LEMMA OnlyWriter ==
  ASSUME TypeOK, LockInv, AppThreads = {}, writing # "no"
  PROVE  ioPc \in {"proto", "hangup"}
<1>1. transmit_job_mutex \in {IO} \cup {NoThread}
  BY DEF TypeOK, OutputTypes, Threads
<1> QED
  BY <1>1 DEF LockInv, InHandler

LEMMA ArmedStep ==
  ASSUME TypeOK, LockInv, ArmedInv, [Next]_vars
  PROVE  ArmedInv'
<1> SUFFICES ASSUME AppThreads = {}
             PROVE  /\ ioPc' = "rearm" => (modOut' <=> Pending')
                    /\ ArmedWhenPending'
  BY DEF ArmedInv
<1> USE DEF envVars, inVars, outVars, writeVars, ioVars, streamVars
<1>1. CASE WriteStep
  <2>1. writing # "no" /\ UNCHANGED ioPc
    BY <1>1 DEF WriteStep, WriteTaken, WriteFails, WriteBlocks, WriteDone, WriteQueue
  <2>2. ioPc' \in {"proto", "hangup"}
    BY <2>1, OnlyWriter
  <2> QED
    BY <2>2 DEF ArmedWhenPending
<1>2. CASE \E t \in Threads, s \in Sizes, c \in Callbacks : WriteEnter(t, s, c)
  <2>1. ioPc \in {"proto", "hangup"} /\ UNCHANGED ioPc
    BY <1>2 DEF WriteEnter, Pending, MayWrite, InHandler, Threads
  <2> QED
    BY <2>1 DEF ArmedWhenPending
<1>3. CASE Check
  <2>1. ioPc' = "rearm" /\ modOut' = Pending /\ Pending' = Pending
    BY <1>3 DEF Check, Pending
  <2> QED
    BY <2>1 DEF ArmedWhenPending
<1>4. CASE Rearm
  <2>1. /\ ioPc = "rearm" /\ ioPc' = "idle" /\ con' = con
        /\ con => interest' = Armed
        /\ Pending' = Pending
    BY <1>4 DEF Rearm, Pending
  <2>2. Pending => "OUT" \in Armed
    BY <2>1 DEF ArmedInv, Armed
  <2> QED
    BY <2>1, <2>2 DEF ArmedWhenPending
<1>5. CASE HangupClose
  <2>1. ~con' /\ ioPc' = "idle"
    BY <1>5 DEF HangupClose, Close
  <2> QED
    BY <2>1 DEF ArmedWhenPending
<1>6. CASE \/ Dispatch \/ EnterHangup \/ HandlerThrows \/ Enter \/ RecvFull \/ RecvRest \/ RecvFails
           \/ \E n \in 0..in_buf, keep \in BOOLEAN : ProtoReturn(n, keep)
           \/ OutLock \/ OutHead \/ OutTaken \/ OutFails \/ OutBlocks \/ OutDone \/ OutEnd
  <2>1. ioPc' \notin {"idle", "rearm"}
    BY <1>6 DEF Dispatch, EnterHangup, HandlerThrows, Enter, AfterInput, RecvFull, RecvRest, RecvFails, ProtoReturn,
                OutLock, OutHead, OutTaken, OutFails, OutBlocks, OutDone, OutEnd
  <2> QED
    BY <2>1 DEF ArmedWhenPending
<1>7. CASE EnvStep \/ UNCHANGED vars
  <2>1. UNCHANGED <<con, interest, transmit_jobs, ioPc, modOut>>
    BY <1>7 DEF EnvStep, vars
  <2> QED
    BY <2>1 DEF ArmedInv, ArmedWhenPending, Pending
<1> QED
  BY <1>1, <1>2, <1>3, <1>4, <1>5, <1>6, <1>7 DEF Next, IOStep

\* With the loop's thread as the only writer the rest of a buffer never waits in
\* the queue of a socket that is not armed for output.
THEOREM SingleWriterIsArmed == Spec => []ArmedWhenPending
<1>1. Init => ArmedInv
  BY DEF Init, ArmedInv, ArmedWhenPending, Pending
<1>2. ArmedInv => ArmedWhenPending
  BY DEF ArmedInv, ArmedWhenPending
<1>3. TypeOK /\ LockInv /\ [Next]_vars => (TypeOK /\ LockInv)'
  BY TypeStep
<1>4. TypeOK /\ LockInv /\ ArmedInv /\ [Next]_vars => ArmedInv'
  BY ArmedStep
<1> QED
  BY TypeInit, <1>1, <1>2, <1>3, <1>4, PTL DEF Spec

===============================================================================
