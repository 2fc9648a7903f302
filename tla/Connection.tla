------------------------------ MODULE Connection ------------------------------
(***************************************************************************)
(* One client connection: ConnectionHandler::Pimpl of ConnectionHandler.cpp*)
(* with the threads that use it, the epoll registration of its socket and  *)
(* the peer.                                                               *)
(*                                                                         *)
(* The thread IO runs operator() for the events of this socket.  Every     *)
(* thread may call write: the application's threads at any time, IO from   *)
(* within protocol->onDataReceived and protocol->onPeerClose.  A write is  *)
(* acceptance under the lock (WriteEnter), the calls of send in flush_job  *)
(* (Send...), and, when the socket takes no more, the queueing of the rest *)
(* (WriteQueue).                                                           *)
(*                                                                         *)
(* Only lengths of buffers are modelled, not their bytes.  A job carries   *)
(* the number of its acceptance, id, which the code does not have; size,   *)
(* wire, called and peerClosed record what happened and no guard but the   *)
(* bound MaxJobs reads them.                                               *)
(***************************************************************************)
EXTENDS Naturals, Sequences, Sums

CONSTANTS
    IO,         \* the loop's thread that handles this socket
    AppThreads, \* application threads that call write
    NoThread,   \* nobody: the mutex is free
    MaxJobs,    \* bound: calls of write over the whole run
    Sizes,      \* lengths of the buffers passed to write
    Callbacks,  \* what on_after_sent does: nothing, notify somebody, close
    Room,       \* capacity of the kernel's send buffer
    MaxIn,      \* bound: bytes the peer sends over the whole run
    ReadSize,   \* read_size of operator() (4096 in the code)
    Faults,     \* what the peer may do to end the connection
    Word        \* size_t counts modulo Word (2^64 in the code)

Threads == AppThreads \cup {IO}

ASSUME ConnectionAssumption ==
    /\ IO \notin AppThreads
    /\ NoThread \notin Threads
    /\ MaxJobs \in Nat
    /\ Word \in Nat \ {0}
    /\ Sizes \subseteq 0..(Word - 1)
    /\ Callbacks \subseteq {"none", "notify", "close"}
    /\ Room \in Nat \ {0}
    /\ MaxIn \in Nat
    /\ ReadSize \in Nat \ {0}
    /\ Faults \subseteq {"fin", "rst"}

VARIABLES
    \* the socket, its peer and its epoll registration (outside src/)
    con,                \* con.valid(): the socket is open and registered
    peer,               \* "up", "fin" (has shut down) or "rst" (has reset)
    room,               \* free bytes in the kernel's send buffer
    inbox,              \* bytes received and not read yet
    sentIn,             \* bytes the peer has sent so far
    interest,           \* the events armed; {} when EPOLLONESHOT has fired
    \* Pimpl
    in_buf,             \* length of in_buf
    transmit_jobs,
    transmit_job_mutex, \* the thread that holds it
    protocol,           \* FALSE when the protocol pointer is null
    outBufferSize,
    \* locals of a running write (one at a time: it holds the mutex)
    writing,            \* "no", "send" (in flush_job) or "queue"
    job,
    \* locals of operator()
    ioPc, flags, toSend, modOut,
    \* history
    size, wire, called, peerClosed

envVars == <<peer, room, inbox, sentIn>>
inVars == <<in_buf, protocol, peerClosed>>
outVars == <<transmit_jobs, outBufferSize>>
writeVars == <<transmit_job_mutex, writing, job>>
ioVars == <<ioPc, flags, toSend, modOut>>
streamVars == <<size, wire, called>>
vars == <<con, peer, room, inbox, sentIn, interest, in_buf, transmit_jobs,
          transmit_job_mutex, protocol, outBufferSize, writing, job, ioPc,
          flags, toSend, modOut, size, wire, called, peerClosed>>

Jobs == [id : Nat, size : Sizes \cup {0}, sent : 0..(Word - 1),
         cb : Callbacks \cup {"none"}]

NoJob == [id |-> 0, size |-> 0, sent |-> 0, cb |-> "none"]

\* size_t arithmetic
AddW(a, b) == IF a + b < Word THEN a + b ELSE a + b - Word
SubW(a, b) == IF b <= a THEN a - b ELSE a + Word - b

Min2(a, b) == IF a <= b THEN a ELSE b

\* send and recv return -1 with an errno that is not EAGAIN.
Dead == ~con \/ peer = "rst"

Init == /\ con = TRUE /\ peer = "up" /\ room = Room
        /\ inbox = 0 /\ sentIn = 0 /\ interest = {"IN"}
        /\ in_buf = 0 /\ protocol = TRUE /\ outBufferSize = 0
        /\ transmit_jobs = <<>> /\ transmit_job_mutex = NoThread
        /\ writing = "no" /\ job = NoJob
        /\ ioPc = "idle" /\ flags = {} /\ toSend = 0 /\ modOut = FALSE
        /\ size = <<>> /\ wire = <<>> /\ called = <<>> /\ peerClosed = 0

(***************************************************************************)
(* flush_job: one call of send for a job that is not finished.             *)
(***************************************************************************)

\* Mutant: one byte less is enough.
FaultyUnfinished(j) == j.sent + 1 < j.size

Unfinished(j) == j.sent < j.size

\* The kernel takes n bytes.
SendTaken(j, n) == /\ ~Dead /\ Unfinished(j)
                   /\ n \in 1..Min2(room, j.size - j.sent)
                   /\ room' = room - n
                   /\ wire' = [wire EXCEPT ![j.id] = @ + n]

\* It takes none now: EAGAIN.
SendBlocks(j) == ~Dead /\ Unfinished(j) /\ room = 0

\* It fails: the loop still adds the return value, -1, to bytes_sent.
SendFails(j) == Dead /\ Unfinished(j)

AfterTaken(j, n) == [j EXCEPT !.sent = AddW(@, n)]

\* Mutant: the return value is added without the width of size_t.
FaultyAfterFailure(j) == [j EXCEPT !.sent = IF @ = 0 THEN Word ELSE @ - 1]

AfterFailure(j) == [j EXCEPT !.sent = SubW(@, 1)]

\* The loop of flush_job has ended: it runs the callback.
Finish(j) == /\ ~Unfinished(j)
             /\ called' = IF j.cb = "none" THEN called ELSE Append(called, j.id)
             /\ con' = (con /\ j.cb # "close")
             /\ interest' = IF j.cb = "close" THEN {} ELSE interest

(***************************************************************************)
(* write                                                                   *)
(***************************************************************************)

\* The loop's thread is in onDataReceived or in onPeerClose.
InHandler == ioPc = "proto" \/ (ioPc = "hangup" /\ protocol)

MayWrite(t) == t = IO => InHandler

\* Mutant: a single job does not count.
FaultyPending == Len(transmit_jobs) > 1

Pending == transmit_jobs # <<>>

\* Thread t gets the lock with a new job and tests transmit_jobs.empty().
WriteEnter(t, s, c) ==
    /\ MayWrite(t)
    /\ transmit_job_mutex = NoThread
    /\ Len(size) < MaxJobs
    /\ transmit_job_mutex' = t
    /\ job' = [id |-> Len(size) + 1, size |-> s, sent |-> 0, cb |-> c]
    /\ writing' = IF Pending THEN "queue" ELSE "send"
    /\ size' = Append(size, s)
    /\ wire' = Append(wire, 0)
    /\ UNCHANGED <<con, envVars, interest, inVars, outVars, ioVars, called>>

WriteTaken == /\ writing = "send"
              /\ \E n \in 1..Room : SendTaken(job, n) /\ job' = AfterTaken(job, n)
              /\ UNCHANGED <<con, peer, inbox, sentIn, interest, inVars, outVars,
                             transmit_job_mutex, writing, ioVars, size, called>>

WriteFails == /\ writing = "send"
              /\ SendFails(job)
              /\ job' = AfterFailure(job)
              /\ UNCHANGED <<con, envVars, interest, inVars, outVars,
                             transmit_job_mutex, writing, ioVars, streamVars>>

WriteBlocks == /\ writing = "send"
               /\ SendBlocks(job)
               /\ writing' = "queue"
               /\ UNCHANGED <<con, envVars, interest, inVars, outVars, job,
                              transmit_job_mutex, ioVars, streamVars>>

\* flush_job returns true: write is over.
WriteDone == /\ writing = "send"
             /\ Finish(job)
             /\ writing' = "no" /\ job' = NoJob
             /\ transmit_job_mutex' = NoThread
             /\ UNCHANGED <<envVars, inVars, outVars, ioVars, size, wire>>

\* Mutant: the job forgets what was already sent of it.
FaultyEnqueued(j) == Append(transmit_jobs, [j EXCEPT !.sent = 0])

Enqueued(j) == Append(transmit_jobs, j)

\* The rest is accounted for and queued, and the socket is armed for output.
WriteQueue == /\ writing = "queue"
              /\ outBufferSize' = AddW(outBufferSize, SubW(job.size, job.sent))
              /\ transmit_jobs' = Enqueued(job)
              /\ interest' = IF con THEN {"IN", "OUT"} ELSE interest
              /\ writing' = "no" /\ job' = NoJob
              /\ transmit_job_mutex' = NoThread
              /\ UNCHANGED <<con, envVars, inVars, ioVars, streamVars>>

WriteStep == \/ WriteTaken \/ WriteFails \/ WriteBlocks
             \/ WriteDone \/ WriteQueue

(***************************************************************************)
(* operator(): the handler of the socket's events.  The loop runs it in    *)
(* one thread at a time for one socket.                                    *)
(***************************************************************************)

Ready == (IF peer # "up" THEN {"HUP"} ELSE {})
         \cup (interest \cap ((IF inbox > 0 \/ peer # "up" THEN {"IN"} ELSE {})
                              \cup (IF room > 0 THEN {"OUT"} ELSE {})))

\* epoll_wait returns the socket, which EPOLLONESHOT disarms, and the loop calls.
Dispatch == /\ ioPc = "idle"
            /\ con /\ interest # {} /\ Ready # {}
            /\ ioPc' = "enter" /\ flags' = Ready
            /\ interest' = {}
            /\ UNCHANGED <<con, envVars, inVars, outVars, writeVars, toSend,
                           modOut, streamVars>>

\* Mutant: the socket stays open and is armed.
FaultyClose == UNCHANGED con /\ interest' = {"IN"}

Close == con' = FALSE /\ interest' = {}

\* Mutant: nobody is told.
FaultyTold == peerClosed

Told == peerClosed + (IF protocol THEN 1 ELSE 0)

\* The peer hung up: the protocol is told, and may write in onPeerClose ...
EnterHangup == /\ ioPc = "enter" /\ "HUP" \in flags
               /\ peerClosed' = Told
               /\ ioPc' = "hangup"
               /\ UNCHANGED <<con, envVars, interest, in_buf, protocol, outVars,
                              writeVars, flags, toSend, modOut, streamVars>>

\* ... and when it returns the socket is closed.
HangupClose == /\ ioPc = "hangup" /\ transmit_job_mutex # IO
               /\ Close
               /\ ioPc' = "idle" /\ flags' = {}
               /\ UNCHANGED <<envVars, inVars, outVars, writeVars, toSend, modOut,
                              streamVars>>

AfterInput == IF "OUT" \in flags THEN "out" ELSE "check"

Enter == /\ ioPc = "enter" /\ "HUP" \notin flags
         /\ ioPc' = IF "IN" \in flags /\ protocol THEN "recv" ELSE AfterInput
         /\ UNCHANGED <<con, envVars, interest, inVars, outVars, writeVars,
                        flags, toSend, modOut, streamVars>>

\* recv fills the space it was given: the loop goes round again.
RecvFull == /\ ioPc = "recv" /\ ~Dead /\ inbox >= ReadSize
            /\ in_buf' = in_buf + ReadSize /\ inbox' = inbox - ReadSize
            /\ UNCHANGED <<con, peer, room, sentIn, interest, protocol, peerClosed,
                           outVars, writeVars, ioVars, streamVars>>

\* recv returns less, nothing at all (end of file) or EAGAIN.
RecvRest == /\ ioPc = "recv" /\ ~Dead /\ inbox < ReadSize
            /\ in_buf' = in_buf + inbox /\ inbox' = 0
            /\ ioPc' = "proto"
            /\ UNCHANGED <<con, peer, room, sentIn, interest, protocol, peerClosed,
                           outVars, writeVars, flags, toSend, modOut, streamVars>>

\* recv fails: resize(head + r) with r = -1 drops a byte that was read before;
\* with an empty buffer it throws length_error out of the handler.
RecvFails == /\ ioPc = "recv" /\ Dead
             /\ in_buf' = IF in_buf = 0 THEN 0 ELSE in_buf - 1
             /\ ioPc' = IF in_buf = 0 THEN "threw" ELSE "proto"
             /\ UNCHANGED <<con, envVars, interest, protocol, peerClosed, outVars,
                            writeVars, flags, toSend, modOut, streamVars>>

\* onDataReceived returns: it consumed n bytes and may have dropped the protocol.
\* Before it returns IO may write: WriteEnter(IO, ...) and WriteStep.
ProtoReturn(n, keep) == /\ ioPc = "proto" /\ transmit_job_mutex # IO
                        /\ in_buf' = in_buf - n
                        /\ protocol' = keep
                        /\ ioPc' = AfterInput
                        /\ UNCHANGED <<con, envVars, interest, peerClosed, outVars,
                                       writeVars, flags, toSend, modOut, streamVars>>

\* onDataReceived or onPeerClose throws out of operator(): nothing is erased,
\* armed or closed.  Nothing in src/ catches it: the thread goes no further.
HandlerThrows == /\ InHandler /\ transmit_job_mutex # IO
                 /\ ioPc' = "threw"
                 /\ UNCHANGED <<con, envVars, interest, inVars, outVars, writeVars,
                                flags, toSend, modOut, streamVars>>

OutLock == /\ ioPc = "out" /\ transmit_job_mutex = NoThread
           /\ transmit_job_mutex' = IO
           /\ ioPc' = "outHead"
           /\ UNCHANGED <<con, envVars, interest, inVars, outVars, writing, job,
                          flags, toSend, modOut, streamVars>>

\* The loop takes the first job and remembers how much of it is left.
OutHead == /\ ioPc = "outHead" /\ transmit_jobs # <<>>
           /\ toSend' = SubW(Head(transmit_jobs).size, Head(transmit_jobs).sent)
           /\ ioPc' = "outSend"
           /\ UNCHANGED <<con, envVars, interest, inVars, outVars, writeVars,
                          flags, modOut, streamVars>>

OutTaken == /\ ioPc = "outSend"
            /\ \E n \in 1..Room :
                  /\ SendTaken(Head(transmit_jobs), n)
                  /\ transmit_jobs' = [transmit_jobs EXCEPT ![1] = AfterTaken(@, n)]
            /\ UNCHANGED <<con, peer, inbox, sentIn, interest, inVars, outBufferSize,
                           writeVars, ioVars, size, called>>

OutFails == /\ ioPc = "outSend"
            /\ SendFails(Head(transmit_jobs))
            /\ transmit_jobs' = [transmit_jobs EXCEPT ![1] = AfterFailure(@)]
            /\ UNCHANGED <<con, envVars, interest, inVars, outBufferSize, writeVars,
                           ioVars, streamVars>>

\* Mutant: only a job that is finished is accounted for.
FaultyAccounted(j) == IF Unfinished(j) THEN outBufferSize ELSE SubW(outBufferSize, toSend)

\* outBufferSize after flush_job worked on job j.
Accounted(j) == SubW(outBufferSize, SubW(toSend, SubW(j.size, j.sent)))

\* flush_job returned false: the loop is left.
OutBlocks == /\ ioPc = "outSend"
             /\ SendBlocks(Head(transmit_jobs))
             /\ outBufferSize' = Accounted(Head(transmit_jobs))
             /\ ioPc' = "outEnd"
             /\ UNCHANGED <<con, envVars, interest, inVars, transmit_jobs, writeVars,
                            flags, toSend, modOut, streamVars>>

\* Mutant: a finished job stays in the queue.
FaultyErased == transmit_jobs

Erased == Tail(transmit_jobs)

\* flush_job returned true: the job is erased and the loop goes round again.
OutDone == /\ ioPc = "outSend"
           /\ Finish(Head(transmit_jobs))
           /\ outBufferSize' = Accounted(Head(transmit_jobs))
           /\ transmit_jobs' = Erased
           /\ ioPc' = "outHead"
           /\ UNCHANGED <<envVars, inVars, writeVars, flags, toSend, modOut, size, wire>>

Listening == protocol

\* After the loop: without a protocol the socket is closed; the lock is released.
OutEnd == /\ ioPc = "outEnd" \/ (ioPc = "outHead" /\ transmit_jobs = <<>>)
          /\ con' = (con /\ Listening)
          /\ interest' = IF Listening THEN interest ELSE {}
          /\ transmit_job_mutex' = NoThread
          /\ ioPc' = "check"
          /\ UNCHANGED <<envVars, inVars, outVars, writing, job, flags, toSend,
                         modOut, streamVars>>

\* Under the lock: is there something left to send?
Check == /\ ioPc = "check" /\ transmit_job_mutex = NoThread
         /\ modOut' = Pending
         /\ ioPc' = "rearm"
         /\ UNCHANGED <<con, envVars, interest, inVars, outVars, writeVars, flags,
                        toSend, streamVars>>

\* Mutant: mod_flags is passed as it was before the test of the queue.
FaultyArmed == {"IN"}

Armed == {"IN"} \cup (IF modOut THEN {"OUT"} ELSE {})

\* Without the lock: the socket, if it is open, is armed accordingly.
Rearm == /\ ioPc = "rearm"
         /\ interest' = IF con THEN Armed ELSE interest
         /\ ioPc' = "idle" /\ flags' = {} /\ toSend' = 0 /\ modOut' = FALSE
         /\ UNCHANGED <<con, envVars, inVars, outVars, writeVars, streamVars>>

IOStep == \/ Dispatch \/ EnterHangup \/ HangupClose \/ HandlerThrows \/ Enter
          \/ RecvFull \/ RecvRest \/ RecvFails
          \/ \E n \in 0..in_buf, keep \in BOOLEAN : ProtoReturn(n, keep)
          \/ OutLock \/ OutHead \/ OutTaken \/ OutFails
          \/ OutBlocks \/ OutDone \/ OutEnd
          \/ Check \/ Rearm

(***************************************************************************)
(* The peer and the kernel, as long as the socket is open.                 *)
(***************************************************************************)

PeerSends == /\ con /\ peer = "up" /\ sentIn < MaxIn
             /\ sentIn' = sentIn + 1 /\ inbox' = inbox + 1
             /\ UNCHANGED <<peer, room>>

\* The peer reads: the send buffer has space again.
PeerDrains == /\ con /\ peer # "rst" /\ room < Room
              /\ room' = Room
              /\ UNCHANGED <<peer, inbox, sentIn>>

\* The peer shuts its side down, or resets the connection.
PeerLeaves(how) == /\ con /\ peer # "rst" /\ peer # how
                   /\ peer' = how
                   /\ UNCHANGED <<room, inbox, sentIn>>

EnvStep == /\ \/ PeerSends
              \/ PeerDrains
              \/ \E how \in Faults : PeerLeaves(how)
           /\ UNCHANGED <<con, interest, inVars, outVars, writeVars, ioVars, streamVars>>

Next == \/ \E t \in Threads, s \in Sizes, c \in Callbacks : WriteEnter(t, s, c)
        \/ WriteStep
        \/ IOStep
        \/ EnvStep

Spec == Init /\ [][Next]_vars

(***************************************************************************)
(* Fairness.  A thread that can go on does so: the writer that holds the   *)
(* lock and the loop's thread.  The peer reads what it is sent.            *)
(***************************************************************************)

PeerReads == PeerDrains /\ EnvStep

FairSpec == /\ Spec
            /\ WF_vars(WriteStep)
            /\ WF_vars(IOStep)
            /\ WF_vars(PeerReads)

(***************************************************************************)
(* Properties                                                              *)
(***************************************************************************)

Messages == DOMAIN size

SocketTypes ==
    /\ con \in BOOLEAN /\ peer \in {"up", "fin", "rst"}
    /\ room \in 0..Room /\ inbox \in Nat /\ sentIn \in 0..MaxIn
    /\ interest \in SUBSET {"IN", "OUT"}

HandlerTypes ==
    /\ in_buf \in Nat /\ protocol \in BOOLEAN /\ peerClosed \in Nat
    /\ ioPc \in {"idle", "enter", "hangup", "recv", "proto", "out", "outHead", "outSend",
                 "outEnd", "check", "rearm", "threw"}
    /\ flags \in SUBSET {"HUP", "IN", "OUT"} /\ modOut \in BOOLEAN

OutputTypes ==
    /\ transmit_jobs \in Seq(Jobs) /\ job \in Jobs
    /\ transmit_job_mutex \in Threads \cup {NoThread}
    /\ writing \in {"no", "send", "queue"}
    /\ outBufferSize \in 0..(Word - 1) /\ toSend \in 0..(Word - 1)

HistoryTypes ==
    /\ size \in Seq(Sizes) /\ wire \in Seq(Nat) /\ called \in Seq(Nat)

\* Every variable of the connection has its type; bytes_sent and
\* outBufferSize of Pimpl stay within the width of size_t.
TypeOK == SocketTypes /\ HandlerTypes /\ OutputTypes /\ HistoryTypes

\* The peer reads the buffers in the order in which write accepted them: no
\* byte of a buffer leaves before every earlier buffer has left completely,
\* and none leaves twice, whichever threads write and whoever runs flush_job.
StreamInOrder ==
    /\ \A i \in Messages : wire[i] <= size[i]
    /\ \A i, k \in Messages : i < k /\ wire[k] > 0 => wire[i] = size[i]

\* on_after_sent of a buffer runs at most once, and in the order of the
\* buffers, also when write's own flush_job and operator()'s compete.
CallbackOrder ==
    \A i, k \in DOMAIN called : i < k => called[i] < called[k]

\* While the socket works, on_after_sent means that all bytes were sent.
CallbackHonest ==
    ~Dead => \A k \in DOMAIN called : wire[called[k]] = size[called[k]]

\* What is left to be sent of the jobs in the queue.
Backlog == SumTo([k \in DOMAIN transmit_jobs |->
                     transmit_jobs[k].size - transmit_jobs[k].sent], Len(transmit_jobs))

\* What getOutBufferSize reports whenever nobody is sending, on a socket that
\* works, is the number of accepted bytes that the kernel has not taken, as far
\* as a size_t can tell it.
CountExact ==
    ~Dead /\ transmit_job_mutex = NoThread => outBufferSize = Backlog % Word

\* When operator() has returned and jobs are left, the socket is armed for
\* output, if the loop's thread is the only writer.  (With another one this
\* fails: see SentInTheEnd of MCConnection.)
ArmedWhenPending ==
    AppThreads = {} /\ con /\ Pending /\ ioPc = "idle" => "OUT" \in interest

\* Once the protocol was told that the peer hung up it is never told again
\* and never gets data: no write of another thread, nor one from within
\* onPeerClose, re-arms the socket.
HangupIsLast ==
    [][peerClosed > 0 => /\ peerClosed' = peerClosed
                         /\ ioPc' \notin {"recv", "proto"}]_vars

\* Every run of the connection is one of the byte stream that write promises.
Stream == INSTANCE ByteStream WITH broken <- Dead

ImplementsStream == Stream!Spec
===============================================================================
