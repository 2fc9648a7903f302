# A TLA+ development of cndl

cndl is an embeddable C++ web server: an epoll loop of the library simplyfile
(not part of the repository) runs the handlers of its sockets in as many
threads as the application gives it, `ConnectionHandler` turns events into
buffered input and output, `HttpProtocol` and `Websocket` turn bytes into
requests and messages, and the `Dispatcher` finds the application's route.
This directory holds TLA+ modules of those parts, the TLC runs that check them
on small instances, and TLAPS proofs for instances of any size about the
connection, the server, the websocket, the protocol and the functions that read
the text of a request.

## 1. The system

### Components, their state and their operations

| component | state | operations | modelled in |
|---|---|---|---|
| `ConnectionHandler` | `con`, `in_buf`, `transmit_jobs`, `transmit_job_mutex`, `protocol`, `outBufferSize` | `write`, `operator()` (events), `close`, `getOutBufferSize` | `Connection`, `ByteStream` |
| `HttpProtocol` | `header` | `onDataReceived`, `connection_upgrade` | `HttpProtocol`, `Dialogue` (its promise), `Dispatcher` (upgrade) |
| `Websocket` | `handler`, `frag_buffer`, `cur_opcode`, `auto_ping` | `onDataReceived`, `onPeerClose`, `send`, `ping`, `close`, `setAutoPing`, its two timers | `Websocket`, `AutoPing`, `FrameHeader` |
| `Dispatcher`, `Route`, `WSRoute` | `routes`, `ws_routes`, two mutexes | `route`, `routeWS`, `addRoute`, `removeRoute` | `Dispatcher` |
| `Server` | listening sockets, the dispatcher | `listen`, accept handler, destructor | `Server` (without the destructor) |
| `Request` parsing | none | `parse_header`, `parse_fields`, `extractFieldVals`, `url_unescape`, `readMultipartBody` | `RequestText` |
| `StaticFileHandler` | none; a file that others change | `operator()` | `StaticFileHandler` (the answer to a file that exists) |
| `base64` | none | `base64_encode`, `base64_decode` | `Base64` |
| `Response`, dates | none | text layout, tables | the statuses that can be serialized, in `HttpProtocol` |
| `unique_function`, `overloaded`, `Error` | none | language helpers | not modelled |

### How they interact

* The loop calls `ConnectionHandler::operator()` with the events of a socket
  registered with EPOLLONESHOT; the handler re-arms it with `modFD`.
* `operator()` calls `protocol->onDataReceived` with everything in `in_buf`,
  erases what it reports as consumed and replaces the protocol if told to.
* Protocols and application threads call `write`, which sends at once if
  nothing is queued and otherwise queues the rest and asks for EPOLLOUT.
  `on_after_sent` runs in whichever thread sent the last byte; the websocket's
  close frame uses it to close the socket.
* The listening socket is registered with EPOLLONESHOT, too: its handler accepts
  until nobody waits, registers a `ConnectionHandler` for each client, and
  re-arms itself. All of this runs in the threads that run the handlers of
  requests.
* A websocket's ping timer and timeout timer are handlers of the same loop; the
  callback of a sent ping starts the timeout, a pong cancels it.
* `HttpProtocol` calls the dispatcher, which calls the application's handler
  with its mutex locked; an upgrade takes a route from `routeWS`, writes 101,
  calls `onOpen` and hands the connection to a `Websocket`.

### What is hard here

Writers of several threads against the event handler; a mutex that covers the
queue but not the epoll registration; partial sends and callbacks that move a
job between two functions; bytes cut anywhere with state kept over calls; error
paths that leave a loop, a protocol or a socket in place; application code that
runs under a lock or removes what a thread is using. PROJECT.json lists each
such place under `hazards` with the properties that cover it, or why none does.

### What makes each component correct

* Connection: the bytes leave as one stream in the order of acceptance; a
  callback runs once, in order and not early; the size it reports is exact;
  what was accepted is sent; a hangup is reported once and last; a connection
  without protocol is closed when, and only when, all is sent.
* HttpProtocol: each request gets its answer, in order, from its own body,
  whatever the segmentation; a header that is none gets a refusal; no byte is
  lost or used twice; a call returns.
* Websocket: the handler sees whole messages in order, once; a client that
  keeps to the protocol is not dropped; `onClose` is the last call.
* Auto-ping: a client that answers in time is not dropped, a dead one is noticed,
  and within interval and timeout when the pings are further apart than that.
* Dispatcher: a handler runs on an existing, best route; one answer each; no
  thread waits for ever.
* Server: whoever connects is accepted, however busy the threads are.
* Text: what a client puts into a path, an argument, a cookie, a header field or
  a part of a multipart body is what the application gets, whatever separators
  it contains; memory behind a text never matters.
* Files: an answer's range names the bytes that it carries, also when the file
  changes while it is served or is read short.

## 2. The modules

**ByteStream** is the promise of `ConnectionHandler.h:35-39` without threads,
queue, lock or loop: messages are accepted, their bytes leave in order without
a gap, callbacks run in order and not before the message is sent, and the
stream may break at any time.

**Connection** is `ConnectionHandler.cpp`. `IO` is the loop's thread,
`AppThreads` are the application's. `write` is `WriteEnter` (lock, the test of
`transmit_jobs.empty()`), one step per call of `send` in `flush_job`
(`WriteTaken`, `WriteFails`, `WriteBlocks`), and `WriteDone` or `WriteQueue`.
`operator()` follows `ioPc`: `EnterHangup` and `HangupClose` (the protocol's
`onPeerClose` runs between them) or `Enter`, `RecvFull`/`RecvRest`/`RecvFails`,
`ProtoReturn` (what the protocol did is any consumption, any writes before it and
any decision to drop the protocol), the EPOLLOUT branch (`OutLock` to `OutEnd`),
`Check` (queue under the lock) and `Rearm` (modFD without it). Within
`onDataReceived` and `onPeerClose` (`InHandler`) the loop's thread may write, and
either may throw (`HandlerThrows`): what follows the call in `operator()` is then
skipped, the one-shot registration stays disarmed, and the thread goes no further,
since nothing in src/ catches it. `size_t` arithmetic is modulo `Word`. The rest is environment:
epoll readiness, the kernel's send buffer (`room`), and a peer that sends,
reads, shuts down or resets. `size`, `wire`, `called` and `peerClosed` are
history. `MCConnection` adds the properties that hold in some instances only.

**Dialogue** is what a client of an HTTP connection may rely on, without buffers,
kept header and counts: its requests are answered one at a time and in order, each
from its own body, not before all of it is there, and a request becomes an answer in
one step (`Answer`), which also says where the protocol goes (`After`). A client
that sends a request before the one before was answered is promised only that what was said stays said and
that nothing is said after the protocol was left (`Garble`), since the code cuts its
requests wrongly. A header that is none is refused, too (`Refuse`); an error of the
server ends the connection, while one of the client is said again and again
(`Repeat`) and nothing else is, as the code never gets past it.

**HttpProtocol** is the loop of `HttpProtocol::onDataReceived`. A byte is a pair
of its request and its place in it, so that bodies, headers and their remains
can be told apart without modelling text. The kinds of a request say what
happens to it: answered ("ok"), answered to a client of HTTP/1.0 ("old"), refused
with an error below 500 ("rejected"), failed with one from 500 on ("failed"),
upgraded, upgraded by a route whose `onOpen` throws after the 101 was written
("halfopen" for an error below 500, "openfailed" for one of 500), with a header that
`parse_header` refuses with 400 ("malformed") or reads out of range, which becomes a
500 ("overrun"), or answered with a status for which `Response::serialize` has no reason: by the application's
response ("unlisted", which becomes a 500), or by an error ("strange", which
throws out of a catch clause and so out of `onDataReceived`). An answer records its
status, its request, its body and, in `opened`, whether a 101 went before it. The
catch clauses answer errors of the header as well (`Catch`); a malformed one is met
again in the next round and answered again, and the history keeps the first
`MaxAnswers` of these. The version of the
request is read from a header that was moved from (line 167), so an old client's
protocol may be dropped or not. The view is cut by the count of the whole
call, as line 103 does. `ImplementsDialogue` maps it to Dialogue: the bytes to come
are `Len(outgoing)`, and `State` is what has become of the connection as soon as
`onDataReceived` has decided it, although `operator()` replaces the protocol only after
the call has returned.

**Websocket** is `Websocket::onDataReceived`, `onPeerClose` and `close`. A byte
is its place in the client's stream; frames have an opcode (one that nobody knows
included), FIN, a payload and an extended length. `Shortest` is the length of a header without extended
length, 6 in the code.

**Dispatcher** is `Dispatcher.cpp` with `Route::operator()`, `WSRoute::canOpen`
and `onOpen` and the part of `connection_upgrade` that uses them. Regular
expressions are abstracted: a request says of each route whether it matches,
with what score, and whether its handler can be called. It has the actions;
which thread may take a request when is **Server**'s, which extends it with the
listening socket of `Server.cpp`: `AddListener` and `Listen` (the socket is
registered before it listens, 27 and 44, so that a loop that runs early may see
EPOLLHUP and give it up, `Hangup`), the handler's `Accept`, `AcceptsNoMore` and
`Rearm` as steps of their own, and threads of which each runs one handler at a
time.

**AutoPing** is `setAutoPing` with its handlers, and of the rest what they meet:
the pong of `onDataReceived`, `close`, `onPeerClose`, and the write queue as
counts of pings. Time passes in ticks, and none passes while the loop has
something due. A client that lives answers within `Latency` ticks of what the
kernel took; it may die at any time, after which the kernel's buffer only fills.

**RequestText** is `Request.cpp` on sequences of bytes, with its errors: a
function returns a value or rejects. `url_unescape` gets, besides the text, what
lies behind it in memory, which `from_chars` may read (23). **Base64**,
**FrameHeader** (the length of a frame in `Websocket::send` and `onDataReceived`)
and **StaticFileHandler** (which gets the file as `fstat` sees it and what `pread`
meets: the file by then, how many bytes it transfers at most, whether it fails) are
functions, too. **MCFunctions** lets a text grow byte by byte and compares
each function with a definition of what it is for: a client that escapes, the
bits of a text in groups of six, the bytes of a file that a range names.

**Sums** adds up numbers and joins sequences (what is queued in Connection, where a
frame of Websocket starts, the bytes of a client in HttpProtocol and in Dialogue, the
escaped bytes of a text in MCFunctions) as recursive functions, about which the prover can be told something.

**ConnectionProofs**, **AutoPingProofs**, **ServerProofs**, **WebsocketProofs** and
**HttpProofs** hold the theorems about the modules of those names,
**ConnectionCountProofs** the one about the size of Connection's queue,
**FunctionProofs** those about FrameHeader, StaticFileHandler, RequestText and Base64,
and **SumProofs** the
lemmas about sums and about induction that four of them use.

Definitions called "Faulty" are variants of the one that follows them, each
with a mistake that could be made in that code. No action uses them; put in
the place of the original they make the property that is about that mistake
fail.

## 3. The runs

| run | result | what it shows |
|---|---|---|
| `conn_safety` | holds | `TypeOK`, `StreamInOrder`, `CallbackOrder`, `CallbackHonest`, `CountExact`, `HangupIsLast` and the refinement `ImplementsStream`, with two application threads besides the loop's, shutdowns and resets |
| `conn_live` | holds | with the loop's thread as the only writer: `ArmedWhenPending`, `SentInTheEnd` (while the peer stays, the protocol is kept and no handler throws) and `PeerCloseSeen` (unless a handler threw) |
| `conn_lost_wakeup` | violated | with one more writer `SentInTheEnd` fails: its EPOLLOUT is overwritten by the handler's `modFD` |
| `conn_bail_out` | violated | a connection without protocol whose socket takes only a part of the last answer is closed with the rest unsent; with `Room = 3` the answer is sent at once, and the connection stays open |
| `http_loop` | holds | `AnswersInStep`, `NothingLeftBehind`, `ConsumedFits`, `ReturnsUnlessMalformed` and the refinement `ImplementsDialogue` for every segmentation of three requests of eleven kinds, refusals that are repeated included |
| `http_pipelined` | violated | of two requests in one call the second is cut wrongly |
| `http_returns` | violated | a malformed header is answered for ever within one call |
| `ws_frames` | holds | `HandlerToldInOrder`, `NothingLeftBehind`, `DroppedForCause`, `ClosedOnce` for all sequences of three frames and all cuts |
| `ws_header_cut` | violated | an extended header that arrives in pieces throws out of the handler |
| `ping` | holds | `NoFalseTimeout`, `DetectedInTime`, `DeadClientNoticed` for pings closer together and further apart than the timeout |
| `dispatch` | holds | `HandlerOnBestRoute`, `AnsweredOnce`, `EveryRequestEnds`, `EveryClientAccepted` with two threads that accept and serve and an application that changes the tables |
| `functions` | holds | `NothingFromBehind`, `FieldsAreThePieces`, `ClientTextArrives`, `MultipartArrives`, `Base64RoundTrip`, `LengthArrives`, `RangeIsWhatItSays` |

The violated ones state what a comment of the source says; `findings` in
PROJECT.json quotes it and names the line that differs.

What the properties had to leave out, in the words of the code, is worth
knowing as well:

* The end of the EPOLLOUT branch (`ConnectionHandler.cpp:118`) looks at the
  protocol only: a connection without protocol whose socket takes no more is
  closed with the rest unsent, and one with nothing queued is not closed
  (`conn_bail_out`). So `SentInTheEnd` promises nothing once the
  protocol is gone.
* A handler that throws out of `operator()` (a header cut as in `ws_header_cut`, an
  error without a reason) leaves the socket disarmed: neither what is queued nor the
  peer's hangup is seen any more, which `SentInTheEnd` and `PeerCloseSeen` except.
* A malformed header is answered with 400 without end, within one call
  (`http_returns`): `AnswersInStep` allows these repetitions after it, and only these.
* A written close frame may never be sent, as `conn_lost_wakeup` shows or when the
  peer reads no more, and then its callback does not close the socket. That a
  websocket is closed after `onClose` is therefore promised nowhere.
* After a reset `send` returns -1, which is added to `bytes_sent` (19) and may
  wrap around: the callback runs for a buffer that was not sent. `CallbackHonest`
  is about sockets that work.
* A pong that one thread reads before another has run the callback of its ping
  (`Websocket.cpp:97`, 212) cancels nothing, and the client is dropped at the
  timeout. `NoFalseTimeout` excepts exactly this (`overtaken`).
* Each ping starts the timeout again. With pings closer together than it, a dead
  client is noticed only when the kernel takes no more pings; if none could be
  sent at all, never; and with a full buffer the close frame is queued behind the
  rest and the socket stays open (`Websocket.cpp:189`): `DetectedInTime` is about
  pings further apart, with room for a ping and the close frame, and
  `DeadClientNoticed` about the handler's being told.
* A list that ends in a delimiter or in blanks is rejected, where a blank element
  in its middle ends the list (`Request.cpp:61-63`); a resource ends at an escaped
  question mark (147); arguments and cookies are unescaped twice (73, 117, 160);
  a content-length beyond `size_t` counts as 0 (177). Of several content-lengths the
  model takes the first, where `find` of an `unordered_multimap` may take any (174);
  no property has a request with two.
* The end of a range is taken as exclusive (`StaticFileHandler.cpp:74`), and an
  empty range announces a last byte before its first, wrapped around at 0 (81).
  `pread` (89) transfers at most 0x7ffff000 bytes: a larger file, or range, is answered
  with 500 although nothing is wrong with it. `RangeIsWhatItSays` says both.
* `onOpen` that throws leaves a connection with 101 and an error (`AnswersInStep`
  records the pair, `AnsweredOnce` allows it), and a loop that runs before `listen` may lose the socket (`early`
  in `EveryClientAccepted`).

### Bounds, and why they are enough

* Connection: three buffers of one or two bytes and a send buffer of two make
  every relation of job and room appear (taken at once, in part, not at all),
  with a queue of none, one or more jobs behind it; the third buffer is the one
  that can overtake. Two application threads and the loop's give every order
  of three writers. `Word = 4` is above every single buffer and below what three of
  them add up to, so that `outBufferSize` wraps around, as `bytes_sent` does after
  an error; the other runs of Connection use 16, which no sum reaches. `conn_bail_out`
  needs one buffer of three bytes and a room of one. `ReadSize = 2` with two bytes of input gives a
  full, a partial and an empty read. The application threads are symmetric.
  Callbacks notify or close; a buffer without callback only shows less.
* HttpProtocol: three requests, so that one is kept over calls between two
  others; bodies of zero and two bytes and headers of two, so that every kind
  of cut exists: within a header, at its end, within a body, at its end. `MaxAnswers = 5`
  keeps two refusals behind those of three requests that were answered once.
* Websocket: three frames hold a start, a control frame in between and an end,
  or a message and the start of the next. A header of two bytes and one of
  three have all the cuts of 6, 8 and 14; `ws_header_cut` uses the real lengths. Of the
  control frames without FIN, which the code treats alike, only pings occur.
* Functions: twenty bytes (separators, line ends, quote, percent sign, digits, a letter,
  0, 1, 125, 126 and 255) in texts of up to three (of up to six, the text twice, for
  the content of a part, so that it may contain CRLF CRLF): an escape that is cut, complete
  or followed by another byte, a list with two delimiters, the groups of base64
  (texts are doubled for two of them), numbers of up to three bytes for lengths
  beyond 65535. `Word = 70000` is passed by some of those numbers. A file of up to
  three bytes has every relation to ranges of up to four, of which `IntMax = 3` leaves
  one number that `std::stoi` does not read. `pread` transfers at most any number of bytes
  up to that length, or fails. `SizeWord` is above all of them, so that the byte before 0
  is told from the others.
* AutoPing: intervals below, at and above the timeouts, a latency of one tick
  below them, and room for three pings, so that the buffer can fill before a
  timeout and after it. `MaxQueue = 2` counts queued pings up to two; a third
  changes nothing that the next one would not.
* Server and Dispatcher: two routes and two scores decide every choice, two
  threads every contention for a mutex and for the listening socket, with one
  accepting and one serving, or both serving and a client waiting. Two clients:
  one that is served while the other connects. One websocket route: the order in which
  `routeWS` asks several is written down but not exercised.

### Fairness

`FairSpec` asks that a thread which can go on does (the writer that holds the
lock, the loop's thread, a call of `onDataReceived`, a thread of the loop in the
dispatcher), which the operating system gives; in Connection that the peer
reads what it is sent, without which nothing could be promised. Websocket has none:
nothing is promised there about what happens in the end.
In AutoPing the loop runs what is due and time passes (weak fairness of `Loop`
and `Tick`); nothing asks the client to answer, to read or to die. In Server a
pending event is delivered in the end although threads get busy in between
(strong fairness of `Fire`: epoll does not withhold an event), and `accept` does
not fail every time while somebody waits (strong fairness of `Accept`); without
either a client may wait for ever. The mutexes need no
more than weak fairness: only finitely many requests compete in the bounded
instance, so that one that waits is let in. Nothing forces the peer to send, the
application to write or to change routes.

### Assumptions of the models

* The loop runs one socket's handler in one thread at a time. simplyfile
  decides this; `write` re-arms the registration while the handler may be
  running, so it depends on that library.
* A callback does not call `write` on the same connection (the code would hold
  references into a vector that grows) and a handler does not add or remove
  routes (its thread would wait for itself).
* `modFD` on a closed socket does nothing; `con.valid()` and `modFD` are one
  step. The reuse of a descriptor by a new connection is not modelled.
* Handlers of the application return or throw. An exception that leaves `operator()`
  ends the thread for this connection: nothing in src/ catches it, and whether the
  loop's caller does and goes on with the closed or disarmed socket is not modelled.
  Time does not pass while the loop has
  something to do: a loop that is slower than its timers is not modelled.
* Routes are removed only when they are registered. A route may be destroyed
  while an upgrade uses it; the thread then ends in the state "undefined".

## 4. What is proved

`ConnectionProofs` proves for every set of application threads, every number
and size of buffers, every room, input and fault, from `ConnectionAssumption`:

* `TypeCorrect`: `TypeOK`, with `bytes_sent` and `outBufferSize` within `size_t`;
* `StreamIsInOrder`, `CallbacksAreInOrder`, `CallbacksAreHonest`: the safety
  properties of the stream and its callbacks;
* `Refinement`: `Spec => ImplementsStream`;
* `HangupIsFinal`: the action property `HangupIsLast`, also with writes from within
  `onPeerClose`;
* `SingleWriterIsArmed`: `ArmedWhenPending`, for a connection whose only writer is the
  loop's thread, which writes from within `onDataReceived`: nobody touches the queue
  or the registration between the handler's test and its `modFD` (`ArmedInv`).

None of these properties is inductive. The invariant `IInv` that carries them is
`TypeOK`, `LockInv` and `DataInv`. `LockInv` says where the thread that holds the
mutex is: a write is between its steps only while somebody holds it, and the
handler is in its output branch only while `IO` holds it and no write is
running, so that one of the two at most touches the queue. `DataInv` relates the
pieces: the queue holds accepted messages in their order and the one being
written is the youngest (`QueueInv`); on a socket that works `bytes_sent` is what
the kernel took, only the oldest unfinished message has sent anything, and one
that is neither queued nor being written is complete (`SentInv`, `StreamInOrder`);
callbacks ran for messages older than all that are left (`CalledInv`,
`CallbackOrder`). On a dead socket nothing more is taken and only the order
remains. `Invariance` shows that every action keeps `IInv`, with one lemma for
each action that touches the queue, the running job or the stream; `Refinement`
then maps every step to `Accept`, `Transmit`, `Notify`, `Break` or a stutter.

`AutoPingProofs` proves for all intervals, all timeouts and every latency below
them, from `AutoPingAssumption`:

* `AnsweringClientsStay`: `NoFalseTimeout`. What carries it is `AgeInv`: what is
  left of a running timeout and the age of some unanswered ping make up the whole
  timeout, since each tick takes from one what it gives to the other. When the
  timeout is over that ping is older than the latency allows. `CallbackInv` gives
  the start of it: the callback runs while its ping is new.
* `DeadClientsAreDetected`: `DetectedInTime`. `DeadlineInv` follows a dead client's
  connection: the next ping is due (`NextPingDue`), is under way (`PingUnderway`),
  the timeout runs (`TimeoutRuns`), the close frame is due (`CloseFrameDue`). In
  each the ticks since the death and those the timer has left stay within the
  deadline, and there is room for what must still be sent.
* `TypeCorrect`: `TypeOK`.

`ServerProofs` proves for any number of threads, routes and requests, from
`DispatcherAssumption`:

* `HandlersOnBestRoute`: `HandlerOnBestRoute`. `MutexInv` says that whoever is in a
  handler holds `routes_mutex`, and `TableInv` that the tables hold routes that
  exist; so no other thread and no call of the application touches the table
  between the choice and the handler's return.
* `OneAnswerEach`: `AnsweredOnce`, from `AnswerInv`, which gives for each place of
  a thread what it has written so far.
* `TypeCorrect` and `ServerTypeCorrect`: `TypeOK` and `ServerTypeOK`.

`WebsocketProofs` proves for any frames and pieces:

* `OnCloseIsLast`: `ClosedOnce`. Once `onClose` was called the call of
  `onDataReceived` returns the null protocol, or the websocket or its socket is gone
  (`Over`).
* `FramesAreConsumed` and `ClientsAreDroppedForCause`: `NothingLeftBehind` and
  `DroppedForCause`, from `FrameInv`. Its `ViewInv` says that the view of a call is
  the buffer without what was consumed; its `PlaceInv` that the view begins where a
  frame begins, that the loop is left only when less than a frame is there, and that
  `frag_buffer` is empty at a frame unless a message is open there or the client has
  broken the protocol (`FragInv`). So the check that a message does not start inside
  of another (`Websocket.cpp:68`) can only fail for a client that earned it.
* `HandlerIsToldInOrder`: `HandlerToldInOrder`, from `ToldInv`. Wherever the loop
  stands in a stream that was well formed so far, the handler was told of all
  messages that end before, `frag_buffer` is what the open message carried and
  `cur_opcode` what it began with. The set of frames that belong to a message grows
  by one with each frame or starts anew (`OpenNext`), so that its payloads are joined
  one by one.
* `TypeCorrect`: `TypeOK`.

`HttpProofs` proves from `HttpAssumption`:

* `ConsumedIsThere`: `ConsumedFits`, also for pipelined requests, where view and
  count drift apart: `ViewInv` shows that the view ends before what was not consumed
  does, or else the call returns with an error.
* `AnswersInOrder` and `NothingIsLeft`: `AnswersInStep` and `NothingLeftBehind`, for
  clients that await their answers. Once a malformed header was refused (`Refusing`) its
  request stays the one whose turn it is (`Current`). `StepInv` says where a call stands in the
  client's stream: what is to come is the end of the stream (`OutInv`), what is
  unread belongs to the first unanswered request and follows what its header or its
  body has used up (`PlaceInv`), the view is exactly that (`LoopInv`), and the loop
  is left only when something is missing (`RestInv`). That a header ends or a body is
  complete then says which bytes it has.
* `DialogueRefined`: `Spec => ImplementsDialogue`. `Receive` is `Arrive`, `Handle` is
  `Answer` or `Die`, and `Catch` is `Refuse` the first time a header is refused and
  `Repeat` from then on, or a stutter when the history is full; every
  other step stutters, and for a client that did not wait all of them are `Garble` or
  stutter. `DecisionInv` adds what `StepInv` does not say: within the loop nothing has
  been decided yet about the protocol, a kept header is one, and a client that waits is
  refused only for a header that is none and that has arrived (`RefusalInv`), and after it
the loop has nothing but that header before it (`RefusedInv`). `Counts`
  translates between the bytes that have not arrived and the sizes of the requests, so
  that `Here` holds when the code finds a header or a body complete.
* `TypeCorrect`: `TypeOK`.

`ConnectionCountProofs` proves `CountIsExact`, which is `CountExact`, from
`ConnectionAssumption`. While operator()'s `flush_job` runs, the counter is late by
what was sent of the first job (`Owed`): `CountInv` says that the backlog and what is
owed are together what `outBufferSize` counts, up to a multiple of `Word`. A call of
`send` moves bytes from one to the other; the end of `flush_job` takes off what is owed.
It needs `IInv`: no job has sent more than it has, and nobody writes meanwhile.

`FunctionProofs` proves from `FunctionAssumption`, for any bytes and any `MaxLen` that
`size_t` holds:

* `RangesAreHonest`: `RangeIsWhatItSays`. `ServeIsHonest` says more: whatever range
  fields a request has, and whatever becomes of the file after `fstat`, as long as its
  bytes stay or go but do not change, however few of them `pread` gives, the answer's
  body are the bytes its range names, the last of them modulo `SizeWord` (`LastAnnounced`).
  The bytes that `pread` finds are as many as were asked for just when they are
  those of the file as `fstat` saw it (`BodyIsHonest`).
* `FrameLengthsArrive`: `LengthArrives`, which follows from `LengthIsRead`: every length
  below 2^64 is read as it was written, whatever follows. When `i` bytes were read, what
  was read is what the writer had left after `width - i` divisions
  (`BigEndianArrives`), so that all of the length is there if nothing is left after
  `width` (`TwoBytesSuffice`, `EightBytesSuffice`). `InSizeT`
  states the bound 2^64 by halves of 32 bits, as the prover's numerals end below it.
* `NothingIsFromBehind`: `NothingFromBehind`. `url_unescape` is a recursive function
  over the places of the text; `UnescapeIs` builds it from the end on, where only later
  places are looked at. Wherever one byte from behind the text would be read, this call
  or the next rejects; at the other places the values agree if all later ones do.
* `FieldsArePieces`: `FieldsAreThePieces`. `BlankPiece` and `FullPiece` say what
  `extractFieldVals` makes of the text from a cut on, given what it makes of the text
  from the next. The fields from there on (`ListedFrom`) and their places then grow by
  one at each cut that is met from the end (`ListGrows`).
* `Base64IsUndone`: `Base64RoundTrip`. Four groups of six bits are three bytes
  (`Sextets`). `Encoded` says, for each rest of `i` divided by three, what the encoder
  has written and still holds after `i` bytes; `Decoded` does so for the decoder and
  four, and `StopsBehind` that it stops at the padding.
* `EscapeIsUndone`: a text escaped byte by byte is unescaped to what it was.
  `CodesBoth` carries it: two texts that are not rejected are unescaped one after the
  other, since no escape reaches over the seam.
* `ArgumentsArrive` and `CookiesArrive`: any number of pairs of any texts, escaped
  twice, arrive. Escaped texts contain neither blanks nor separators (`IsEscaped`), so
  that the pieces of the list are the printed pairs (`PieceIsRead`, `ListArrives`) and
  each pair is taken apart at its equals sign (`PairIsField`). A field of cookies is
  unescaped as a whole first (`CodesAll`).
* `FieldsArrive`: any number of fields, whose names are as `parse_fields` leaves them
  and whose values are any texts but the empty one (which the code rejects), arrive. A
  line ends where a line end is first found (`FindLineEnd`), which is not within an escaped
  value; `LineIsRead` takes it apart, and the rest is read from the line after.

Connection's queue, Websocket, HttpProtocol and the functions rest on `SumProofs`. A sum is a recursive function over `0..n`, and
what holds for all of its values is shown by induction over the set of the numbers for
which it holds (`SetInduction`, from the least element of a set of numbers), since the
induction theorem of the library cannot be applied. It gives that the function exists,
its equations, that it grows, that it can be taken apart at its first element
(`SumHead`), and where the elements of a joined sequence come from (`JoinPlaces`).

Only model-checked: everything about liveness (`conn_live`, `http_loop`,
`ping`, `dispatch`), as the prover handles neither fairness nor ENABLED;
and `ClientTextArrives` and `MultipartArrives` as wholes. Of the first the theorems give
what becomes of a path, of the arguments, the cookies and the fields for texts of any
length; how `parse_header` cuts a request line into these, and the number of the
content-length, which is a fold over its digits, are left to the run. Of the second
`readMultipartBody`'s search for boundaries is.

## 5. Not modelled, and what remains

Not modelled, because what happens is undefined or decided elsewhere: callbacks
that write to their own connection (`ConnectionHandler.cpp:100`), the use of a
destroyed route, websocket, timer or dispatcher after the step that does it,
`onOpen` that closes its websocket (`HttpProtocol.cpp:79`), removing a route that
is not registered (`Dispatcher.cpp:87`), the reuse of a file descriptor and how
many threads simplyfile lets into one handler. Not modelled, because nothing is
decided there: the layout of an answer, cookies of a response, dates, content
types, regular expressions, SHA-1, `unique_function` and `overloaded`. Moving a
handler, a dispatcher or a server is done before any of them is used.

What remains:

1. HttpProtocol and Websocket over Connection, to carry a request's bytes to the
   answer's through both.
2. Proofs about `parse_header` and `readMultipartBody` as wholes.

## 6. Running it

    tlasany Connection.tla
    tlc -workers 2 -config ConnectionSafety.cfg MCConnection.tla
    tlapm ConnectionProofs.tla

PROJECT.json names the module and configuration of every run.
