------------------------------ MODULE ByteStream ------------------------------
(***************************************************************************)
(* What a caller of ConnectionHandler::write may rely on, with no threads, *)
(* no queue, no lock and no epoll loop (ConnectionHandler.h, comments of   *)
(* write and close).                                                       *)
(*                                                                         *)
(* Messages are numbered in the order in which write accepted them.  Their *)
(* bytes leave on one stream, message after message and without a gap, for *)
(* as long as the connection is not broken (closed by this side or reset   *)
(* by the peer).  A message's on_after_sent callback runs at most once, in *)
(* the order of the messages, and not before the message is transmitted    *)
(* unless the connection is broken.                                        *)
(***************************************************************************)
EXTENDS Naturals, Sequences

CONSTANTS
    Sizes,      \* the lengths of the buffers that callers pass to write
    MaxJobs     \* bound: how many buffers are written over the whole run

VARIABLES
    size,       \* size[i]: length of the i-th accepted message
    wire,       \* wire[i]: how many bytes of it the kernel has taken
    called,     \* the messages whose callback ran, in that order
    broken      \* the connection was closed or reset

streamVars == <<size, wire, called, broken>>

Messages == DOMAIN size

Complete(i) == wire[i] = size[i]

Init == /\ size = <<>>
        /\ wire = <<>>
        /\ called = <<>>
        /\ broken = FALSE

\* A caller hands over a buffer of s bytes: it goes behind all earlier ones.
Accept(s) == /\ Len(size) < MaxJobs
             /\ size' = Append(size, s)
             /\ wire' = Append(wire, 0)
             /\ UNCHANGED <<called, broken>>

\* n more bytes of message i leave; every earlier message has left completely.
Transmit(i, n) == /\ ~broken
                  /\ \A k \in Messages : k < i => Complete(k)
                  /\ wire[i] + n <= size[i]
                  /\ wire' = [wire EXCEPT ![i] = @ + n]
                  /\ UNCHANGED <<size, called, broken>>

\* The callback of message i runs; it may itself close the connection.
Notify(i) == /\ broken \/ Complete(i)
             /\ \A k \in DOMAIN called : called[k] < i
             /\ called' = Append(called, i)
             /\ broken' \in {broken, TRUE}
             /\ UNCHANGED <<size, wire>>

\* The connection is closed or reset: at any time, for good.
Break == /\ broken' = TRUE
         /\ UNCHANGED <<size, wire, called>>

Next == \/ \E s \in Sizes : Accept(s)
        \/ \E i \in Messages : \E n \in 1..size[i] : Transmit(i, n)
        \/ \E i \in Messages : Notify(i)
        \/ Break

Spec == Init /\ [][Next]_streamVars
===============================================================================
