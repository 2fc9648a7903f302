---------------------------- MODULE MCConnection ----------------------------
(***************************************************************************)
(* Connection for TLC: properties that hold only for some of the           *)
(* instances, and the symmetry of the threads.                             *)
(***************************************************************************)
EXTENDS Connection, FiniteSets, TLC

Symmetry == Permutations(AppThreads)

\* Every buffer that write accepted is sent completely in the end ("send when
\* the socket is ready") as long as the peer keeps the connection up, no handler
\* throws and the protocol stays: the code may not close or forget such a
\* socket.  (No callback closes it in these instances.)
SentInTheEnd ==
    \A i \in 1..MaxJobs :
        Len(size) >= i ~> \/ peer # "up" \/ ioPc = "threw" \/ ~protocol
                          \/ i \in Messages /\ wire[i] = size[i]

\* A peer that shuts its side down is noticed, whatever is being sent: the
\* protocol is told unless it is gone already or a handler has thrown, which
\* leaves the one-shot registration disarmed.  (No callback closes the socket
\* in this instance.)
PeerCloseSeen ==
    peer = "fin" ~> peerClosed = 1 \/ ~protocol \/ ioPc = "threw"

\* "if there is nothing to send and no protocol to listen (i.e., when we have
\* flushed all data) bail out": once the protocol is gone, what was written
\* before is sent, and then the socket is closed, if the peer works.
FlushedThenClosed ==
    ~protocol /\ size # <<>> ~> peer # "up" \/ (wire = size /\ ~con)
=============================================================================
