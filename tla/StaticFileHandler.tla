-------------------------- MODULE StaticFileHandler --------------------------
(***************************************************************************)
(* StaticFileHandler::operator(): the answer to a request for a file that  *)
(* exists.  The file may change between fstat and pread, and pread may     *)
(* transfer less than it is asked for: Linux stops at 0x7ffff000 bytes.    *)
(*                                                                         *)
(* Of a request count: head, whether its method is HEAD; unmodified,       *)
(* whether If-Modified-Since names a time not before the file's; and its   *)
(* range fields: first and end (NoEnd if none is given), or NoRange for a  *)
(* text that is no such range.                                             *)
(***************************************************************************)
EXTENDS Naturals, Sequences, SequencesExt

CONSTANTS NoRange, NoEnd,
          IntMax,           \* std::stoi throws beyond it (2^31 - 1 in the code)
          SizeWord          \* size_t counts modulo SizeWord (2^64 in the code)

Lesser(a, b) == IF a <= b THEN a ELSE b

Bodiless(code) == [status |-> code, content_range |-> <<>>, body |-> <<>>]

\* Mutant: what could not be read is taken for zeros.
FaultyPread(reading, count, offset) ==
    [i \in 1..count |-> IF offset + i <= Len(reading.file) THEN reading.file[offset + i] ELSE 0]

\* pread of count bytes from the file as it is by now: it ends where the file
\* ends, or when it has transferred reading.most bytes.
Pread(reading, count, offset) ==
    SubSeq(reading.file, offset + 1,
           Lesser(Len(reading.file), offset + Lesser(count, reading.most)))

\* reading.fails: pread returns -1, as it does for a directory.
Body(stat, reading, first, end) ==
    LET bytes == Pread(reading, end - first, first)
        whole == first = 0 /\ end = Len(stat)
    IN IF reading.fails \/ Len(bytes) # end - first THEN Bodiless(500)
       ELSE [status |-> IF whole THEN 200 ELSE 206,
             content_range |-> IF whole THEN <<>>
                               ELSE <<first, (end + SizeWord - 1) % SizeWord, Len(stat)>>,
             body |-> bytes]

\* stat is the file as fstat saw it, reading what pread meets.
Serve(stat, reading, request) ==
    LET size == Len(stat)
        ranges == {i \in DOMAIN request.ranges : request.ranges[i] # NoRange}
        range == request.ranges[Min(ranges)]
        first == Lesser(size, range.first)
        end == IF range.end = NoEnd THEN size ELSE Lesser(size, range.end)
        readable == range.first <= IntMax /\ (range.end = NoEnd \/ range.end <= IntMax)
    IN IF request.unmodified THEN Bodiless(304)
       ELSE IF request.head THEN Bodiless(200)
       ELSE IF ranges = {} THEN Body(stat, reading, 0, size)
       ELSE IF ~readable THEN Bodiless(500)
       ELSE IF first > end THEN Bodiless(400)
       ELSE Body(stat, reading, first, end)
==============================================================================
