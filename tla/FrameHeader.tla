----------------------------- MODULE FrameHeader -----------------------------
(***************************************************************************)
(* The length of a websocket frame as Websocket::send writes it behind the *)
(* first byte, and as Websocket::onDataReceived reads it.                  *)
(***************************************************************************)
EXTENDS Naturals, Sequences

\* The lowest bytes of pl, as many as width, the highest of them first.
BigEndian(pl, width) ==
    LET shifted[i \in 0..width] == IF i = 0 THEN pl ELSE shifted[i - 1] \div 256
    IN [i \in 1..width |-> shifted[width - i] % 256]

\* Mutant: one too many.
FaultyShort == 0..126

\* The lengths that are written into the second byte of the frame itself.
Short == 0..125

WrittenLength(pl) == IF pl \in Short THEN <<pl>>
                     ELSE IF pl <= 65535 THEN <<126>> \o BigEndian(pl, 2)
                     ELSE <<127>> \o BigEndian(pl, 8)

\* How many bytes behind the two first hold the length.
Extension(bytes) == CASE bytes[1] % 128 = 126 -> 2
                      [] bytes[1] % 128 = 127 -> 8
                      [] OTHER -> 0

\* The number that bytes are, the highest of them first.
Number(bytes) ==
    LET read[i \in 0..Len(bytes)] == IF i = 0 THEN 0 ELSE 256 * read[i - 1] + bytes[i]
    IN read[Len(bytes)]

ReadLength(bytes) ==
    LET short == bytes[1] % 128
    IN IF short < 126 THEN short ELSE Number(SubSeq(bytes, 2, 1 + Extension(bytes)))
==============================================================================
