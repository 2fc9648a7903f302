-------------------------------- MODULE Base64 --------------------------------
(***************************************************************************)
(* base64_encode and base64_decode of base64.cpp on sequences of bytes.    *)
(*                                                                         *)
(* bits says how many bits of val are still to be written: valb + 6 in the *)
(* encoder and valb + 8 in the decoder.  val is an int there; as no more   *)
(* than its 12 lowest bits are read, 16 are kept here.                     *)
(***************************************************************************)
EXTENDS Naturals, Sequences, SequencesExt

base64_chars(v) == CASE v \in 0..25 -> 65 + v
                     [] v \in 26..51 -> 71 + v
                     [] v \in 52..61 -> v - 4
                     [] v = 62 -> 43
                     [] v = 63 -> 47

\* The table takes '-' and '_' for '+' and '/', and '<' for zeros.
lookup(c) == CASE c \in 65..90 -> c - 65
               [] c \in 97..122 -> c - 71
               [] c \in 48..57 -> c + 4
               [] c \in {43, 45} -> 62
               [] c \in {47, 95} -> 63
               [] c = 60 -> 0
               [] OTHER -> 255

Padding == 61
Start == [val |-> 0, bits |-> 0, out |-> <<>>]

EncodeByte(s, b) ==
    LET val == (256 * s.val + b) % 65536
        bits == s.bits + 8
        piece(k) == base64_chars((val \div 2^(bits - 6 * k)) % 64)
    IN [val |-> val, bits |-> bits % 6,
        out |-> s.out \o [k \in 1..(bits \div 6) |-> piece(k)]]

\* Mutant: the bits are not shifted to the front of the character.
FaultyLastPiece(s) == IF s.bits = 0 THEN <<>> ELSE <<base64_chars(s.val % 64)>>

\* The character of the bits that are left.
LastPiece(s) == IF s.bits = 0 THEN <<>> ELSE <<base64_chars((s.val * 2^(6 - s.bits)) % 64)>>

base64_encode(bytes) ==
    LET after[i \in 0..Len(bytes)] == IF i = 0 THEN Start ELSE EncodeByte(after[i - 1], bytes[i])
        s == after[Len(bytes)]
        out == s.out \o LastPiece(s)
    IN out \o [k \in 1..((4 - (Len(out) % 4)) % 4) |-> Padding]

DecodeChar(s, c) ==
    LET val == (64 * s.val + lookup(c)) % 65536
        bits == s.bits + 6
    IN IF bits < 8 THEN [val |-> val, bits |-> bits, out |-> s.out]
       ELSE [val |-> val, bits |-> bits - 8,
             out |-> Append(s.out, (val \div 2^(bits - 8)) % 256)]

\* Up to the first character that is none of the table.
base64_decode(in) ==
    LET stop == SelectInSeq(in, LAMBDA c : lookup(c) = 255)
        n == IF stop = 0 THEN Len(in) ELSE stop - 1
        after[i \in 0..n] == IF i = 0 THEN Start ELSE DecodeChar(after[i - 1], in[i])
    IN after[n].out
===============================================================================
