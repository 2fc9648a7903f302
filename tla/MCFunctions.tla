------------------------------ MODULE MCFunctions ------------------------------
(***************************************************************************)
(* The functions of the library that compute one value from another, each  *)
(* checked against a definition of what it is for, on every text of up to  *)
(* MaxLen bytes of an alphabet: the state is a text, which grows.          *)
(***************************************************************************)
EXTENDS RequestText, Base64, FrameHeader, StaticFileHandler, Sums

CONSTANTS Alphabet, MaxLen

ASSUME FunctionAssumption ==
    /\ Alphabet \subseteq 0..255
    /\ MaxLen \in Nat /\ IntMax \in Nat
    /\ SizeWord \in Nat \ {0} /\ MaxLen < SizeWord
    /\ NoEnd \notin Nat /\ NoRange \notin [first : Nat, end : Nat \cup {NoEnd}]

VARIABLE text

Init == text = <<>>

Next == \E byte \in Alphabet : Len(text) < MaxLen /\ text' = Append(text, byte)

Spec == Init /\ [][Next]_text

\* The names of the fields, shorter than they are.
TheLength == <<108>>        TheCookie == <<99>>
TheDisposition == <<100>>   TheName == <<110>>

(***************************************************************************)
(* How a client prints a text.                                             *)
(***************************************************************************)

HexDigit(v) == IF v < 10 THEN 48 + v ELSE 87 + v

Plain == Digits \cup 65..90 \cup 97..122

\* Every byte that is no letter and no digit is escaped.
Escaped(byte) == IF byte \in Plain THEN <<byte>>
                 ELSE <<PercentSign, HexDigit(byte \div 16), HexDigit(byte % 16)>>

Escape(str) == JoinTo([i \in DOMAIN str |-> Escaped(str[i])], Len(str))

Decimal(n) == LET digits == CHOOSE d \in 1..10 : n < 10^d /\ (d = 1 \/ n >= 10^(d - 1))
              IN [i \in 1..digits |-> 48 + ((n \div 10^(digits - i)) % 10)]

Line(name, value) == name \o <<ColonSign, Space>> \o value \o CRLF

(***************************************************************************)
(* Request.cpp                                                             *)
(***************************************************************************)

\* What happens to lie behind a text in memory never decides what it is unescaped
\* to: url_unescape reads up to two bytes behind an escape that is cut short, but
\* then rejects the text.
NothingFromBehind ==
    \A behind \in Alphabet \X Alphabet : url_unescape(text, behind) = Unescaped(text)

\* Where the pieces of a list begin (behind this place) and end (before that one),
\* and what they are without the blanks around them.
Cuts(str) == {0} \cup {i \in DOMAIN str : str[i] \in ListDelimiters}
PieceEnd(str, i) == Min({Len(str) + 1} \cup {j \in (i + 1)..Len(str) : str[j] \in ListDelimiters})
Piece(str, i) == Trim(SubSeq(str, i + 1, PieceEnd(str, i) - 1), Spaces)

\* extractFieldVals returns the pieces between the delimiters, without the blanks
\* around them, up to the first blank piece, where the list ends.  But if that is
\* the very last, the whole text is rejected: "a;b;" is no list, nor is "a; ".
FieldsAreThePieces ==
    LET fields == extractFieldVals(text, ListDelimiters)
        cuts == Cuts(text)
        listed == {i \in cuts : \A j \in cuts : j <= i => Piece(text, j) # <<>>}
        field(i) == FieldVal(Piece(text, i))
        place(i) == Cardinality({j \in listed : j <= i})
        last(i) == PieceEnd(text, i) = Len(text) + 1
    IN IF text = <<>> THEN fields = Returns(<<>>)
       ELSE IF (\E i \in cuts : last(i) /\ cuts \ listed = {i}) \/ (\E i \in listed : ~field(i).ok)
       THEN fields = Rejects
       ELSE /\ fields.ok /\ Len(fields.val) = Cardinality(listed)
            /\ \A i \in listed : fields.val[place(i)] = field(i).val

\* A client that escapes a text as often as the server unescapes it, once in the
\* path and in a header field, twice in an argument and in a cookie, reaches the
\* application with it, whatever separators it contains; but the resource ends at
\* a question mark, also at an escaped one.  A content-length of Word or more
\* counts as none.
ClientTextArrives ==
    LET path == <<47>> \o Escape(text)
        pair == Escape(Escape(text)) \o <<EqualsSign>> \o Escape(Escape(text))
        n == Number(SubSeq(text, 1, Lesser(3, Len(text))))
        request == <<71, Space>> \o path \o <<QuestionMark>> \o pair \o <<Ampersand>> \o pair
                   \o <<NumberSign, Space, 72>> \o CRLF
                   \o Line(<<65>>, <<66>> \o Escape(text))
                   \o Line(TheCookie, <<65, SemicolonSign, Space>> \o pair)
                   \o Line(TheLength, Decimal(n)) \o CRLF
        header == parse_header(SubSeq(request, 1, Len(request) - 2))
    IN /\ header.ok
       /\ header.val.method = <<71>> /\ header.val.version = <<72>>
       /\ header.val.resource = <<47>> \o UpTo(text, QuestionMark)
       /\ header.val.url_args = <<<<text, text>>, <<text, text>>>>
       /\ Values(header.val.fields, <<97>>) = <<<<66>> \o text>>
       /\ header.val.cookies = <<<<text, text>>>>
       /\ header.val.content_length = IF n < Word THEN n ELSE 0

Boundary == <<Minus, 66>>

\* A multipart body arrives as the client composed it: as many parts, each with
\* its name and its content to the last byte, whatever line ends and dashes it
\* contains, as long as it does not contain the boundary.
MultipartArrives ==
    LET parts == <<[name |-> text, content |-> text \o text],
                   [name |-> <<66>>, content |-> Reverse(text)]>>
        printed(p) == Dashes \o Boundary \o CRLF
                      \o Line(TheDisposition, <<65, SemicolonSign, Space>> \o TheName
                              \o <<EqualsSign, QuoteMark>> \o Escape(Escape(p.name)) \o <<QuoteMark>>)
                      \o CRLF \o p.content \o CRLF
        body == printed(parts[1]) \o printed(parts[2]) \o Dashes \o Boundary \o Dashes
        read == readMultipartBody(body, Boundary)
    IN (\A i \in DOMAIN parts : Find(parts[i].content, Boundary, 1) = 0) =>
           /\ read.ok
           /\ [i \in DOMAIN read.val |-> [name |-> read.val[i].name,
                                          content |-> read.val[i].content]] = parts

(***************************************************************************)
(* base64.cpp                                                              *)
(***************************************************************************)

\* The k-th bit of a text, the highest of each byte first, with zeros behind.
Bit(bytes, k) ==
    LET i == ((k - 1) \div 8) + 1
    IN IF i > Len(bytes) THEN 0 ELSE (bytes[i] \div 2^(7 - ((k - 1) % 8))) % 2

\* Its bits in groups of six.
Sextet(bytes, i) ==
    32 * Bit(bytes, 6 * i - 5) + 16 * Bit(bytes, 6 * i - 4) + 8 * Bit(bytes, 6 * i - 3)
    + 4 * Bit(bytes, 6 * i - 2) + 2 * Bit(bytes, 6 * i - 1) + Bit(bytes, 6 * i)

\* The encoder writes the bits of the text six at a time, filled up with zeros,
\* and pads the result to a multiple of four; the decoder returns the text, also
\* from the alphabet for URLs.
Base64RoundTrip ==
  \A bytes \in {text, text \o Reverse(text)} :
    LET chars == [i \in 1..((8 * Len(bytes) + 5) \div 6) |-> base64_chars(Sextet(bytes, i))]
        encoded == base64_encode(bytes)
        for_urls == [i \in DOMAIN encoded |-> CASE encoded[i] = 43 -> 45
                                                [] encoded[i] = 47 -> 95
                                                [] OTHER -> encoded[i]]
    IN /\ SubSeq(encoded, 1, Len(chars)) = chars
       /\ Len(encoded) = 4 * ((Len(bytes) + 2) \div 3)
       /\ ToSet(After(encoded, Len(chars))) \subseteq {Padding}
       /\ base64_decode(encoded) = bytes /\ base64_decode(for_urls) = bytes

(***************************************************************************)
(* The length of a frame, and files                                        *)
(***************************************************************************)

\* The length that send writes is the one onDataReceived reads, at 125 and 126,
\* at 65535 and 65536 too, whatever follows it in the buffer.
LengthArrives ==
    LET n == Number(SubSeq(text, 1, Lesser(3, Len(text))))
        written == WrittenLength(n)
    IN /\ ReadLength(written \o text \o BigEndian(0, 8)) = n
       /\ Len(written) = 1 + Extension(written)

Offsets == 0..(MaxLen + 1)

Requests == [head : BOOLEAN, unmodified : BOOLEAN,
             ranges : {<<>>, <<NoRange>>}
                      \cup {<<NoRange, r>> : r \in [first : Offsets, end : Offsets \cup {NoEnd}]}]

\* A number that std::stoi does not read.
TooLarge(range) == range.first > IntMax \/ (range.end # NoEnd /\ range.end > IntMax)

\* What pread may meet: the file as it was, shorter or longer, and a call that
\* fails, or transfers at most some number of bytes.
Readings == [file : {SubSeq(text, 1, n) : n \in 0..Len(text)} \cup {Append(text, 0)},
             most : 0..MaxLen, fails : BOOLEAN]

\* A file that shrinks or grows between fstat and pread is never answered with a
\* body other than the bytes that the answer's range names, or the whole file as
\* fstat saw it.  The last byte announced is the one before the range's end: of an
\* empty range the one before its first, and before 0 the largest size_t.  And the
\* answer is 500 only if the file shrank, pread failed or gave less than the file
\* has (as it does beyond 0x7ffff000 bytes, though nothing is wrong with the
\* file), or a number of the range is too large for an int.
RangeIsWhatItSays ==
    \A reading \in Readings, request \in Requests :
        LET answer == Serve(text, reading, request)
            range == answer.content_range
            intact == /\ Len(reading.file) >= Len(text)
                      /\ reading.most >= Len(text) /\ ~reading.fails
        IN /\ answer.status = 200 /\ ~request.head => answer.body = text
           /\ answer.status = 206 =>
                  /\ Len(answer.body) < Len(text)
                  /\ answer.body = SubSeq(text, range[1] + 1, (range[2] + 1) % SizeWord)
           /\ answer.status = 500 =>
                  \/ ~intact
                  \/ \E i \in DOMAIN request.ranges :
                         request.ranges[i] # NoRange /\ TooLarge(request.ranges[i])
================================================================================
