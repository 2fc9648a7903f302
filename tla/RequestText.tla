----------------------------- MODULE RequestText -----------------------------
(***************************************************************************)
(* The functions of Request.cpp that take the text of a request apart.     *)
(*                                                                         *)
(* A text is a sequence of bytes; positions count from 1, and 0 stands for *)
(* npos.  A function returns a value or rejects the text: it throws an     *)
(* Error 400 or, where substr gets a position beyond the end, out_of_range.*)
(* HttpProtocol answers the one with 400 and the other with 500.           *)
(***************************************************************************)
EXTENDS Naturals, Sequences, SequencesExt, FiniteSetsExt

CONSTANTS
    ContentLength, Cookie,      \* the names of these fields, for which any
    ContentDisposition, Name,   \* other texts in lower case may stand
    Word                        \* a content-length is below Word (2^64 in the code)

Tab == 9           LineFeed == 10     CarriageReturn == 13  Space == 32
QuoteMark == 34    NumberSign == 35   PercentSign == 37     Ampersand == 38
CommaSign == 44    Minus == 45        ColonSign == 58       SemicolonSign == 59
EqualsSign == 61   QuestionMark == 63

CRLF == <<CarriageReturn, LineFeed>>
Dashes == <<Minus, Minus>>
Spaces == {Space, Tab}
Illegal == Spaces \cup ToSet(CRLF)
Digits == 48..57

Returns(v) == [ok |-> TRUE, val |-> v]
Rejects == [ok |-> FALSE, val |-> <<>>]

\* The next step gets what the one before returned.
Then(r, Step(_)) == IF r.ok THEN Step(r.val) ELSE Rejects

\* Several calls, of which none may reject.
All(rs) == IF \A i \in DOMAIN rs : rs[i].ok
           THEN Returns([i \in DOMAIN rs |-> rs[i].val]) ELSE Rejects

FindAny(str, chars, from) == SelectInSubSeq(str, from, Len(str), LAMBDA c : c \in chars)

Find(str, text, from) ==
    LET found == {i \in from..(Len(str) - Len(text) + 1) :
                     SubSeq(str, i, i + Len(text) - 1) = text}
    IN IF found = {} THEN 0 ELSE Min(found)

After(str, n) == SubSeq(str, n + 1, Len(str))

\* substr: as many bytes as there are.
Substr(str, i, n) == SubSeq(str, i, Min({Len(str), i + n - 1}))

UpTo(str, char) == LET i == FindAny(str, {char}, 1)
                   IN IF i = 0 THEN str ELSE SubSeq(str, 1, i - 1)

Trim(str, chars) == LET kept == {i \in DOMAIN str : str[i] \notin chars}
                    IN IF kept = {} THEN <<>> ELSE SubSeq(str, Min(kept), Max(kept))

(***************************************************************************)
(* url_unescape.  from_chars is given two bytes, of which a view that ends *)
(* early has one or none: behind is what the memory holds there.           *)
(***************************************************************************)

HexValue(c) == CASE c \in Digits -> c - 48
                 [] c \in 65..70 -> c - 55
                 [] c \in 97..102 -> c - 87
                 [] OTHER -> 16

IsHex(c) == HexValue(c) < 16

\* The byte of two characters: an int, which may have a sign, cut to a char.
FromChars(a, b) == CASE IsHex(a) /\ IsHex(b) -> <<16 * HexValue(a) + HexValue(b)>>
                     [] IsHex(a) /\ ~IsHex(b) -> <<HexValue(a)>>
                     [] a = Minus /\ IsHex(b) -> <<(256 - HexValue(b)) % 256>>
                     [] OTHER -> <<>>

\* Mutant: one position more is allowed.
FaultyBeyondEnd(str, start) == start > Len(str) + 2

BeyondEnd(str, start) == start > Len(str) + 1

url_unescape(str, behind) ==
    LET size == Len(str)
        from[start \in 1..(size + 3)] ==
            LET pos == FindAny(str, {PercentSign}, start)
                memory == str \o behind
                byte == FromChars(memory[pos + 1], memory[pos + 2])
            IN IF BeyondEnd(str, start) THEN Rejects
               ELSE IF pos = 0 THEN Returns(After(str, start - 1))
               ELSE IF (pos = size /\ size > 1) \/ byte = <<>> THEN Rejects
               ELSE Then(from[pos + 3], LAMBDA rest :
                         Returns(SubSeq(str, start, pos - 1) \o byte \o rest))
    IN from[1]

\* In the rest of the file nothing depends on what is behind.
Unescaped(str) == url_unescape(str, <<0, 0>>)

(***************************************************************************)
(* extractFieldVals: values <<v>> and pairs <<key, v>>.                    *)
(***************************************************************************)

Unquoted(str) == IF str # <<>> /\ str[1] = QuoteMark /\ str[Len(str)] = QuoteMark
                 THEN SubSeq(str, 2, Len(str) - 1) ELSE str

FieldVal(chunk) ==
    LET eq == FindAny(chunk, {EqualsSign}, 1)
    IN All(IF eq = 0 THEN <<Unescaped(Unquoted(chunk))>>
           ELSE <<Unescaped(Unquoted(SubSeq(chunk, 1, eq - 1))),
                  Unescaped(Unquoted(After(chunk, eq)))>>)

\* Mutant: blanks before a piece are not skipped.
FaultyNextPiece(str, pos) == IF pos > Len(str) THEN 0 ELSE pos

NextPiece(str, pos) == SelectInSubSeq(str, pos, Len(str), LAMBDA c : c \notin Spaces)

\* An empty piece ends the list; but blanks at the very end, where there is no
\* start of a piece to be found, make substr throw.
extractFieldVals(str, delimiters) ==
    LET from[pos \in 1..(Len(str) + 1)] ==
            LET start == NextPiece(str, pos)
                end == FindAny(str, delimiters, start)
                chunk == SubSeq(str, start, IF end = 0 THEN Len(str) ELSE end - 1)
            IN IF start = 0 THEN Rejects
               ELSE IF chunk = <<>> THEN Returns(<<>>)
               ELSE Then(FieldVal(Trim(chunk, Spaces)), LAMBDA field :
                         IF end = 0 THEN Returns(<<field>>)
                         ELSE Then(from[end + 1], LAMBDA rest : Returns(<<field>> \o rest)))
    IN IF str = <<>> THEN Returns(<<>>) ELSE from[1]

ListDelimiters == {SemicolonSign, CommaSign}

(***************************************************************************)
(* parse_fields and parse_header: a multimap is the sequence of its pairs. *)
(* Of several content-lengths the first is taken, and cookies come in the  *)
(* order of their fields, where find and equal_range of an                 *)
(* unordered_multimap leave the choice to the library.  All errors are     *)
(* Rejects: an Error 400, out_of_range and the other exceptions alike.     *)
(***************************************************************************)

ToLower(str) == [i \in DOMAIN str |-> IF str[i] \in 65..90 THEN str[i] + 32 ELSE str[i]]

parse_fields(text) ==
    LET from[pos \in 1..(Len(text) + 1)] ==
            LET eol == Find(text, CRLF, pos)
                line == SubSeq(text, pos, eol - 1)
                colon == FindAny(line, {ColonSign}, 1)
                name == ToLower(SubSeq(line, 1, colon - 1))
                value == Trim(After(line, colon), Illegal)
            IN IF eol = 0 THEN Returns(<<>>)
               ELSE IF colon <= 1 \/ FindAny(name, Illegal, 1) # 0 \/ value = <<>> THEN Rejects
               ELSE Then(All(<<Unescaped(name), Unescaped(value)>>), LAMBDA field :
                         Then(from[eol + 2], LAMBDA rest : Returns(<<field>> \o rest)))
    IN from[1]

Values(fields, name) ==
    LET with == SelectSeq(fields, LAMBDA f : f[1] = name)
    IN [i \in DOMAIN with |-> with[i][2]]

\* A value without "=" is entered with an empty text.
Pairs(split) == [i \in DOMAIN split |-> IF Len(split[i]) = 2 THEN split[i]
                                        ELSE Append(split[i], <<>>)]

OnlyPairs(split) == SelectSeq(split, LAMBDA f : Len(f) = 2)

\* from_chars: digits at the front; a number too large leaves the 0.
ToLength(value) ==
    LET rest == SelectInSeq(value, LAMBDA c : c \notin Digits)
        digits == IF rest = 0 THEN value ELSE SubSeq(value, 1, rest - 1)
        number == FoldLeft(LAMBDA n, c : 10 * n + c - 48, 0, digits)
    IN IF digits = <<>> THEN Rejects ELSE Returns(IF number < Word THEN number ELSE 0)

\* Mutant: once is enough.
FaultyAgain(args) == Returns(args)

\* The arguments, whose parts were unescaped already, are unescaped again.
Again(args) == All([i \in DOMAIN args |->
                       All([k \in DOMAIN args[i] |-> Unescaped(args[i][k])])])

parse_header(request) ==
    LET line_end == Find(request, CRLF, 1)
        method_end == FindAny(request, {Space}, 1)
        URL_end == FindAny(request, {Space}, method_end + 1)
        raw_url == SubSeq(request, method_end + 1, URL_end - 1)
        trailer == FindAny(raw_url, {QuestionMark}, 1)
        args == IF trailer = 0 THEN Returns(<<>>)
                ELSE extractFieldVals(UpTo(After(raw_url, trailer), NumberSign), {Ampersand})
        length(fields) == LET values == Values(fields, ContentLength)
                          IN IF values = <<>> THEN Returns(0) ELSE ToLength(values[1])
        cookies(fields) == LET values == Values(fields, Cookie)
                           IN All([i \in DOMAIN values |->
                                      extractFieldVals(values[i], ListDelimiters)])
        header(url, arguments, fields, content_length, jar) ==
            [method |-> SubSeq(request, 1, method_end - 1),
             url |-> url, resource |-> UpTo(url, QuestionMark),
             version |-> SubSeq(request, URL_end + 1,
                                IF URL_end < line_end THEN line_end - 1 ELSE Len(request)),
             url_args |-> Pairs(arguments), fields |-> fields, content_length |-> content_length,
             cookies |-> OnlyPairs(FlattenSeq(jar))]
    IN IF 0 \in {line_end, method_end, URL_end} THEN Rejects
       ELSE Then(Unescaped(raw_url), LAMBDA url :
            Then(Then(args, Again), LAMBDA arguments :
            Then(parse_fields(After(request, line_end + 1)), LAMBDA fields :
            Then(length(fields), LAMBDA content_length :
            Then(cookies(fields), LAMBDA jar :
                 Returns(header(url, arguments, fields, content_length, jar)))))))

(***************************************************************************)
(* readMultipartBody                                                       *)
(***************************************************************************)

BodyArg(content) ==
    LET header_end == Find(content, CRLF \o CRLF, 1)
        arg(fields, split) ==
            [name |-> Values(OnlyPairs(split), Name)[1],
             fields |-> Pairs(split) \o fields,
             content |-> After(content, header_end + 3)]
    IN IF header_end = 0 THEN Rejects
       ELSE Then(parse_fields(SubSeq(content, 1, header_end + 1)), LAMBDA fields :
            LET dispositions == Values(fields, ContentDisposition)
            IN IF dispositions = <<>> THEN Rejects
               ELSE Then(extractFieldVals(dispositions[1], ListDelimiters), LAMBDA split :
                    IF Values(OnlyPairs(split), Name) = <<>> THEN Rejects
                    ELSE Returns(arg(fields, split))))

\* Mutant: only the dashes are taken off.
FaultyPart(body, start, body_end) == SubSeq(body, start, body_end - 3)

\* Between two boundaries, without the line end and the dashes before the second.
Part(body, start, body_end) == SubSeq(body, start, body_end - 5)

readMultipartBody(body, boundary) ==
    LET from[found \in 0..Len(body)] ==
            LET behind == found + Len(boundary)
                start == behind + 2
                body_end == Find(body, boundary, start)
            IN IF found = 0 \/ Substr(body, behind, 2) = Dashes THEN Returns(<<>>)
               ELSE IF Substr(body, behind, 2) # CRLF THEN Rejects
               ELSE IF body_end < start + 4 THEN Returns(<<>>)
               ELSE IF Substr(body, body_end - 4, 4) # CRLF \o Dashes THEN Rejects
               ELSE Then(BodyArg(Part(body, start, body_end)), LAMBDA arg :
                    Then(from[body_end], LAMBDA rest : Returns(<<arg>> \o rest)))
    IN from[Find(body, boundary, 1)]
==============================================================================
