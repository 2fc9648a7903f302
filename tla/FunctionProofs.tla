--------------------------- MODULE FunctionProofs ---------------------------
(***************************************************************************)
(* What the functions of FrameHeader, StaticFileHandler, RequestText and   *)
(* Base64 return, for every text.                                          *)
(***************************************************************************)
EXTENDS MCFunctions, SumProofs, FiniteSetTheorems, TLAPS

(***************************************************************************)
(* StaticFileHandler                                                       *)
(***************************************************************************)

\* A file of bytes, and what became of it: both agree as far as both reach.
Agree(stat, now) ==
    /\ stat \in Seq(Nat) /\ now \in Seq(Nat)
    /\ \A i \in 1..Lesser(Len(stat), Len(now)) : now[i] = stat[i]

\* What pread may meet of such a file.
Met(stat, reading) ==
    /\ reading.most \in Nat /\ reading.fails \in BOOLEAN
    /\ Agree(stat, reading.file)

\* The requests for a file, with any range fields.
RangeFields == [first : Nat, end : Nat \cup {NoEnd}]
FileRequests == [head : BOOLEAN, unmodified : BOOLEAN, ranges : Seq(RangeFields \cup {NoRange})]

\* What RangeIsWhatItSays says of one answer.
Honest(stat, reading, request, answer) ==
    /\ answer.status = 200 /\ ~request.head => answer.body = stat
    /\ answer.status = 206 =>
           /\ Len(answer.body) < Len(stat)
           /\ answer.body = SubSeq(stat, answer.content_range[1] + 1,
                                         (answer.content_range[2] + 1) % SizeWord)
    /\ answer.status = 500 =>
           \/ ~(/\ Len(reading.file) >= Len(stat)
                /\ reading.most >= Len(stat) /\ ~reading.fails)
           \/ \E i \in DOMAIN request.ranges :
                  request.ranges[i] # NoRange /\ TooLarge(request.ranges[i])

\* The last byte announced is the one before the end, as a size_t counts.
LEMMA LastAnnounced ==
    ASSUME NEW end \in Nat, end < SizeWord
    PROVE  (((end + SizeWord - 1) % SizeWord) + 1) % SizeWord = end
<1>1. SizeWord \in Nat \ {0}
  BY FunctionAssumption
<1>2. CASE end = 0
  <2>1. (end + SizeWord - 1) % SizeWord = SizeWord - 1
    <3>1. end + SizeWord - 1 = SizeWord - 1 /\ SizeWord - 1 \in 0..(SizeWord - 1)
      BY <1>1, <1>2
    <3>2. (SizeWord - 1) % SizeWord = SizeWord - 1
      BY <1>1, <3>1
    <3> QED BY <3>1, <3>2
  <2>2. (SizeWord - 1) + 1 = SizeWord
    BY <1>1
  <2>3. SizeWord % SizeWord = 0
    BY <1>1
  <2> QED BY <1>2, <2>1, <2>2, <2>3
<1>3. CASE end > 0
  <2> DEFINE b == end - 1
             q == 1
  <2>1. end + SizeWord - 1 = q * SizeWord + b
    BY <1>1
  <2>2. b \in 0..(SizeWord - 1) /\ q \in Nat /\ b + 1 = end
    BY <1>1, <1>3
  <2> HIDE DEF b, q
  <2>3. (q * SizeWord + b) % SizeWord = b
    BY <1>1, <2>2
  <2>4. end % SizeWord = end
    BY <1>1
  <2>5. (end + SizeWord - 1) % SizeWord = b
    BY <2>1, <2>3
  <2> QED BY <2>2, <2>4, <2>5
<1> QED BY <1>2, <1>3

\* What Body answers about the bytes from first to end of a file is true.
LEMMA BodyIsHonest ==
    ASSUME NEW stat, NEW reading, Met(stat, reading), Len(stat) < SizeWord, NEW request,
           NEW first \in 0..Len(stat), NEW end \in 0..Len(stat), first <= end
    PROVE  Honest(stat, reading, request, Body(stat, reading, first, end))
<1> DEFINE now == reading.file
           most == reading.most
           reach == Lesser(Len(now), first + Lesser(end - first, most))
           bytes == SubSeq(now, first + 1, reach)
           whole == first = 0 /\ end = Len(stat)
           last == (end + SizeWord - 1) % SizeWord
           short == reading.fails \/ Len(bytes) # end - first
           answer == Body(stat, reading, first, end)
<1>0. Agree(stat, now) /\ most \in Nat
  BY DEF Met
<1>1. /\ reach \in Nat /\ reach <= Len(now) /\ reach <= end
      /\ reach # end => Len(now) < end \/ most < end
  <2> HIDE DEF most, now
  <2>1. Len(now) \in Nat /\ most \in Nat
    BY <1>0 DEF Agree
  <2> QED BY <2>1 DEF Lesser
<1>2. Pread(reading, end - first, first) = bytes
  BY DEF Pread
<1>3. /\ bytes \in Seq(Nat)
      /\ Len(bytes) = IF first + 1 <= reach THEN reach - first ELSE 0
      /\ \A i \in 1..(reach - first) : bytes[i] = now[first + i]
  <2> HIDE DEF reach, now, most
  <2>1. \A i \in (first + 1)..reach : now[i] \in Nat
    <3>1. now \in Seq(Nat)
      BY <1>0 DEF Agree
    <3> QED BY <1>1, <3>1
  <2>2. first + 1 \in Int /\ reach \in Int
    BY <1>1
  <2>3. /\ bytes \in Seq(Nat)
        /\ Len(bytes) = IF first + 1 <= reach THEN reach - (first + 1) + 1 ELSE 0
        /\ \A i \in 1..(reach - (first + 1) + 1) : bytes[i] = now[(first + 1) + i - 1]
    BY <2>1, <2>2, SubSeqProperties
  <2> HIDE DEF bytes
  <2>4. ASSUME NEW i \in 1..(reach - first) PROVE bytes[i] = now[first + i]
    <3>1. i \in 1..(reach - (first + 1) + 1) /\ (first + 1) + i - 1 = first + i
      BY <2>2
    <3> QED BY <2>3, <3>1
  <2>5. Len(bytes) = IF first + 1 <= reach THEN reach - first ELSE 0
    BY <2>2, <2>3
  <2> QED BY <2>3, <2>4, <2>5
<1>4. answer = IF short THEN Bodiless(500)
               ELSE [status |-> IF whole THEN 200 ELSE 206,
                     content_range |-> IF whole THEN <<>> ELSE <<first, last, Len(stat)>>,
                     body |-> bytes]
  <2> DEFINE read == Pread(reading, end - first, first)
  <2>1. answer = IF reading.fails \/ Len(read) # end - first THEN Bodiless(500)
                 ELSE [status |-> IF whole THEN 200 ELSE 206,
                       content_range |-> IF whole THEN <<>> ELSE <<first, last, Len(stat)>>,
                       body |-> read]
    BY DEF Body
  <2> HIDE DEF read, answer, whole, last, bytes
  <2>2. read = bytes
    BY <1>2 DEF read
  <2> QED BY <2>1, <2>2, Zenon
<1> HIDE DEF bytes, reach, last, answer, now, most
<1> SUFFICES Honest(stat, reading, request, answer)
  BY DEF answer
<1>5. CASE short
  <2>1. answer.status = 500
    BY <1>4, <1>5 DEF Bodiless
  <2>2. ~(Len(now) >= Len(stat) /\ most >= Len(stat) /\ ~reading.fails)
    <3>1. CASE reading.fails
      BY <3>1
    <3>2. CASE Len(bytes) # end - first
      <4>1. reach # end
        <5>1. Len(bytes) = IF first + 1 <= reach THEN reach - first ELSE 0
          BY <1>3
        <5> QED BY <3>2, <5>1
      <4>2. (Len(now) < end \/ most < end) /\ Len(now) \in Nat /\ Len(stat) \in Nat
        BY <1>0, <1>1, <4>1 DEF Agree
      <4>3. ~(Len(now) >= Len(stat) /\ most >= Len(stat))
        BY <1>0, <4>2
      <4> QED BY <4>3
    <3> QED BY <1>5, <3>1, <3>2
  <2>3. ~(/\ Len(reading.file) >= Len(stat)
          /\ reading.most >= Len(stat) /\ ~reading.fails)
    BY <2>2 DEF now, most
  <2>4. answer.status # 200 /\ answer.status # 206
    BY <2>1
  <2> QED BY <2>3, <2>4, Zenon DEF Honest
<1>6. CASE ~short
  <2>0. Len(bytes) = end - first
    BY <1>6
  <2> HIDE DEF short
  <2>1. (first < end => reach = end) /\ first + 1 \in Int /\ end \in Int /\ end <= Len(stat)
    BY <1>1, <1>3, <2>0
  <2>2. bytes = SubSeq(stat, first + 1, end)
    <3> DEFINE piece == SubSeq(stat, first + 1, end)
    <3>1. \A i \in (first + 1)..end : stat[i] \in Nat
      BY <1>0, <2>1 DEF Agree
    <3>2. /\ piece \in Seq(Nat)
          /\ Len(piece) = IF first + 1 <= end THEN end - (first + 1) + 1 ELSE 0
          /\ \A i \in 1..(end - (first + 1) + 1) : piece[i] = stat[(first + 1) + i - 1]
      BY <2>1, <3>1, SubSeqProperties
    <3> HIDE DEF piece
    <3>3. Len(piece) = end - first
      BY <3>2
    <3>4. ASSUME NEW i \in 1..(end - first) PROVE bytes[i] = piece[i]
      <4>1. i \in 1..(end - (first + 1) + 1) /\ (first + 1) + i - 1 = first + i /\ first < end
        OBVIOUS
      <4>2. bytes[i] = now[first + i]
        BY <1>3, <2>1, <4>1
      <4>3. first + i \in 1..Lesser(Len(stat), Len(now))
        BY <1>0, <1>1, <2>1, <4>1 DEF Lesser, Agree
      <4> QED BY <1>0, <3>2, <4>1, <4>2, <4>3 DEF Agree
    <3>5. bytes = piece
      BY <1>3, <2>0, <3>2, <3>3, <3>4
    <3> QED BY <3>5 DEF piece
  <2>3. whole => bytes = stat
    BY <1>0, <2>2, SubSeqFull DEF Agree
  <2>4. (last + 1) % SizeWord = end
    <3>1. end \in Nat /\ end < SizeWord
      BY <1>0, FunctionAssumption DEF Agree
    <3> QED BY <3>1, LastAnnounced DEF last
  <2>5. ~whole => Len(bytes) < Len(stat)
    BY <1>0, <2>0 DEF Agree
  <2>6. CASE whole
    <3>1. answer.status = 200 /\ answer.body = bytes
      BY <1>4, <1>6, <2>6
    <3> QED BY <2>3, <2>6, <3>1 DEF Honest
  <2>7. CASE ~whole
    <3>1. /\ answer.status = 206 /\ answer.body = bytes
          /\ answer.content_range = <<first, last, Len(stat)>>
      BY <1>4, <1>6, <2>7
    <3>2. answer.content_range[1] = first /\ answer.content_range[2] = last
      BY <3>1
    <3>3. answer.body = SubSeq(stat, answer.content_range[1] + 1,
                                     (answer.content_range[2] + 1) % SizeWord)
      BY <2>2, <2>4, <3>1, <3>2, Zenon
    <3>4. Len(answer.body) < Len(stat)
      BY <2>5, <2>7, <3>1
    <3>5. answer.status # 200 /\ answer.status # 500
      BY <3>1
    <3> QED BY <3>3, <3>4, <3>5, Zenon DEF Honest
  <2> QED BY <2>6, <2>7
<1> QED BY <1>5, <1>6

\* Every file that exists is answered as RangeIsWhatItSays says, whatever the
\* request's range fields are and whatever becomes of the file after fstat.
LEMMA ServeIsHonest ==
    ASSUME NEW stat, NEW reading, Met(stat, reading), Len(stat) < SizeWord,
           NEW request \in FileRequests
    PROVE  Honest(stat, reading, request, Serve(stat, reading, request))
<1> DEFINE answer == Serve(stat, reading, request)
           size == Len(stat)
           ranges == {i \in DOMAIN request.ranges : request.ranges[i] # NoRange}
           range == request.ranges[Min(ranges)]
           first == Lesser(size, range.first)
           end == IF range.end = NoEnd THEN size ELSE Lesser(size, range.end)
           readable == range.first <= IntMax /\ (range.end = NoEnd \/ range.end <= IntMax)
<1>1. answer = IF request.unmodified THEN Bodiless(304)
               ELSE IF request.head THEN Bodiless(200)
               ELSE IF ranges = {} THEN Body(stat, reading, 0, size)
               ELSE IF ~readable THEN Bodiless(500)
               ELSE IF first > end THEN Bodiless(400)
               ELSE Body(stat, reading, first, end)
  BY DEF Serve
<1>2. size \in Nat
  BY DEF Met, Agree
<1>3. ranges # {} => /\ Min(ranges) \in DOMAIN request.ranges
                     /\ range # NoRange /\ range \in RangeFields
  <2> SUFFICES ASSUME ranges # {}
               PROVE  /\ Min(ranges) \in DOMAIN request.ranges
                      /\ range # NoRange /\ range \in RangeFields
    OBVIOUS
  <2>1. request.ranges \in Seq(RangeFields \cup {NoRange})
    BY DEF FileRequests
  <2>2. ranges \in SUBSET Nat
    BY <2>1
  <2>3. \E x \in ranges : \A y \in ranges : x <= y
    BY <2>2, LeastExists
  <2> HIDE DEF ranges
  <2>4. Min(ranges) \in ranges
    BY <2>3 DEF Min
  <2> USE DEF ranges
  <2>5. Min(ranges) \in DOMAIN request.ranges /\ range # NoRange
    BY <2>4
  <2> HIDE DEF ranges
  <2> QED BY <2>1, <2>5
<1> HIDE DEF answer, ranges, range, size
<1> SUFFICES Honest(stat, reading, request, answer)
  BY DEF answer
<1>4. CASE answer = Bodiless(304) \/ answer = Bodiless(400)
  BY <1>4 DEF Honest, Bodiless
<1>5. CASE request.head /\ answer = Bodiless(200)
  BY <1>5 DEF Honest, Bodiless
<1>6. CASE answer = Body(stat, reading, 0, size)
  <2>1. 0 \in 0..Len(stat) /\ size \in 0..Len(stat) /\ 0 <= size
    BY <1>2 DEF size
  <2>2. Honest(stat, reading, request, Body(stat, reading, 0, size))
    BY <2>1, BodyIsHonest
  <2> QED BY <1>6, <2>2
<1>7. CASE ranges # {} /\ ~readable /\ answer = Bodiless(500)
  <2>1. TooLarge(range)
    BY <1>3, <1>7, FunctionAssumption DEF TooLarge, RangeFields
  <2>2. \E i \in DOMAIN request.ranges :
            request.ranges[i] # NoRange /\ TooLarge(request.ranges[i])
    BY <1>3, <1>7, <2>1 DEF range
  <2>3. answer.status = 500
    BY <1>7 DEF Bodiless
  <2> QED BY <2>2, <2>3 DEF Honest
<1>8. CASE ranges # {} /\ ~(first > end) /\ answer = Body(stat, reading, first, end)
  <2>1. first \in 0..Len(stat) /\ end \in 0..Len(stat)
    BY <1>2, <1>3, <1>8 DEF Lesser, RangeFields, size
  <2>2. first <= end
    BY <1>8, <2>1
  <2> HIDE DEF first, end
  <2>3. Honest(stat, reading, request, Body(stat, reading, first, end))
    BY <2>1, <2>2, BodyIsHonest
  <2> QED BY <1>8, <2>3
<1> QED
  <2> HIDE DEF readable, first, end
  <2> QED BY <1>1, <1>4, <1>5, <1>6, <1>7, <1>8

(***************************************************************************)
(* The texts                                                               *)
(***************************************************************************)

TextInv == text \in Seq(Alphabet) /\ Len(text) <= MaxLen

\* The state is a text of at most MaxLen bytes of the alphabet.
THEOREM TextIsOne == Spec => []TextInv
<1>1. Init => TextInv
  BY FunctionAssumption DEF Init, TextInv
<1>2. TextInv /\ [Next]_text => TextInv'
  <2> SUFFICES ASSUME TextInv, [Next]_text PROVE TextInv'
    OBVIOUS
  <2>1. CASE Next
    <3>1. PICK byte \in Alphabet : Len(text) < MaxLen /\ text' = Append(text, byte)
      BY <2>1 DEF Next
    <3> QED BY <3>1, FunctionAssumption DEF TextInv
  <2>2. CASE UNCHANGED text
    BY <2>2 DEF TextInv
  <2> QED BY <2>1, <2>2
<1> QED BY <1>1, <1>2, PTL DEF Spec

\* A sequence of some things is one of more things.
LEMMA WiderSeq ==
    ASSUME NEW S, NEW T, \A x \in S : x \in T, NEW s \in Seq(S)
    PROVE  s \in Seq(T)
<1>1. Len(s) \in Nat /\ \A i \in 1..Len(s) : s[i] \in T
  BY ElementOfSeq
<1> QED BY <1>1, SubSeqProperties, SubSeqFull

\* The file after fstat agrees with the file before, as far as both reach.
LEMMA FilesAgree ==
    ASSUME TextInv,
           NEW now \in {SubSeq(text, 1, n) : n \in 0..Len(text)} \cup {Append(text, 0)}
    PROVE  Agree(text, now)
<1>1. text \in Seq(Nat)
  <2>1. Alphabet \subseteq Nat
    BY FunctionAssumption
  <2>2. text \in Seq(Alphabet) /\ Len(text) \in Nat
    BY DEF TextInv
  <2> QED BY <2>1, <2>2, WiderSeq
<1>2. CASE now = Append(text, 0)
  <2>1. now \in Seq(Nat) /\ \A i \in 1..Len(text) : now[i] = text[i]
    BY <1>1, <1>2
  <2>2. Lesser(Len(text), Len(now)) \in Nat /\ Lesser(Len(text), Len(now)) <= Len(text)
    BY <1>1, <2>1 DEF Lesser
  <2> QED BY <1>1, <2>1, <2>2 DEF Agree
<1>3. ASSUME NEW n \in 0..Len(text), now = SubSeq(text, 1, n) PROVE Agree(text, now)
  <2>1. now \in Seq(Nat) /\ Len(now) = n /\ \A i \in 1..n : now[i] = text[i]
    BY <1>1, <1>3
  <2> QED BY <1>1, <2>1 DEF Agree, Lesser
<1> QED BY <1>2, <1>3

\* A file that shrinks or grows between fstat and pread is never answered with
\* other bytes than the answer names, whatever pread gives, and answered 500 only
\* for want of bytes or for a number too large; for any file and any range up to
\* MaxLen + 1.
THEOREM RangesAreHonest == Spec => []RangeIsWhatItSays
<1>1. TextInv => RangeIsWhatItSays
  <2> SUFFICES ASSUME TextInv PROVE RangeIsWhatItSays
    OBVIOUS
  <2>1. ASSUME NEW reading \in Readings, NEW request \in Requests
        PROVE  Honest(text, reading, request, Serve(text, reading, request))
    <3>1. Met(text, reading)
      <4>1. Agree(text, reading.file)
        BY FilesAgree DEF Readings
      <4> QED BY <4>1, FunctionAssumption DEF Met, Readings
    <3>2. Len(text) < SizeWord
      BY FunctionAssumption DEF TextInv
    <3>3. request \in FileRequests
      <4>1. Offsets \subseteq Nat
        BY FunctionAssumption DEF Offsets
      <4>2. request.ranges \in Seq(RangeFields \cup {NoRange})
        <5>1. CASE request.ranges \in {<<>>, <<NoRange>>}
          <6> DEFINE Field == RangeFields \cup {NoRange}
          <6>1. NoRange \in Field
            OBVIOUS
          <6> HIDE DEF Field
          <6>2. <<>> \in Seq(Field) /\ <<NoRange>> \in Seq(Field)
            BY <6>1
          <6> QED BY <5>1, <6>2 DEF Field
        <5>2. ASSUME NEW r \in [first : Offsets, end : Offsets \cup {NoEnd}],
                     request.ranges = <<NoRange, r>>
              PROVE  request.ranges \in Seq(RangeFields \cup {NoRange})
          <6>1. r \in RangeFields
            BY <4>1 DEF RangeFields
          <6> QED BY <5>2, <6>1
        <5> QED BY <5>1, <5>2 DEF Requests
      <4> QED BY <4>2 DEF Requests, FileRequests
    <3> QED BY <3>1, <3>2, <3>3, ServeIsHonest
  <2> QED BY <2>1, Zenon DEF RangeIsWhatItSays, Honest
<1> QED BY <1>1, TextIsOne, PTL

(***************************************************************************)
(* FrameHeader                                                             *)
(***************************************************************************)

Byte == 0..255

\* The functions that Number and BigEndian are defined by.
IsRead(bytes, read) ==
    read = [i \in 0..Len(bytes) |-> IF i = 0 THEN 0 ELSE 256 * read[i - 1] + bytes[i]]
IsShifted(pl, width, shifted) ==
    shifted = [i \in 0..width |-> IF i = 0 THEN pl ELSE shifted[i - 1] \div 256]

\* The values of both exist: the next one continues those before it.
LEMMA ReadExists ==
    ASSUME NEW bytes \in Seq(Byte)
    PROVE  \E read : IsRead(bytes, read)
<1> DEFINE Reads(m, r) == /\ r \in [0..m -> Nat] /\ r[0] = 0
                          /\ \A k \in 1..m : r[k] = 256 * r[k - 1] + bytes[k]
           G == {m \in Nat : m <= Len(bytes) => \E r : Reads(m, r)}
<1>1. 0 \in G
  <2> DEFINE none == [k \in 0..0 |-> 0]
  <2>1. none \in [0..0 -> Nat] /\ none[0] = 0
    OBVIOUS
  <2>2. 1..0 = {}
    OBVIOUS
  <2> HIDE DEF none
  <2>3. Reads(0, none)
    BY <2>1, <2>2
  <2> HIDE DEF Reads
  <2> QED BY <2>3
<1>2. ASSUME NEW m \in Nat, m \in G PROVE m + 1 \in G
  <2> HIDE DEF Reads
  <2> SUFFICES ASSUME m + 1 <= Len(bytes) PROVE \E r : Reads(m + 1, r)
    OBVIOUS
  <2>1. PICK r : Reads(m, r)
    BY <1>2
  <2> USE DEF Reads
  <2>2. bytes[m + 1] \in Nat /\ m \in 0..m /\ 0 \in 0..m
    <3>1. m + 1 \in 1..Len(bytes)
      OBVIOUS
    <3>2. bytes[m + 1] \in Byte
      BY <3>1, ElementOfSeq
    <3>3. bytes[m + 1] \in Nat
      <4>1. Byte \subseteq Nat
        BY DEF Byte
      <4> QED BY <3>2, <4>1
    <3> QED BY <3>3
  <2> DEFINE next == [k \in 0..(m + 1) |-> IF k <= m THEN r[k] ELSE 256 * r[m] + bytes[m + 1]]
  <2>3. next \in [0..(m + 1) -> Nat] /\ next[0] = 0
    BY <2>1, <2>2
  <2>4. ASSUME NEW k \in 1..(m + 1) PROVE next[k] = 256 * next[k - 1] + bytes[k]
    <3>1. CASE k <= m
      BY <2>1, <3>1
    <3>2. CASE k = m + 1
      BY <2>1, <3>2
    <3> QED BY <3>1, <3>2
  <2> HIDE DEF next
  <2>5. Reads(m + 1, next)
    BY <2>3, <2>4
  <2> HIDE DEF Reads
  <2> QED BY <2>5
<1> HIDE DEF G, Reads
<1>3. Len(bytes) \in G
  BY <1>1, <1>2, SetInduction
<1>4. PICK r : Reads(Len(bytes), r)
  BY <1>3 DEF G
<1>5. r \in [0..Len(bytes) -> Nat] /\ r[0] = 0
  BY <1>4 DEF Reads
<1>6. ASSUME NEW k \in 0..Len(bytes)
      PROVE  r[k] = IF k = 0 THEN 0 ELSE 256 * r[k - 1] + bytes[k]
  <2>1. k # 0 => k \in 1..Len(bytes)
    OBVIOUS
  <2> QED BY <1>4, <2>1 DEF Reads
<1>7. r = [k \in 0..Len(bytes) |-> r[k]]
  BY <1>5
<1>8. r = [k \in 0..Len(bytes) |-> IF k = 0 THEN 0 ELSE 256 * r[k - 1] + bytes[k]]
  BY <1>6, <1>7, Zenon
<1> QED BY <1>8 DEF IsRead

\* The same for what is divided again and again.
LEMMA ShiftedExists ==
    ASSUME NEW pl \in Nat, NEW width \in Nat
    PROVE  \E shifted : IsShifted(pl, width, shifted)
<1> DEFINE Shifts(m, s) == /\ s \in [0..m -> Nat] /\ s[0] = pl
                           /\ \A k \in 1..m : s[k] = s[k - 1] \div 256
           G == {m \in Nat : \E s : Shifts(m, s)}
<1>1. 0 \in G
  <2>1. Shifts(0, [k \in 0..0 |-> pl])
    OBVIOUS
  <2> QED BY <2>1
<1>2. ASSUME NEW m \in Nat, m \in G PROVE m + 1 \in G
  <2> HIDE DEF Shifts
  <2>1. PICK s : Shifts(m, s)
    BY <1>2
  <2> USE DEF Shifts
  <2>2. m \in 0..m /\ 0 \in 0..m /\ s[m] \div 256 \in Nat
    BY <2>1
  <2> DEFINE next == [k \in 0..(m + 1) |-> IF k <= m THEN s[k] ELSE s[m] \div 256]
  <2>3. next \in [0..(m + 1) -> Nat] /\ next[0] = pl
    BY <2>1, <2>2
  <2>4. ASSUME NEW k \in 1..(m + 1) PROVE next[k] = next[k - 1] \div 256
    <3>1. CASE k <= m
      BY <2>1, <3>1
    <3>2. CASE k = m + 1
      BY <2>1, <3>2
    <3> QED BY <3>1, <3>2
  <2> HIDE DEF next
  <2>5. Shifts(m + 1, next)
    BY <2>3, <2>4
  <2> HIDE DEF Shifts
  <2> QED BY <2>5
<1> HIDE DEF G, Shifts
<1>3. width \in G
  BY <1>1, <1>2, SetInduction
<1>4. PICK s : Shifts(width, s)
  BY <1>3 DEF G
<1>5. s \in [0..width -> Nat] /\ s[0] = pl
  BY <1>4 DEF Shifts
<1>6. ASSUME NEW k \in 0..width PROVE s[k] = IF k = 0 THEN pl ELSE s[k - 1] \div 256
  <2>1. k # 0 => k \in 1..width
    OBVIOUS
  <2> QED BY <1>4, <2>1 DEF Shifts
<1>7. s = [k \in 0..width |-> s[k]]
  BY <1>5
<1>8. s = [k \in 0..width |-> IF k = 0 THEN pl ELSE s[k - 1] \div 256]
  BY <1>6, <1>7, Zenon
<1> QED BY <1>8 DEF IsShifted

\* The values of such a function.
LEMMA ShiftedValues ==
    ASSUME NEW pl \in Nat, NEW width \in Nat, NEW shifted, IsShifted(pl, width, shifted)
    PROVE  /\ shifted[0] = pl
           /\ \A k \in 1..width : shifted[k] = shifted[k - 1] \div 256
           /\ \A k \in 0..width : shifted[k] \in Nat
<1>1. shifted[0] = pl /\ \A k \in 1..width : shifted[k] = shifted[k - 1] \div 256
  BY DEF IsShifted
<1> DEFINE G == {k \in Nat : k <= width => shifted[k] \in Nat}
<1>2. 0 \in G
  BY <1>1
<1>3. ASSUME NEW k \in Nat, k \in G PROVE k + 1 \in G
  <2> SUFFICES ASSUME k + 1 <= width PROVE shifted[k + 1] \in Nat
    OBVIOUS
  <2>1. shifted[k] \in Nat /\ k + 1 \in 1..width /\ (k + 1) - 1 = k
    BY <1>3
  <2>2. shifted[k + 1] = shifted[k] \div 256
    BY <1>1, <2>1
  <2> QED BY <2>1, <2>2
<1> HIDE DEF G
<1>4. \A k \in Nat : k \in G
  BY <1>2, <1>3, SetInduction
<1>5. \A k \in 0..width : shifted[k] \in Nat
  BY <1>4 DEF G
<1> QED BY <1>1, <1>5

\* The number is the last value of the one, the bytes are what is left over by the
\* other.
LEMMA NumberIsRead ==
    ASSUME NEW bytes \in Seq(Byte)
    PROVE  \E read : IsRead(bytes, read) /\ Number(bytes) = read[Len(bytes)]
<1> DEFINE read == CHOOSE r : IsRead(bytes, r)
<1>1. IsRead(bytes, read)
  BY ReadExists
<1>2. Number(bytes) = read[Len(bytes)]
  BY DEF Number, IsRead
<1> QED BY <1>1, <1>2

\* The function that BigEndian chooses is the one that it is defined by.
LEMMA BigEndianIsShifted ==
    ASSUME NEW pl \in Nat, NEW width \in Nat
    PROVE  \E shifted : /\ IsShifted(pl, width, shifted)
                        /\ BigEndian(pl, width) = [i \in 1..width |-> shifted[width - i] % 256]
<1> DEFINE shifted == CHOOSE s : IsShifted(pl, width, s)
<1>1. IsShifted(pl, width, shifted)
  BY ShiftedExists
<1>2. BigEndian(pl, width) = [i \in 1..width |-> shifted[width - i] % 256]
  BY DEF BigEndian, IsShifted
<1> QED BY <1>1, <1>2

\* What is left over belongs to what is divided.
LEMMA DivModIs ==
    ASSUME NEW n \in Int, NEW q \in Int, NEW b \in Int, q = n \div 256, b = n % 256
    PROVE  256 * q + b = n
OBVIOUS

\* The same, without names for the two.
LEMMA DivMod ==
    ASSUME NEW n \in Nat
    PROVE  256 * (n \div 256) + (n % 256) = n
<1> DEFINE q == n \div 256
           b == n % 256
<1>1. q \in Int /\ b \in Int
  OBVIOUS
<1>2. q = n \div 256 /\ b = n % 256
  OBVIOUS
<1> HIDE DEF q, b
<1>3. 256 * q + b = n
  BY <1>1, <1>2, DivModIs
<1> QED BY <1>3 DEF q, b

\* A number that as many bytes hold.
Suffices(pl, width) == \A shifted : IsShifted(pl, width, shifted) => shifted[width] = 0

\* A number of as many bytes as are written is read again: when i bytes were read,
\* the number without its width - i lowest bytes was.
LEMMA BigEndianArrives ==
    ASSUME NEW pl \in Nat, NEW width \in Nat,
           Suffices(pl, width)
    PROVE  /\ BigEndian(pl, width) \in Seq(Byte)
           /\ Len(BigEndian(pl, width)) = width
           /\ Number(BigEndian(pl, width)) = pl
<1> DEFINE bytes == BigEndian(pl, width)
<1>1. PICK shifted : /\ IsShifted(pl, width, shifted)
                     /\ bytes = [i \in 1..width |-> shifted[width - i] % 256]
  BY BigEndianIsShifted
<1>2. /\ shifted[0] = pl /\ shifted[width] = 0
      /\ \A k \in 1..width : shifted[k] = shifted[k - 1] \div 256
      /\ \A k \in 0..width : shifted[k] \in Nat
  BY <1>1, ShiftedValues DEF Suffices
<1> HIDE DEF bytes
<1>3. \A i \in 1..width : bytes[i] = shifted[width - i] % 256 /\ bytes[i] \in Byte
  <2> SUFFICES ASSUME NEW i \in 1..width
               PROVE  bytes[i] = shifted[width - i] % 256 /\ bytes[i] \in Byte
    OBVIOUS
  <2>1. bytes[i] = shifted[width - i] % 256
    BY <1>1
  <2>2. width - i \in 0..width
    OBVIOUS
  <2>3. shifted[width - i] \in Nat
    BY <1>2, <2>2
  <2> QED BY <2>1, <2>3 DEF Byte
<1>4. bytes \in Seq(Byte) /\ Len(bytes) = width
  <2>1. bytes \in [1..width -> Byte]
    BY <1>1, <1>3
  <2> QED BY <2>1
<1>5. PICK read : IsRead(bytes, read) /\ Number(bytes) = read[width]
  BY <1>4, NumberIsRead
<1>6. read[0] = 0 /\ \A i \in 1..width : read[i] = 256 * read[i - 1] + bytes[i]
  BY <1>4, <1>5 DEF IsRead
<1> DEFINE G == {i \in Nat : i <= width => read[i] = shifted[width - i]}
<1>7. 0 \in G
  BY <1>2, <1>6
<1>8. ASSUME NEW i \in Nat, i \in G PROVE i + 1 \in G
  <2> SUFFICES ASSUME i + 1 <= width PROVE read[i + 1] = shifted[width - (i + 1)]
    OBVIOUS
  <2> DEFINE k == width - i
             rest == shifted[k - 1]
  <2>1. k \in 1..width /\ k - 1 \in 0..width /\ width - (i + 1) = k - 1
        /\ i + 1 \in 1..width /\ (i + 1) - 1 = i
    OBVIOUS
  <2>2. rest \in Nat /\ shifted[k] = rest \div 256
    BY <1>2, <2>1
  <2>3. read[i] = shifted[k]
    BY <1>8
  <2>4. bytes[i + 1] = rest % 256
    BY <1>3, <2>1
  <2>5. read[i + 1] = 256 * read[i] + bytes[i + 1]
    BY <1>6, <2>1
  <2>6. shifted[width - (i + 1)] = rest
    BY <2>1
  <2> HIDE DEF rest, k
  <2>7. 256 * (rest \div 256) + (rest % 256) = rest
    BY <2>2, DivMod
  <2> QED BY <2>2, <2>3, <2>4, <2>5, <2>6, <2>7
<1> HIDE DEF G
<1>9. width \in G
  BY <1>7, <1>8, SetInduction
<1> QED BY <1>2, <1>4, <1>5, <1>9 DEF G, bytes

\* What is written into the two bytes or the eight behind the second is all of the
\* length.
LEMMA TwoBytesSuffice ==
    ASSUME NEW pl \in Nat, pl <= 65535,
           NEW shifted, IsShifted(pl, 2, shifted)
    PROVE  shifted[2] = 0
<1>1. shifted[0] = pl /\ shifted[1] = shifted[0] \div 256 /\ shifted[2] = shifted[1] \div 256
  BY ShiftedValues
<1>2. (pl \div 256) \div 256 = 0
  OBVIOUS
<1> QED BY <1>1, <1>2

\* A length of size_t has 64 bits: below its upper 32 are all the others.
Half == 65536 * 65536
InSizeT(pl) == pl \div Half < Half

\* Four divisions by 256 are one by 2^32.
LEMMA FourShifts ==
    ASSUME NEW n \in Nat, NEW n1, n1 = n \div 256, NEW n2, n2 = n1 \div 256,
           NEW n3, n3 = n2 \div 256, NEW n4, n4 = n3 \div 256
    PROVE  n4 \in Nat /\ n4 = n \div Half
<1>1. n2 = n \div 65536 /\ n2 \in Nat
  BY SMT
<1>2. n4 = n2 \div 65536 /\ n4 \in Nat
  BY <1>1, SMT
<1>3. \A m \in Nat : (m \div 65536) \div 65536 = m \div Half
  BY SMT DEF Half
<1> QED BY <1>1, <1>2, <1>3, SMT

\* What is below 2^32 leaves nothing behind.
LEMMA HalfIsAll ==
    ASSUME NEW n \in Nat, n < Half
    PROVE  n \div Half = 0
BY SMT DEF Half

\* Nothing is left of a length of size_t after eight bytes.
LEMMA EightBytesSuffice ==
    ASSUME NEW pl \in Nat, InSizeT(pl), NEW shifted, IsShifted(pl, 8, shifted)
    PROVE  shifted[8] = 0
<1>1. /\ shifted[0] = pl
      /\ \A k \in 1..8 : shifted[k] = shifted[k - 1] \div 256
      /\ \A k \in 0..8 : shifted[k] \in Nat
  BY ShiftedValues
<1>2. /\ shifted[1] = shifted[0] \div 256 /\ shifted[2] = shifted[1] \div 256
      /\ shifted[3] = shifted[2] \div 256 /\ shifted[4] = shifted[3] \div 256
  BY <1>1
<1>3. /\ shifted[5] = shifted[4] \div 256 /\ shifted[6] = shifted[5] \div 256
      /\ shifted[7] = shifted[6] \div 256 /\ shifted[8] = shifted[7] \div 256
  BY <1>1
<1>4. shifted[4] \in Nat /\ shifted[4] = shifted[0] \div Half
  BY <1>1, <1>2, FourShifts
<1>5. shifted[8] = shifted[4] \div Half
  BY <1>3, <1>4, FourShifts
<1> QED BY <1>1, <1>4, <1>5, HalfIsAll DEF InSizeT

\* onDataReceived reads the length that send has written, at each of the lengths
\* where the form changes and at all others of size_t, whatever follows it.
THEOREM LengthIsRead ==
    ASSUME NEW pl \in Nat, InSizeT(pl), NEW rest \in Seq(Byte)
    PROVE  /\ ReadLength(WrittenLength(pl) \o rest) = pl
           /\ Len(WrittenLength(pl)) = 1 + Extension(WrittenLength(pl))
<1> DEFINE written == WrittenLength(pl)
           bytes == written \o rest
<1>1. CASE pl <= 125
  <2>1. written = <<pl>>
    BY <1>1 DEF WrittenLength, Short
  <2>2. bytes[1] = pl /\ written[1] = pl /\ Len(written) = 1
    BY <2>1
  <2>3. pl % 128 = pl
    BY <1>1
  <2> HIDE DEF written, bytes
  <2>4. ReadLength(bytes) = pl
    BY <1>1, <2>2, <2>3 DEF ReadLength
  <2>5. Extension(written) = 0
    BY <1>1, <2>2, <2>3 DEF Extension
  <2> QED BY <2>2, <2>4, <2>5 DEF written, bytes
<1>2. ASSUME NEW mark \in {126, 127}, NEW width \in {2, 8},
             width = IF mark = 126 THEN 2 ELSE 8,
             written = <<mark>> \o BigEndian(pl, width),
             Suffices(pl, width)
      PROVE  /\ ReadLength(bytes) = pl
             /\ Len(written) = 1 + Extension(written)
  <2> DEFINE ext == BigEndian(pl, width)
  <2>1. ext \in Seq(Byte) /\ Len(ext) = width /\ Number(ext) = pl
    <3>1. width \in Nat
      BY <1>2
    <3>2. Suffices(pl, width)
      BY <1>2
    <3> HIDE DEF written, bytes
    <3> QED BY <3>1, <3>2, BigEndianArrives
  <2>2. written[1] = mark /\ bytes[1] = mark /\ Len(written) = 1 + width
    <3> HIDE DEF ext
    <3>1. written = <<mark>> \o ext
      BY <1>2 DEF ext
    <3> HIDE DEF written
    <3> QED BY <2>1, <3>1
  <2>3. Extension(written) = width /\ Extension(bytes) = width /\ bytes[1] % 128 = mark
    <3>1. 126 % 128 = 126 /\ 127 % 128 = 127
      OBVIOUS
    <3> HIDE DEF written, bytes
    <3> QED BY <1>2, <2>2, <3>1 DEF Extension
  <2>4. SubSeq(bytes, 2, 1 + width) = ext
    <3> HIDE DEF ext
    <3>1. bytes = (<<mark>> \o ext) \o rest
      BY <1>2 DEF ext
    <3> HIDE DEF written, bytes
    <3>2. \A i \in 1..width : bytes[1 + i] = ext[i] /\ ext[i] \in Byte
      BY <2>1, <3>1
    <3>3. \A i \in 2..(1 + width) : bytes[i] \in Byte
      <4> SUFFICES ASSUME NEW i \in 2..(1 + width) PROVE bytes[i] \in Byte
        OBVIOUS
      <4>1. i - 1 \in 1..width /\ 1 + (i - 1) = i
        BY <1>2
      <4> QED BY <3>2, <4>1
    <3> DEFINE piece == SubSeq(bytes, 2, 1 + width)
    <3>4. /\ piece \in Seq(Byte)
          /\ Len(piece) = IF 2 <= 1 + width THEN (1 + width) - 2 + 1 ELSE 0
          /\ \A i \in 1..((1 + width) - 2 + 1) : piece[i] = bytes[2 + i - 1]
      BY <1>2, <3>3, SubSeqProperties
    <3> HIDE DEF piece
    <3>5. Len(piece) = width
      BY <1>2, <3>4
    <3>6. ASSUME NEW i \in 1..width PROVE piece[i] = ext[i]
      <4>1. i \in 1..((1 + width) - 2 + 1) /\ 2 + i - 1 = 1 + i
        BY <1>2
      <4> QED BY <3>2, <3>4, <4>1
    <3>7. piece = ext
      BY <2>1, <3>4, <3>5, <3>6
    <3> QED BY <3>7 DEF piece
  <2> HIDE DEF written, bytes, ext
  <2>5. ReadLength(bytes) = pl
    <3>1. ~(mark < 126)
      BY <1>2
    <3> QED BY <2>1, <2>3, <2>4, <3>1 DEF ReadLength
  <2> QED BY <2>2, <2>3, <2>5
<1>3. CASE 125 < pl /\ pl <= 65535
  <2>1. written = <<126>> \o BigEndian(pl, 2)
    BY <1>3 DEF WrittenLength, Short
  <2>2. Suffices(pl, 2)
    BY <1>3, TwoBytesSuffice DEF Suffices
  <2> QED BY <1>2, <2>1, <2>2
<1>4. CASE 65535 < pl
  <2>1. written = <<127>> \o BigEndian(pl, 8)
    BY <1>4 DEF WrittenLength, Short
  <2>2. Suffices(pl, 8)
    BY EightBytesSuffice DEF Suffices
  <2> QED BY <1>2, <2>1, <2>2
<1> QED BY <1>1, <1>3, <1>4

\* All that is written are bytes.
LEMMA WrittenAreBytes ==
    ASSUME NEW pl \in Nat, InSizeT(pl)
    PROVE  WrittenLength(pl) \in Seq(Byte) /\ BigEndian(pl, 8) \in Seq(Byte)
<1>1. BigEndian(pl, 8) \in Seq(Byte)
  <2>1. Suffices(pl, 8)
    BY EightBytesSuffice DEF Suffices
  <2> QED BY <2>1, BigEndianArrives
<1>2. pl <= 65535 => BigEndian(pl, 2) \in Seq(Byte)
  <2> SUFFICES ASSUME pl <= 65535 PROVE BigEndian(pl, 2) \in Seq(Byte)
    OBVIOUS
  <2>1. Suffices(pl, 2)
    BY TwoBytesSuffice DEF Suffices
  <2> QED BY <2>1, BigEndianArrives
<1>3. /\ pl <= 125 => <<pl>> \in Seq(Byte)
      /\ <<126>> \in Seq(Byte) /\ <<127>> \in Seq(Byte)
  BY DEF Byte
<1> DEFINE two == BigEndian(pl, 2)
           eight == BigEndian(pl, 8)
<1>4. WrittenLength(pl) = IF pl \in Short THEN <<pl>>
                          ELSE IF pl <= 65535 THEN <<126>> \o two ELSE <<127>> \o eight
  BY DEF WrittenLength
<1> HIDE DEF two, eight
<1>5. pl \in Short => pl <= 125
  BY DEF Short
<1>6. pl <= 65535 => <<126>> \o two \in Seq(Byte)
  BY <1>2, <1>3, ConcatProperties DEF two
<1>7. <<127>> \o eight \in Seq(Byte)
  BY <1>1, <1>3, ConcatProperties DEF eight
<1> QED BY <1>1, <1>3, <1>4, <1>5, <1>6, <1>7

\* Three bytes are a number that a frame's length can be.
LEMMA ThreeBytesAreShort ==
    ASSUME NEW bytes \in Seq(Byte), Len(bytes) <= 3
    PROVE  Number(bytes) \in Nat /\ InSizeT(Number(bytes))
<1>1. PICK read : IsRead(bytes, read) /\ Number(bytes) = read[Len(bytes)]
  BY NumberIsRead
<1>2. read[0] = 0 /\ \A i \in 1..Len(bytes) : read[i] = 256 * read[i - 1] + bytes[i]
  BY <1>1 DEF IsRead
<1>3. Len(bytes) \in Nat
  OBVIOUS
<1>4. ASSUME NEW i \in 1..Len(bytes), NEW k \in Nat, i = k + 1, NEW m \in Nat,
             read[k] \in Nat, read[k] < m
      PROVE  read[i] \in Nat /\ read[i] < 256 * m
  <2>1. bytes[i] \in 0..255
    BY ElementOfSeq DEF Byte
  <2>2. read[i] = 256 * read[k] + bytes[i]
    <3>1. i - 1 = k
      BY <1>4
    <3> QED BY <1>2, <3>1
  <2> DEFINE r == read[k]
             b == bytes[i]
  <2>3. r \in Nat /\ r < m /\ b \in 0..255 /\ read[i] = 256 * r + b
    BY <1>4, <2>1, <2>2
  <2> HIDE DEF r, b
  <2> QED BY <2>3
<1>5. read[0] \in Nat /\ read[0] < 256
  BY <1>2
<1>6. 1 \in 1..Len(bytes) => read[1] \in Nat /\ read[1] < 256
  <2> SUFFICES ASSUME 1 \in 1..Len(bytes) PROVE read[1] \in Nat /\ read[1] < 256 * 1
    OBVIOUS
  <2>1. read[0] \in Nat /\ read[0] < 1 /\ 1 = 0 + 1
    BY <1>2
  <2> QED BY <1>4, <2>1
<1>7. 2 \in 1..Len(bytes) => read[2] \in Nat /\ read[2] < 256 * 256
  <2> SUFFICES ASSUME 2 \in 1..Len(bytes) PROVE read[2] \in Nat /\ read[2] < 256 * 256
    OBVIOUS
  <2>1. read[1] \in Nat /\ read[1] < 256 /\ 2 = 1 + 1
    BY <1>3, <1>6
  <2> QED BY <1>4, <2>1
<1>8. 3 \in 1..Len(bytes) => read[3] \in Nat /\ read[3] < 256 * (256 * 256)
  <2> SUFFICES ASSUME 3 \in 1..Len(bytes) PROVE read[3] \in Nat /\ read[3] < 256 * (256 * 256)
    OBVIOUS
  <2>1. read[2] \in Nat /\ read[2] < 256 * 256 /\ 3 = 2 + 1
    BY <1>3, <1>7
  <2>2. 256 * 256 \in Nat /\ 2 \in Nat
    OBVIOUS
  <2> QED BY <1>4, <2>1, <2>2
<1> DEFINE n == read[Len(bytes)]
<1>9. n \in Nat /\ n < 256 * (256 * 256)
  <2>1. CASE Len(bytes) = 0
    BY <1>5, <2>1
  <2>2. CASE Len(bytes) = 1
    BY <1>6, <2>2
  <2>3. CASE Len(bytes) = 2
    BY <1>7, <2>3
  <2>4. CASE Len(bytes) = 3
    BY <1>8, <2>4
  <2>5. \A l \in Nat : l <= 3 => l \in {0, 1, 2, 3}
    OBVIOUS
  <2>6. Len(bytes) \in {0, 1, 2, 3}
    BY <1>3, <2>5
  <2> HIDE DEF n
  <2> QED BY <2>1, <2>2, <2>3, <2>4, <2>6
<1> HIDE DEF n
<1>10. n \in Nat /\ InSizeT(n)
  <2>1. n < Half
    BY <1>9, SMT DEF Half
  <2>2. 0 < Half
    BY SMT DEF Half
  <2>3. n \div Half = 0
    BY <1>9, <2>1, HalfIsAll
  <2> QED BY <1>9, <2>2, <2>3 DEF InSizeT
<1> QED BY <1>1, <1>10, Zenon DEF n

\* The length of a frame arrives, whatever bytes follow it.
THEOREM FrameLengthsArrive == Spec => []LengthArrives
<1>1. TextInv => LengthArrives
  <2> SUFFICES ASSUME TextInv PROVE LengthArrives
    OBVIOUS
  <2>1. text \in Seq(Byte) /\ Len(text) \in Nat
    <3>1. Alphabet \subseteq Byte
      BY FunctionAssumption DEF Byte
    <3>2. text \in Seq(Alphabet) /\ Len(text) \in Nat
      BY DEF TextInv
    <3>3. \A i \in 1..Len(text) : text[i] \in Byte
      BY <3>1, <3>2, ElementOfSeq
    <3> QED BY <3>2, <3>3, SubSeqProperties, SubSeqFull
  <2> DEFINE piece == SubSeq(text, 1, Lesser(3, Len(text)))
             n == Number(piece)
             written == WrittenLength(n)
             zeros == BigEndian(0, 8)
             rest == text \o zeros
  <2>2. piece \in Seq(Byte) /\ Len(piece) <= 3
    <3>1. \A l \in Nat : Lesser(3, l) \in 0..3 /\ Lesser(3, l) <= l
      BY DEF Lesser
    <3> DEFINE l == Lesser(3, Len(text))
    <3>2. l \in 0..3 /\ l <= Len(text)
      BY <2>1, <3>1
    <3> HIDE DEF l
    <3>3. \A i \in 1..l : text[i] \in Byte
      BY <2>1, <3>2, ElementOfSeq
    <3>4. SubSeq(text, 1, l) \in Seq(Byte) /\ Len(SubSeq(text, 1, l)) <= 3
      BY <3>2, <3>3, SubSeqProperties
    <3> QED BY <3>4 DEF l
  <2> HIDE DEF piece
  <2>3. n \in Nat /\ InSizeT(n)
    BY <2>2, ThreeBytesAreShort
  <2>4. 0 \in Nat /\ InSizeT(0)
    <3>1. 0 < Half
      BY SMT DEF Half
    <3> QED BY <3>1, HalfIsAll DEF InSizeT
  <2> HIDE DEF n
  <2>5. written \in Seq(Byte) /\ zeros \in Seq(Byte)
    BY <2>3, <2>4, WrittenAreBytes
  <2>6. rest \in Seq(Byte)
    BY <2>1, <2>5, ConcatProperties
  <2> HIDE DEF zeros
  <2>7. (written \o text) \o zeros = written \o rest
    BY <2>1, <2>5, ConcatAssociative
  <2>8. ReadLength(written \o rest) = n /\ Len(written) = 1 + Extension(written)
    BY <2>3, <2>6, LengthIsRead
  <2> HIDE DEF written, rest
  <2>9. ReadLength((written \o text) \o zeros) = n /\ Len(written) = 1 + Extension(written)
    BY <2>7, <2>8
  <2> QED BY <2>9 DEF LengthArrives, n, piece, zeros, written
<1> QED BY <1>1, TextIsOne, PTL
(***************************************************************************)
(* url_unescape                                                            *)
(***************************************************************************)

\* What url_unescape makes of the rest from start on, once it knows what it makes
\* of every later rest.
Unescape(str, behind, later, start) ==
    LET size == Len(str)
        pos == FindAny(str, {PercentSign}, start)
        memory == str \o behind
        byte == FromChars(memory[pos + 1], memory[pos + 2])
    IN IF BeyondEnd(str, start) THEN Rejects
       ELSE IF pos = 0 THEN Returns(After(str, start - 1))
       ELSE IF (pos = size /\ size > 1) \/ byte = <<>> THEN Rejects
       ELSE IF later[pos + 3].ok
            THEN Returns(SubSeq(str, start, pos - 1) \o byte \o later[pos + 3].val) ELSE Rejects

Starts(str) == 1..(Len(str) + 3)

IsUnescape(str, behind, from) == from = [start \in Starts(str) |-> Unescape(str, behind, from, start)]

\* The least of some numbers.
LEMMA MinIsLeast ==
    ASSUME NEW S \in SUBSET Nat, S # {}
    PROVE  Min(S) \in S /\ \A y \in S : Min(S) <= y
<1>1. \E x \in S : \A y \in S : x <= y
  BY LeastExists
<1> QED BY <1>1 DEF Min

\* A character is found from where it is looked for on.
LEMMA FindAnyFinds ==
    ASSUME NEW S, NEW str \in Seq(S), NEW chars, NEW from \in Nat \ {0}
    PROVE  LET i == FindAny(str, chars, from)
           IN \/ i = 0 /\ \A k \in from..Len(str) : str[k] \notin chars
              \/ /\ i \in from..Len(str) /\ str[i] \in chars
                 /\ \A k \in from..(i - 1) : str[k] \notin chars
<1> DEFINE found == {k \in from..Len(str) : str[k] \in chars}
           i == FindAny(str, chars, from)
<1>1. i = IF found # {} THEN Min(found) ELSE 0
  BY DEF FindAny, SelectInSubSeq
<1>2. found \in SUBSET Nat /\ \A k \in from..Len(str) : k \in found <=> str[k] \in chars
  OBVIOUS
<1>3. found \subseteq from..Len(str) /\ \A k \in found : str[k] \in chars
  OBVIOUS
<1> HIDE DEF found, i
<1> SUFFICES \/ i = 0 /\ \A k \in from..Len(str) : str[k] \notin chars
             \/ /\ i \in from..Len(str) /\ str[i] \in chars
                /\ \A k \in from..(i - 1) : str[k] \notin chars
  BY DEF i
<1>4. CASE found = {}
  BY <1>1, <1>2, <1>4
<1>5. CASE found # {}
  <2>1. i \in found /\ \A y \in found : i <= y
    BY <1>1, <1>2, <1>5, MinIsLeast
  <2>2. i \in from..Len(str) /\ str[i] \in chars /\ Len(str) \in Nat
    BY <1>3, <2>1
  <2>3. ASSUME NEW k \in from..(i - 1) PROVE str[k] \notin chars
    <3>1. k \in from..Len(str) /\ ~(i <= k)
      BY <2>2
    <3> QED BY <1>2, <2>1, <3>1
  <2> QED BY <2>2, <2>3
<1> QED BY <1>4, <1>5

\* Only later rests are looked at, ...
LEMMA OnlyLater ==
    ASSUME NEW S, NEW str \in Seq(S), NEW behind, NEW start \in Starts(str), NEW f, NEW g,
           \A k \in Starts(str) : k > start => f[k] = g[k]
    PROVE  Unescape(str, behind, f, start) = Unescape(str, behind, g, start)
<1> DEFINE pos == FindAny(str, {PercentSign}, start)
<1>1. Len(str) \in Nat /\ start \in Nat \ {0}
  BY DEF Starts
<1>2. pos = 0 \/ pos \in start..Len(str)
  BY <1>1, FindAnyFinds
<1>3. CASE pos = 0
  BY <1>3 DEF Unescape
<1>4. CASE pos \in start..Len(str)
  <2>1. pos + 3 \in Starts(str) /\ pos + 3 > start
    BY <1>1, <1>4 DEF Starts
  <2>2. f[pos + 3] = g[pos + 3]
    BY <2>1
  <2> QED BY <2>2 DEF Unescape
<1> QED BY <1>2, <1>3, <1>4

\* ... so that there is such a function, defined from the end on.
LEMMA UnescapeExists ==
    ASSUME NEW S, NEW str \in Seq(S), NEW behind
    PROVE  \E from : IsUnescape(str, behind, from)
<1> DEFINE n == Len(str) + 3
           Known(m, f) == /\ f = [k \in 1..n |-> f[k]]
                          /\ \A k \in 1..n : k > n - m => f[k] = Unescape(str, behind, f, k)
           G == {m \in Nat : m <= n => \E f : Known(m, f)}
<1>1. n \in Nat /\ Starts(str) = 1..n
  BY DEF Starts
<1> HIDE DEF n
<1>2. 0 \in G
  <2> DEFINE f == [k \in 1..n |-> Rejects]
  <2>1. f = [k \in 1..n |-> f[k]]
    OBVIOUS
  <2>2. \A k \in 1..n : ~(k > n - 0)
    BY <1>1
  <2> HIDE DEF f
  <2>3. Known(0, f)
    BY <2>1, <2>2
  <2> HIDE DEF Known
  <2> QED BY <2>3
<1>3. ASSUME NEW m \in Nat, m \in G PROVE m + 1 \in G
  <2> HIDE DEF Known
  <2> SUFFICES ASSUME m + 1 <= n PROVE \E f : Known(m + 1, f)
    OBVIOUS
  <2>1. PICK f : Known(m, f)
    BY <1>1, <1>3
  <2> DEFINE i == n - m
             new == Unescape(str, behind, f, i)
             next == [k \in 1..n |-> IF k = i THEN new ELSE f[k]]
  <2>2. i \in 1..n /\ n - (m + 1) = i - 1
    BY <1>1
  <2>3. next[i] = new /\ \A k \in 1..n : k # i => next[k] = f[k]
    BY <2>2
  <2>4. next = [k \in 1..n |-> next[k]]
    OBVIOUS
  <2> HIDE DEF next
  <2>5. ASSUME NEW k \in 1..n, k >= i
        PROVE  Unescape(str, behind, next, k) = Unescape(str, behind, f, k)
    <3>1. \A j \in 1..n : j > k => next[j] = f[j]
      <4> HIDE DEF i
      <4> QED BY <2>2, <2>3, <2>5
    <3> QED BY <1>1, <3>1, OnlyLater
  <2>6. ASSUME NEW k \in 1..n, k > n - (m + 1)
        PROVE  next[k] = Unescape(str, behind, next, k)
    <3>1. k >= i
      BY <1>1, <2>6
    <3>2. CASE k = i
      BY <2>3, <2>5, <3>1, <3>2
    <3>3. CASE k # i
      <4>1. f[k] = Unescape(str, behind, f, k)
        <5>1. k > n - m
          BY <1>1, <3>1, <3>3
        <5> QED BY <2>1, <5>1 DEF Known
      <4> QED BY <2>3, <2>5, <3>1, <3>3, <4>1
    <3> QED BY <3>2, <3>3
  <2>7. Known(m + 1, next)
    BY <2>4, <2>6 DEF Known
  <2> QED BY <2>7
<1> HIDE DEF G, Known
<1>4. n \in G
  BY <1>1, <1>2, <1>3, SetInduction
<1>5. PICK f : Known(n, f)
  BY <1>1, <1>4 DEF G
<1>6. ASSUME NEW k \in 1..n PROVE f[k] = Unescape(str, behind, f, k)
  BY <1>1, <1>5 DEF Known
<1>7. f = [k \in 1..n |-> f[k]]
  BY <1>5 DEF Known
<1>8. f = [k \in 1..n |-> Unescape(str, behind, f, k)]
  BY <1>6, <1>7, Zenon
<1> QED BY <1>1, <1>8 DEF IsUnescape

\* url_unescape is its first value.
LEMMA UnescapeIs ==
    ASSUME NEW S, NEW str \in Seq(S), NEW behind
    PROVE  \E from : IsUnescape(str, behind, from) /\ url_unescape(str, behind) = from[1]
<1> DEFINE from == CHOOSE f : IsUnescape(str, behind, f)
<1>1. IsUnescape(str, behind, from)
  BY UnescapeExists
<1>2. url_unescape(str, behind) = from[1]
  BY DEF url_unescape, IsUnescape, Unescape, Then, Starts
<1> QED BY <1>1, <1>2

\* The rest from start on becomes the same, whatever is behind the text: if less
\* than two characters follow the sign, the text is rejected by this call or,
\* because the next one would start beyond the end, by the next.
LEMMA SameRest ==
    ASSUME NEW S, NEW str \in Seq(S), NEW a \in Seq(S), NEW b \in Seq(S),
           NEW f, IsUnescape(str, a, f), NEW g, IsUnescape(str, b, g), NEW start \in Starts(str),
           \A k \in Starts(str) : k > start => f[k] = g[k]
    PROVE  f[start] = g[start]
<1> DEFINE size == Len(str)
           pos == FindAny(str, {PercentSign}, start)
           Result(byte, later) ==
               IF BeyondEnd(str, start) THEN Rejects
               ELSE IF pos = 0 THEN Returns(After(str, start - 1))
               ELSE IF (pos = size /\ size > 1) \/ byte = <<>> THEN Rejects
               ELSE IF later.ok THEN Returns(SubSeq(str, start, pos - 1) \o byte \o later.val)
               ELSE Rejects
           x == FromChars((str \o a)[pos + 1], (str \o a)[pos + 2])
           y == FromChars((str \o b)[pos + 1], (str \o b)[pos + 2])
<1>1. f[start] = Result(x, f[pos + 3]) /\ g[start] = Result(y, g[pos + 3])
  <2>1. f[start] = Unescape(str, a, f, start) /\ g[start] = Unescape(str, b, g, start)
    BY DEF IsUnescape
  <2> QED BY <2>1 DEF Unescape
<1>2. size \in Nat /\ start \in Nat \ {0} /\ start <= size + 3
  BY DEF Starts
<1>3. pos = 0 \/ pos \in start..size
  BY <1>2, FindAnyFinds
<1>4. CASE pos = 0
  BY <1>1, <1>4, Zenon
<1>5. CASE pos \in start..size /\ pos + 2 <= size
  <2>1. pos + 1 \in 1..size /\ pos + 2 \in 1..size
    <3> HIDE DEF pos, size
    <3> QED BY <1>2, <1>5
  <2>2. \A i \in 1..size : (str \o a)[i] = str[i] /\ (str \o b)[i] = str[i]
    BY ConcatProperties
  <2> HIDE DEF pos, size
  <2>3. x = y
    BY <2>1, <2>2
  <2>4. f[pos + 3] = g[pos + 3]
    <3>1. pos + 3 \in Starts(str) /\ pos + 3 > start
      BY <1>2, <1>5 DEF Starts, size
    <3> QED BY <3>1
  <2> HIDE DEF Result, x, y
  <2> QED BY <1>1, <2>3, <2>4
<1>6. CASE pos \in start..size /\ pos + 2 > size
  <2>1. ~(pos = size /\ size > 1) => f[pos + 3] = Rejects /\ g[pos + 3] = Rejects
    <3> SUFFICES ASSUME ~(pos = size /\ size > 1)
                 PROVE  f[pos + 3] = Rejects /\ g[pos + 3] = Rejects
      OBVIOUS
    <3>1. pos + 3 \in Starts(str) /\ pos + 3 > size + 1
      <4> HIDE DEF pos
      <4> QED BY <1>2, <1>6 DEF Starts
    <3>2. BeyondEnd(str, pos + 3)
      BY <3>1 DEF BeyondEnd
    <3> DEFINE p == pos + 3
    <3> HIDE DEF p
    <3>3. p \in Starts(str) /\ BeyondEnd(str, p)
      BY <3>1, <3>2 DEF p
    <3>4. f[p] = Rejects /\ g[p] = Rejects
      BY <3>3 DEF IsUnescape, Unescape
    <3> QED BY <3>4 DEF p
  <2>2. ~Rejects.ok
    BY DEF Rejects
  <2> DEFINE F == f[pos + 3]
             H == g[pos + 3]
  <2>3. Result(x, F) = Rejects /\ Result(y, H) = Rejects
    <3>1. ~(pos = size /\ size > 1) => ~F.ok /\ ~H.ok
      BY <2>1, <2>2
    <3>2. pos # 0
      <4> HIDE DEF pos
      <4> QED BY <1>2, <1>6
    <3> HIDE DEF pos, size, x, y, F, H
    <3> QED BY <3>1, <3>2, Zenon
  <2> HIDE DEF Result, x, y
  <2> QED BY <1>1, <2>3
<1> QED
  <2> HIDE DEF pos, size
  <2> QED BY <1>2, <1>3, <1>4, <1>5, <1>6

\* Whatever is behind a text, url_unescape makes the same of it.
LEMMA BehindDoesNotMatter ==
    ASSUME NEW S, NEW str \in Seq(S), NEW a \in Seq(S), NEW b \in Seq(S)
    PROVE  url_unescape(str, a) = url_unescape(str, b)
<1>1. PICK f : IsUnescape(str, a, f) /\ url_unescape(str, a) = f[1]
  BY UnescapeIs
<1>2. PICK g : IsUnescape(str, b, g) /\ url_unescape(str, b) = g[1]
  BY UnescapeIs
<1> DEFINE n == Len(str) + 3
           G == {m \in Nat : \A k \in 1..n : k > n - m => f[k] = g[k]}
<1>3. n \in Nat /\ Starts(str) = 1..n /\ 1 \in 1..n
  BY DEF Starts
<1> HIDE DEF n
<1>4. 0 \in G
  BY <1>3
<1>5. ASSUME NEW m \in Nat, m \in G PROVE m + 1 \in G
  <2> SUFFICES ASSUME NEW k \in 1..n, k > n - (m + 1) PROVE f[k] = g[k]
    OBVIOUS
  <2>1. \A j \in 1..n : j > k => f[j] = g[j]
    BY <1>3, <1>5
  <2>2. k \in Starts(str) /\ \A j \in Starts(str) : j > k => f[j] = g[j]
    BY <1>3, <2>1
  <2>3. IsUnescape(str, a, f) /\ IsUnescape(str, b, g)
    BY <1>1, <1>2
  <2> HIDE DEF G
  <2> QED BY <2>2, <2>3, SameRest
<1> HIDE DEF G
<1>6. n \in G
  BY <1>3, <1>4, <1>5, SetInduction
<1>7. f[1] = g[1]
  <2>1. 1 > n - n
    BY <1>3
  <2> QED BY <1>3, <1>6, <2>1 DEF G
<1> QED BY <1>1, <1>2, <1>7

\* The two bytes that url_unescape may read behind a text never decide what it
\* returns, for any text and any bytes: where it reads them, the text is rejected.
THEOREM NothingIsFromBehind == Spec => []NothingFromBehind
<1>1. TextInv => NothingFromBehind
  <2> SUFFICES ASSUME TextInv, NEW behind \in Alphabet \X Alphabet
               PROVE  url_unescape(text, behind) = url_unescape(text, <<0, 0>>)
    BY DEF NothingFromBehind, Unescaped
  <2>1. \A c \in Alphabet : c \in Nat
    BY FunctionAssumption
  <2>2. text \in Seq(Nat)
    <3>1. text \in Seq(Alphabet)
      BY DEF TextInv
    <3> QED BY <2>1, <3>1, WiderSeq
  <2>3. behind \in Seq(Nat) /\ <<0, 0>> \in Seq(Nat)
    <3>1. PICK x \in Alphabet, y \in Alphabet : behind = <<x, y>>
      OBVIOUS
    <3>2. x \in Nat /\ y \in Nat
      BY <2>1
    <3> QED BY <3>1, <3>2
  <2> QED BY <2>2, <2>3, BehindDoesNotMatter
<1> QED BY <1>1, TextIsOne, PTL


(***************************************************************************)
(* extractFieldVals                                                        *)
(***************************************************************************)

\* What extractFieldVals makes of the rest from pos on, once it knows what it makes
\* of every later rest.
Extract(str, delimiters, later, pos) ==
    LET start == NextPiece(str, pos)
        end == FindAny(str, delimiters, start)
        chunk == SubSeq(str, start, IF end = 0 THEN Len(str) ELSE end - 1)
        field == FieldVal(Trim(chunk, Spaces))
    IN IF start = 0 THEN Rejects
       ELSE IF chunk = <<>> THEN Returns(<<>>)
       ELSE IF field.ok
            THEN IF end = 0 THEN Returns(<<field.val>>)
                 ELSE IF later[end + 1].ok THEN Returns(<<field.val>> \o later[end + 1].val)
                 ELSE Rejects
            ELSE Rejects

Positions(str) == 1..(Len(str) + 1)

IsExtract(str, delimiters, from) ==
    from = [pos \in Positions(str) |-> Extract(str, delimiters, from, pos)]

\* The greatest of some numbers.
LEMMA GreatestExists ==
    ASSUME NEW n \in Nat, NEW S \in SUBSET (0..n), S # {}
    PROVE  \E x \in S : \A y \in S : y <= x
<1> DEFINE T == {k \in 0..n : n - k \in S}
<1>1. T \in SUBSET Nat /\ T # {}
  <2>1. PICK x \in S : TRUE
    OBVIOUS
  <2>2. n - x \in 0..n /\ n - (n - x) = x
    OBVIOUS
  <2>3. n - x \in T
    BY <2>2
  <2>4. T \subseteq Nat
    OBVIOUS
  <2> HIDE DEF T
  <2> QED BY <2>3, <2>4
<1>2. PICK k \in T : \A j \in T : k <= j
  <2> HIDE DEF T
  <2> QED BY <1>1, LeastExists
<1>3. n - k \in S /\ k \in 0..n
  OBVIOUS
<1>4. ASSUME NEW y \in S PROVE y <= n - k
  <2>1. y \in 0..n /\ n - y \in 0..n /\ n - (n - y) = y
    OBVIOUS
  <2>2. n - y \in T
    BY <2>1
  <2>3. k <= n - y
    BY <1>2, <2>2
  <2> QED BY <1>3, <2>1, <2>3
<1> QED BY <1>3, <1>4

LEMMA MaxIsGreatest ==
    ASSUME NEW n \in Nat, NEW S \in SUBSET (0..n), S # {}
    PROVE  Max(S) \in S /\ \A y \in S : y <= Max(S)
<1>1. \E x \in S : \A y \in S : x >= y
  <2>1. PICK x \in S : \A y \in S : y <= x
    BY GreatestExists
  <2>2. \A y \in S : x >= y
    BY <2>1
  <2> QED BY <2>2
<1>2. Max(S) \in S /\ \A y \in S : Max(S) >= y
  BY <1>1 DEF Max
<1> QED BY <1>2

\* A piece begins with the first character that is no blank.
LEMMA NextPieceFinds ==
    ASSUME NEW S, NEW str \in Seq(S), NEW from \in Nat \ {0}
    PROVE  LET i == NextPiece(str, from)
           IN \/ i = 0 /\ \A k \in from..Len(str) : str[k] \in Spaces
              \/ /\ i \in from..Len(str) /\ str[i] \notin Spaces
                 /\ \A k \in from..(i - 1) : str[k] \in Spaces
<1> DEFINE found == {k \in from..Len(str) : str[k] \notin Spaces}
           i == NextPiece(str, from)
<1>1. i = IF found # {} THEN Min(found) ELSE 0
  BY DEF NextPiece, SelectInSubSeq
<1>2. found \in SUBSET Nat /\ \A k \in from..Len(str) : k \in found <=> str[k] \notin Spaces
  OBVIOUS
<1>3. found \subseteq from..Len(str) /\ \A k \in found : str[k] \notin Spaces
  OBVIOUS
<1> HIDE DEF found, i
<1> SUFFICES \/ i = 0 /\ \A k \in from..Len(str) : str[k] \in Spaces
             \/ /\ i \in from..Len(str) /\ str[i] \notin Spaces
                /\ \A k \in from..(i - 1) : str[k] \in Spaces
  BY DEF i
<1>4. CASE found = {}
  BY <1>1, <1>2, <1>4
<1>5. CASE found # {}
  <2>1. i \in found /\ \A y \in found : i <= y
    BY <1>1, <1>2, <1>5, MinIsLeast
  <2>2. i \in from..Len(str) /\ str[i] \notin Spaces /\ Len(str) \in Nat
    BY <1>3, <2>1
  <2>3. ASSUME NEW k \in from..(i - 1) PROVE str[k] \in Spaces
    <3>1. k \in from..Len(str) /\ ~(i <= k)
      BY <2>2
    <3> QED BY <1>2, <2>1, <3>1
  <2> QED BY <2>2, <2>3
<1> QED BY <1>4, <1>5

\* Between a and b, u and v are the first and the last character that is kept.
KeptFrom(str, chars, a, b, u, v) ==
    /\ u \in a..b /\ v \in u..b /\ str[u] \notin chars /\ str[v] \notin chars
    /\ \A k \in a..(u - 1) : str[k] \in chars
    /\ \A k \in (v + 1)..b : str[k] \in chars

TrimmedTo(str, chars, a, b, u, v) == Trim(SubSeq(str, a, b), chars) = SubSeq(str, u, v)

\* Trim takes off what is to be trimmed, and nothing else.
LEMMA TrimIs ==
    ASSUME NEW S, NEW str \in Seq(S), NEW chars, NEW a \in Nat \ {0}, NEW b \in Nat, b <= Len(str),
           NEW u, NEW v, KeptFrom(str, chars, a, b, u, v)
    PROVE  TrimmedTo(str, chars, a, b, u, v)
<1> USE DEF KeptFrom
<1> DEFINE part == SubSeq(str, a, b)
           kept == {i \in DOMAIN part : part[i] \notin chars}
           p == u - a + 1
           q == v - a + 1
<1>1. Len(str) \in Nat /\ \A k \in a..b : str[k] \in S
  BY ElementOfSeq
<1>2. /\ part \in Seq(S) /\ Len(part) = b - a + 1 /\ DOMAIN part = 1..(b - a + 1)
      /\ \A i \in 1..(b - a + 1) : part[i] = str[a + i - 1]
  BY <1>1, SubSeqProperties
<1>3. kept \in SUBSET (0..(b - a + 1)) /\ kept \in SUBSET Nat /\ b - a + 1 \in Nat
  BY <1>2
<1>4. p \in kept /\ q \in kept
  <2>1. p \in 1..(b - a + 1) /\ q \in 1..(b - a + 1) /\ a + p - 1 = u /\ a + q - 1 = v
    OBVIOUS
  <2> HIDE DEF p, q, part
  <2> QED BY <1>2, <2>1
<1>5. \A i \in kept : p <= i /\ i <= q
  <2> SUFFICES ASSUME NEW i \in kept PROVE p <= i /\ i <= q
    OBVIOUS
  <2>1. i \in 1..(b - a + 1) /\ part[i] \notin chars
    BY <1>2
  <2>2. str[a + i - 1] \notin chars /\ a + i - 1 \in a..b
    BY <1>2, <2>1
  <2>3. a + i - 1 \notin a..(u - 1) /\ a + i - 1 \notin (v + 1)..b
    BY <2>2
  <2> QED BY <2>1, <2>2, <2>3
<1>6. Min(kept) = p /\ Max(kept) = q
  <2> HIDE DEF kept, part
  <2> DEFINE m == Min(kept)
             w == Max(kept)
  <2>1. m \in kept /\ \A y \in kept : m <= y
    BY <1>3, <1>4, MinIsLeast
  <2>2. w \in kept /\ \A y \in kept : y <= w
    BY <1>3, <1>4, MaxIsGreatest
  <2> HIDE DEF m, w
  <2>3. m \in Nat /\ w \in Nat /\ p \in Nat /\ q \in Nat
    BY <1>3, <1>4, <2>1, <2>2
  <2>4. m = p
    BY <1>4, <1>5, <2>1, <2>3
  <2>5. w = q
    BY <1>4, <1>5, <2>2, <2>3
  <2> QED BY <2>4, <2>5 DEF m, w
<1>7. SubSeq(part, p, q) = SubSeq(str, u, v)
  <2>1. p \in Nat \ {0} /\ q \in Nat /\ p <= q /\ q <= b - a + 1 /\ q - p = v - u
    OBVIOUS
  <2>2. \A k \in 1..(q - p + 1) : p + k - 1 \in 1..(b - a + 1) /\ a + (p + k - 1) - 1 = u + k - 1
    OBVIOUS
  <2> HIDE DEF part, p, q
  <2>3. \A i \in p..q : part[i] \in S
    BY <1>2, <2>1, ElementOfSeq
  <2>4. /\ SubSeq(part, p, q) \in Seq(S) /\ Len(SubSeq(part, p, q)) = q - p + 1
        /\ \A k \in 1..(q - p + 1) : SubSeq(part, p, q)[k] = part[p + k - 1]
    BY <1>2, <2>1, <2>3, SubSeqProperties
  <2>5. /\ SubSeq(str, u, v) \in Seq(S) /\ Len(SubSeq(str, u, v)) = v - u + 1
        /\ \A k \in 1..(v - u + 1) : SubSeq(str, u, v)[k] = str[u + k - 1]
    <3>1. \A k \in u..v : str[k] \in S
      BY <1>1
    <3> QED BY <3>1, SubSeqProperties
  <2>6. \A k \in 1..(q - p + 1) : part[p + k - 1] = str[u + k - 1]
    BY <1>2, <2>2
  <2> DEFINE x == SubSeq(part, p, q)
             y == SubSeq(str, u, v)
  <2>7. Len(x) = Len(y) /\ \A k \in 1..Len(x) : x[k] = y[k]
    BY <2>1, <2>4, <2>5, <2>6
  <2>8. x \in Seq(S) /\ y \in Seq(S)
    BY <2>4, <2>5
  <2> HIDE DEF x, y
  <2>9. x = y
    BY <2>7, <2>8, SeqEqual
  <2> QED BY <2>9 DEF x, y
<1>8. kept # {}
  BY <1>4
<1> HIDE DEF p, q
<1> QED BY <1>6, <1>7, <1>8 DEF Trim, TrimmedTo

\* Of blanks nothing is left.
LEMMA TrimBlanks ==
    ASSUME NEW S, NEW str \in Seq(S), NEW chars, NEW a \in Nat \ {0}, NEW b \in Nat, b <= Len(str),
           \A k \in a..b : str[k] \in chars
    PROVE  Trim(SubSeq(str, a, b), chars) = <<>>
<1> DEFINE part == SubSeq(str, a, b)
<1>1. Len(str) \in Nat /\ \A k \in a..b : str[k] \in S
  BY ElementOfSeq
<1>2. /\ part \in Seq(S) /\ Len(part) = IF a <= b THEN b - a + 1 ELSE 0
      /\ \A i \in 1..(b - a + 1) : part[i] = str[a + i - 1]
  BY <1>1, SubSeqProperties
<1>3. \A i \in DOMAIN part : part[i] \in chars
  <2>1. DOMAIN part = 1..Len(part)
    BY <1>2
  <2> SUFFICES ASSUME NEW i \in 1..Len(part) PROVE part[i] \in chars
    BY <2>1
  <2> HIDE DEF part
  <2>2. i \in 1..(b - a + 1) /\ a + i - 1 \in a..b
    BY <1>2
  <2> QED BY <1>2, <2>2
<1> HIDE DEF part
<1>4. {i \in DOMAIN part : part[i] \notin chars} = {}
  BY <1>3
<1> QED BY <1>4 DEF Trim, part

\* Where a piece ends.
LEMMA PieceEnds ==
    ASSUME NEW S, NEW str \in Seq(S), NEW i \in 0..Len(str)
    PROVE  /\ PieceEnd(str, i) \in (i + 1)..(Len(str) + 1)
           /\ PieceEnd(str, i) # Len(str) + 1 => str[PieceEnd(str, i)] \in ListDelimiters
           /\ \A k \in (i + 1)..(PieceEnd(str, i) - 1) : str[k] \notin ListDelimiters
<1> DEFINE size == Len(str)
           found == {j \in (i + 1)..size : str[j] \in ListDelimiters}
           ends == {size + 1} \cup found
           end == PieceEnd(str, i)
<1>1. size \in Nat /\ end = Min(ends)
  BY DEF PieceEnd
<1>2. ends \in SUBSET Nat /\ size + 1 \in ends
  BY <1>1
<1>3. /\ \A j \in ends : j = size + 1 \/ (j \in (i + 1)..size /\ str[j] \in ListDelimiters)
      /\ \A j \in (i + 1)..size : str[j] \in ListDelimiters => j \in ends
  OBVIOUS
<1> HIDE DEF ends, end
<1>4. end \in ends /\ \A j \in ends : end <= j
  BY <1>1, <1>2, MinIsLeast
<1> HIDE DEF size, found
<1>5. i \in Nat /\ i <= size
  BY <1>1 DEF size
<1>6. end \in (i + 1)..(size + 1) /\ (end # size + 1 => str[end] \in ListDelimiters)
  BY <1>1, <1>3, <1>4, <1>5
<1>7. ASSUME NEW k \in (i + 1)..(end - 1) PROVE str[k] \notin ListDelimiters
  <2>1. k \in (i + 1)..size /\ ~(end <= k)
    BY <1>1, <1>5, <1>6
  <2> QED BY <1>3, <1>4, <2>1
<1> QED BY <1>6, <1>7 DEF end, size

\* No blank is a delimiter.
LEMMA NoDelimiter == \A c \in Spaces : c \notin ListDelimiters
BY DEF Spaces, ListDelimiters, Space, Tab, SemicolonSign, CommaSign

\* The character that is looked for is found where nothing before it is one.
LEMMA FoundAt ==
    ASSUME NEW S, NEW str \in Seq(S), NEW chars, NEW from \in Nat \ {0}, NEW e \in from..(Len(str) + 1),
           e # Len(str) + 1 => str[e] \in chars, \A k \in from..(e - 1) : str[k] \notin chars
    PROVE  FindAny(str, chars, from) = IF e = Len(str) + 1 THEN 0 ELSE e
<1> DEFINE i == FindAny(str, chars, from)
<1>1. \/ i = 0 /\ \A k \in from..Len(str) : str[k] \notin chars
      \/ /\ i \in from..Len(str) /\ str[i] \in chars
         /\ \A k \in from..(i - 1) : str[k] \notin chars
  BY FindAnyFinds
<1>2. Len(str) \in Nat
  OBVIOUS
<1> HIDE DEF i
<1>3. CASE e = Len(str) + 1
  <2>1. \A k \in from..Len(str) : k \in from..(e - 1)
    BY <1>2, <1>3
  <2> QED BY <1>1, <1>3, <2>1 DEF i
<1>4. CASE e # Len(str) + 1
  <2>1. e \in from..Len(str) /\ str[e] \in chars
    BY <1>2, <1>4
  <2>2. i \in from..Len(str) /\ str[i] \in chars /\ \A k \in from..(i - 1) : str[k] \notin chars
    BY <1>1, <2>1
  <2>3. ~(i < e) /\ ~(e < i)
    BY <1>2, <2>1, <2>2
  <2>4. i = e
    BY <2>1, <2>2, <2>3
  <2> QED BY <1>4, <2>4 DEF i
<1> QED BY <1>3, <1>4

\* A piece of blanks is where Extract finds no start, or an empty piece.
LEMMA BlankPiece ==
    ASSUME NEW S, NEW str \in Seq(S), NEW i \in 0..Len(str), NEW later,
           \A k \in (i + 1)..(PieceEnd(str, i) - 1) : str[k] \in Spaces
    PROVE  /\ Piece(str, i) = <<>>
           /\ Extract(str, ListDelimiters, later, i + 1) = IF PieceEnd(str, i) = Len(str) + 1 THEN Rejects
                                          ELSE Returns(<<>>)
<1> DEFINE e == PieceEnd(str, i)
           start == NextPiece(str, i + 1)
           end == FindAny(str, ListDelimiters, start)
<1>1. Len(str) \in Nat /\ i \in Nat /\ i + 1 \in Nat \ {0}
  OBVIOUS
<1>2. /\ e \in (i + 1)..(Len(str) + 1)
      /\ e # Len(str) + 1 => str[e] \in ListDelimiters
      /\ \A k \in (i + 1)..(e - 1) : str[k] \in Spaces
  BY PieceEnds
<1>3. \/ start = 0 /\ \A k \in (i + 1)..Len(str) : str[k] \in Spaces
      \/ /\ start \in (i + 1)..Len(str) /\ str[start] \notin Spaces
         /\ \A k \in (i + 1)..(start - 1) : str[k] \in Spaces
  BY <1>1, NextPieceFinds
<1> HIDE DEF e, start
<1>4. Piece(str, i) = <<>>
  <2>1. e - 1 \in Nat /\ e - 1 <= Len(str)
    BY <1>1, <1>2
  <2>2. Trim(SubSeq(str, i + 1, e - 1), Spaces) = <<>>
    BY <1>1, <1>2, <2>1, TrimBlanks
  <2> QED BY <2>2 DEF Piece, e
<1>5. CASE e = Len(str) + 1
  <2>1. start = 0
    BY <1>1, <1>2, <1>3, <1>5
  <2>2. Extract(str, ListDelimiters, later, i + 1) = Rejects
    BY <2>1 DEF Extract, start
  <2> QED BY <1>4, <1>5, <2>2 DEF e
<1>6. CASE e # Len(str) + 1
  <2>1. e \in (i + 1)..Len(str) /\ str[e] \in ListDelimiters /\ str[e] \notin Spaces
    BY <1>1, <1>2, <1>6, NoDelimiter
  <2>2. start \in (i + 1)..Len(str) /\ ~(start < e) /\ ~(e < start)
    BY <1>1, <1>2, <1>3, <2>1
  <2>3. start = e
    BY <2>1, <2>2
  <2>4. end = e
    <3>1. e \in Nat \ {0} /\ e \in e..(Len(str) + 1) /\ \A k \in e..(e - 1) : str[k] \notin ListDelimiters
      BY <1>1, <2>1
    <3>2. FindAny(str, ListDelimiters, e) = IF e = Len(str) + 1 THEN 0 ELSE e
      BY <2>1, <3>1, FoundAt
    <3> QED BY <1>6, <2>3, <3>2
  <2>5. e # 0 /\ e - 1 < e /\ e \in Int
    BY <1>1, <2>1
  <2>6. SubSeq(str, e, e - 1) = <<>>
    BY <2>5, SubSeqEmpty
  <2> HIDE DEF end
  <2>7. Extract(str, ListDelimiters, later, i + 1) = Returns(<<>>)
    BY <2>3, <2>4, <2>5, <2>6 DEF Extract, start, end
  <2> QED BY <1>4, <1>6, <2>7 DEF e
<1> QED BY <1>5, <1>6

\* Any other piece becomes a field, and the list goes on behind it.
LEMMA FullPiece ==
    ASSUME NEW S, NEW str \in Seq(S), NEW i \in 0..Len(str), NEW later,
           NEW full \in (i + 1)..(PieceEnd(str, i) - 1), str[full] \notin Spaces
    PROVE  LET e == PieceEnd(str, i)
               field == FieldVal(Piece(str, i))
           IN /\ Piece(str, i) # <<>>
              /\ Extract(str, ListDelimiters, later, i + 1) =
                     IF ~field.ok THEN Rejects
                     ELSE IF e = Len(str) + 1 THEN Returns(<<field.val>>)
                     ELSE IF later[e + 1].ok THEN Returns(<<field.val>> \o later[e + 1].val)
                     ELSE Rejects
<1> DEFINE e == PieceEnd(str, i)
           start == NextPiece(str, i + 1)
           end == FindAny(str, ListDelimiters, start)
           last == IF end = 0 THEN Len(str) ELSE end - 1
           chunk == SubSeq(str, start, last)
<1>1. Len(str) \in Nat /\ i \in Nat /\ i + 1 \in Nat \ {0}
  OBVIOUS
<1>2. /\ e \in (i + 1)..(Len(str) + 1)
      /\ e # Len(str) + 1 => str[e] \in ListDelimiters
      /\ \A k \in (i + 1)..(e - 1) : str[k] \notin ListDelimiters
  BY PieceEnds
<1>3. \/ start = 0 /\ \A k \in (i + 1)..Len(str) : str[k] \in Spaces
      \/ /\ start \in (i + 1)..Len(str) /\ str[start] \notin Spaces
         /\ \A k \in (i + 1)..(start - 1) : str[k] \in Spaces
  BY <1>1, NextPieceFinds
<1>4. full \in (i + 1)..(e - 1) /\ full \in (i + 1)..Len(str)
  BY <1>1, <1>2
<1> HIDE DEF e, start
<1>5. /\ start \in (i + 1)..(e - 1) /\ start <= full /\ str[start] \notin Spaces
      /\ \A k \in (i + 1)..(start - 1) : str[k] \in Spaces
  <2>1. start # 0
    BY <1>3, <1>4
  <2>2. ~(full < start)
    BY <1>1, <1>3, <1>4, <2>1
  <2> QED BY <1>1, <1>2, <1>3, <1>4, <2>1, <2>2
<1>6. end = IF e = Len(str) + 1 THEN 0 ELSE e
  <2>1. start \in Nat \ {0} /\ e \in start..(Len(str) + 1)
    BY <1>1, <1>2, <1>5
  <2>2. \A k \in start..(e - 1) : str[k] \notin ListDelimiters
    BY <1>1, <1>2, <1>5
  <2> QED BY <1>2, <2>1, <2>2, FoundAt
<1> HIDE DEF end
<1>7. last = e - 1 /\ (end = 0 <=> e = Len(str) + 1) /\ (end # 0 => end = e)
  BY <1>1, <1>2, <1>6
<1> HIDE DEF last
<1>8. PICK v \in start..(e - 1) : str[v] \notin Spaces /\ \A k \in (v + 1)..(e - 1) : str[k] \in Spaces
  <2> DEFINE T == {k \in start..(e - 1) : str[k] \notin Spaces}
  <2>1. T \in SUBSET (0..Len(str)) /\ start \in T
    BY <1>1, <1>2, <1>5
  <2>2. \A k \in start..(e - 1) : k \in T <=> str[k] \notin Spaces
    OBVIOUS
  <2>3. T \subseteq start..(e - 1)
    OBVIOUS
  <2> HIDE DEF T
  <2>4. PICK v \in T : \A y \in T : y <= v
    BY <1>1, <2>1, GreatestExists
  <2>5. v \in start..(e - 1) /\ str[v] \notin Spaces
    BY <2>2, <2>3, <2>4
  <2>6. ASSUME NEW k \in (v + 1)..(e - 1) PROVE str[k] \in Spaces
    <3>1. k \in start..(e - 1) /\ ~(k <= v)
      BY <1>1, <1>2, <1>5, <2>5
    <3> QED BY <2>2, <2>4, <3>1
  <2> QED BY <2>5, <2>6
<1> DEFINE kept == SubSeq(str, start, v)
<1>9. Trim(chunk, Spaces) = kept /\ Piece(str, i) = kept
  <2> DEFINE a == i + 1
             b == e - 1
  <2>1. a \in Nat \ {0} /\ b \in Nat /\ b <= Len(str) /\ start \in Nat \ {0}
    BY <1>1, <1>2, <1>5
  <2>2. /\ start \in a..b /\ start \in start..b /\ v \in start..b
        /\ str[start] \notin Spaces /\ str[v] \notin Spaces
        /\ \A k \in a..(start - 1) : str[k] \in Spaces
        /\ \A k \in start..(start - 1) : str[k] \in Spaces
        /\ \A k \in (v + 1)..b : str[k] \in Spaces
    <3>1. start \in start..b /\ \A k \in start..(start - 1) : str[k] \in Spaces
      BY <1>5, <2>1
    <3> QED BY <1>5, <1>8, <3>1
  <2> HIDE DEF a, b
  <2>5. KeptFrom(str, Spaces, a, b, start, v) /\ KeptFrom(str, Spaces, start, b, start, v)
    BY <2>2 DEF KeptFrom
  <2>3. TrimmedTo(str, Spaces, a, b, start, v)
    BY <2>1, <2>5, TrimIs
  <2>4. TrimmedTo(str, Spaces, start, b, start, v)
    BY <2>1, <2>5, TrimIs
  <2> QED BY <1>7, <2>3, <2>4 DEF Piece, TrimmedTo, e, a, b
<1>10. kept # <<>> /\ chunk # <<>>
  <2>1. start \in Int /\ v \in Int /\ e - 1 \in Int /\ start <= v /\ start <= e - 1
    BY <1>1, <1>2, <1>5, <1>8
  <2>2. /\ \A k \in start..v : str[k] \in S
        /\ \A k \in start..(e - 1) : str[k] \in S
    <3>1. \A k \in 1..Len(str) : str[k] \in S
      BY ElementOfSeq
    <3> QED BY <1>1, <1>2, <1>5, <1>8, <3>1
  <2>3. Len(kept) > 0 /\ Len(SubSeq(str, start, e - 1)) > 0
    <3>1. Len(kept) = v - start + 1 /\ Len(SubSeq(str, start, e - 1)) = e - 1 - start + 1
      BY <2>1, <2>2, SubSeqProperties
    <3> QED BY <2>1, <3>1
  <2>4. chunk = SubSeq(str, start, e - 1)
    BY <1>7
  <2>5. Len(<<>>) = 0
    OBVIOUS
  <2> HIDE DEF kept, chunk
  <2>6. Len(kept) > 0 /\ Len(chunk) > 0
    BY <2>3, <2>4
  <2> QED BY <2>5, <2>6
<1> HIDE DEF kept, chunk
<1> DEFINE field == FieldVal(Piece(str, i))
<1>11. Extract(str, ListDelimiters, later, i + 1) =
           IF ~field.ok THEN Rejects
           ELSE IF end = 0 THEN Returns(<<field.val>>)
           ELSE IF later[end + 1].ok THEN Returns(<<field.val>> \o later[end + 1].val)
           ELSE Rejects
  <2>1. start # 0
    BY <1>1, <1>5
  <2>2. Extract(str, ListDelimiters, later, i + 1) =
            IF field.ok
            THEN IF end = 0 THEN Returns(<<field.val>>)
                 ELSE IF later[end + 1].ok THEN Returns(<<field.val>> \o later[end + 1].val)
                 ELSE Rejects
            ELSE Rejects
    BY <1>9, <1>10, <2>1 DEF Extract, start, end, chunk, last
  <2> HIDE DEF field
  <2> QED BY <2>2, Zenon
<1> HIDE DEF field
<1>12. Extract(str, ListDelimiters, later, i + 1) =
           IF ~field.ok THEN Rejects
           ELSE IF e = Len(str) + 1 THEN Returns(<<field.val>>)
           ELSE IF later[e + 1].ok THEN Returns(<<field.val>> \o later[e + 1].val)
           ELSE Rejects
  BY <1>7, <1>11, Zenon
<1>13. Piece(str, i) # <<>>
  BY <1>9, <1>10
<1> QED BY <1>12, <1>13 DEF e, field

\* Only later rests are looked at, ...
LEMMA OnlyLaterFields ==
    ASSUME NEW S, NEW str \in Seq(S), NEW delimiters, NEW pos \in Positions(str),
           NEW f, NEW g, \A k \in Positions(str) : k > pos => f[k] = g[k]
    PROVE  Extract(str, delimiters, f, pos) = Extract(str, delimiters, g, pos)
<1> DEFINE start == NextPiece(str, pos)
           end == FindAny(str, delimiters, start)
<1>1. Len(str) \in Nat /\ pos \in Nat \ {0}
  BY DEF Positions
<1>2. start = 0 \/ start \in pos..Len(str)
  BY <1>1, NextPieceFinds
<1>3. CASE start = 0
  BY <1>3 DEF Extract
<1>4. CASE start \in pos..Len(str)
  <2>1. start \in Nat \ {0} /\ start >= pos
    <3> HIDE DEF start
    <3> QED BY <1>1, <1>4
  <2>2. end = 0 \/ end \in start..Len(str)
    <3> HIDE DEF start
    <3> QED BY <2>1, FindAnyFinds
  <2>3. CASE end = 0
    BY <2>3 DEF Extract
  <2>4. CASE end \in start..Len(str)
    <3>1. end + 1 \in Positions(str) /\ end + 1 > pos
      <4> HIDE DEF start, end
      <4> QED BY <1>1, <2>1, <2>4 DEF Positions
    <3>2. f[end + 1] = g[end + 1]
      BY <3>1
    <3> QED BY <3>2 DEF Extract
  <2> QED BY <2>2, <2>3, <2>4
<1> QED BY <1>2, <1>3, <1>4

\* ... so that there is such a function, defined from the end on.
LEMMA ExtractExists ==
    ASSUME NEW S, NEW str \in Seq(S), NEW delimiters
    PROVE  \E from : IsExtract(str, delimiters, from)
<1> DEFINE n == Len(str) + 1
           Known(m, f) == /\ f = [k \in 1..n |-> f[k]]
                          /\ \A k \in 1..n : k > n - m => f[k] = Extract(str, delimiters, f, k)
           G == {m \in Nat : m <= n => \E f : Known(m, f)}
<1>1. n \in Nat /\ Positions(str) = 1..n
  BY DEF Positions
<1> HIDE DEF n
<1>2. 0 \in G
  <2> DEFINE f == [k \in 1..n |-> Rejects]
  <2>1. f = [k \in 1..n |-> f[k]]
    OBVIOUS
  <2>2. \A k \in 1..n : ~(k > n - 0)
    BY <1>1
  <2> HIDE DEF f
  <2>3. Known(0, f)
    BY <2>1, <2>2
  <2> HIDE DEF Known
  <2> QED BY <2>3
<1>3. ASSUME NEW m \in Nat, m \in G PROVE m + 1 \in G
  <2> HIDE DEF Known
  <2> SUFFICES ASSUME m + 1 <= n PROVE \E f : Known(m + 1, f)
    OBVIOUS
  <2>1. PICK f : Known(m, f)
    BY <1>1, <1>3
  <2> DEFINE i == n - m
             new == Extract(str, delimiters, f, i)
             next == [k \in 1..n |-> IF k = i THEN new ELSE f[k]]
  <2>2. i \in 1..n /\ n - (m + 1) = i - 1
    BY <1>1
  <2>3. next[i] = new /\ \A k \in 1..n : k # i => next[k] = f[k]
    BY <2>2
  <2>4. next = [k \in 1..n |-> next[k]]
    OBVIOUS
  <2> HIDE DEF next
  <2>5. ASSUME NEW k \in 1..n, k >= i
        PROVE  Extract(str, delimiters, next, k) = Extract(str, delimiters, f, k)
    <3>1. \A j \in 1..n : j > k => next[j] = f[j]
      <4> HIDE DEF i
      <4> QED BY <2>2, <2>3, <2>5
    <3> QED BY <1>1, <3>1, OnlyLaterFields
  <2>6. ASSUME NEW k \in 1..n, k > n - (m + 1)
        PROVE  next[k] = Extract(str, delimiters, next, k)
    <3>1. k >= i
      BY <1>1, <2>6
    <3>2. CASE k = i
      BY <2>3, <2>5, <3>1, <3>2
    <3>3. CASE k # i
      <4>1. f[k] = Extract(str, delimiters, f, k)
        <5>1. k > n - m
          BY <1>1, <3>1, <3>3
        <5> QED BY <2>1, <5>1 DEF Known
      <4> QED BY <2>3, <2>5, <3>1, <3>3, <4>1
    <3> QED BY <3>2, <3>3
  <2>7. Known(m + 1, next)
    BY <2>4, <2>6 DEF Known
  <2> QED BY <2>7
<1> HIDE DEF G, Known
<1>4. n \in G
  BY <1>1, <1>2, <1>3, SetInduction
<1>5. PICK f : Known(n, f)
  BY <1>1, <1>4 DEF G
<1>6. ASSUME NEW k \in 1..n PROVE f[k] = Extract(str, delimiters, f, k)
  BY <1>1, <1>5 DEF Known
<1>7. f = [k \in 1..n |-> f[k]]
  BY <1>5 DEF Known
<1>8. f = [k \in 1..n |-> Extract(str, delimiters, f, k)]
  BY <1>6, <1>7, Zenon
<1> QED BY <1>1, <1>8 DEF IsExtract

\* extractFieldVals is its first value.
LEMMA ExtractIs ==
    ASSUME NEW S, NEW str \in Seq(S), NEW delimiters, str # <<>>
    PROVE  \E from : IsExtract(str, delimiters, from) /\ extractFieldVals(str, delimiters) = from[1]
<1> DEFINE from == CHOOSE f : IsExtract(str, delimiters, f)
<1>1. IsExtract(str, delimiters, from)
  BY ExtractExists
<1>2. extractFieldVals(str, delimiters) = from[1]
  BY DEF extractFieldVals, IsExtract, Extract, Then, Positions
<1> QED BY <1>1, <1>2

(***************************************************************************)
(* The list from one cut on                                                *)
(***************************************************************************)

CutsFrom(str, i) == {j \in Cuts(str) : i <= j}
Listed(str, i) == {j \in CutsFrom(str, i) : \A k \in CutsFrom(str, i) : k <= j => Piece(str, k) # <<>>}
Field(str, i) == FieldVal(Piece(str, i))
Place(str, i, j) == Cardinality({k \in Listed(str, i) : k <= j})
IsLast(str, i) == PieceEnd(str, i) = Len(str) + 1

\* FieldsAreThePieces of the rest behind the cut i.
Rejected(str, i) ==
    \/ \E j \in CutsFrom(str, i) : IsLast(str, j) /\ CutsFrom(str, i) \ Listed(str, i) = {j}
    \/ \E j \in Listed(str, i) : ~Field(str, j).ok

FieldValues(str) == {Field(str, j).val : j \in Cuts(str)}

ListIs(str, i, fields) ==
    IF Rejected(str, i) THEN fields = Rejects
    ELSE /\ fields.ok /\ fields.val \in Seq(FieldValues(str))
         /\ Len(fields.val) = Cardinality(Listed(str, i))
         /\ \A j \in Listed(str, i) : fields.val[Place(str, i, j)] = Field(str, j).val

\* The cuts behind a cut.
LEMMA NextCut ==
    ASSUME NEW S, NEW str \in Seq(S), NEW i \in Cuts(str)
    PROVE  LET e == PieceEnd(str, i)
           IN /\ i \in 0..Len(str) /\ e \in (i + 1)..(Len(str) + 1)
              /\ IsLast(str, i) => CutsFrom(str, i) = {i}
              /\ ~IsLast(str, i) =>
                     /\ e \in Cuts(str)
                     /\ CutsFrom(str, i) = {i} \cup CutsFrom(str, e)
<1> DEFINE e == PieceEnd(str, i)
<1>1. Len(str) \in Nat /\ i \in 0..Len(str)
  BY DEF Cuts
<1>2. /\ e \in (i + 1)..(Len(str) + 1)
      /\ e # Len(str) + 1 => str[e] \in ListDelimiters
      /\ \A k \in (i + 1)..(e - 1) : str[k] \notin ListDelimiters
  BY <1>1, PieceEnds
<1> HIDE DEF e
<1>3. \A j \in Cuts(str) : j = 0 \/ (j \in 1..Len(str) /\ str[j] \in ListDelimiters)
  BY DEF Cuts
<1>4. ASSUME NEW j \in CutsFrom(str, i), j # i PROVE e \in Cuts(str) /\ e <= j /\ e # Len(str) + 1
  <2>1. j \in Cuts(str) /\ i <= j
    BY DEF CutsFrom
  <2>2. j \in 1..Len(str) /\ str[j] \in ListDelimiters /\ i < j
    BY <1>1, <1>3, <1>4, <2>1
  <2>3. j \notin (i + 1)..(e - 1)
    BY <1>2, <2>2
  <2>4. e <= j
    BY <1>1, <1>2, <2>2, <2>3
  <2>5. e # Len(str) + 1 /\ e \in 1..Len(str)
    BY <1>1, <1>2, <2>2, <2>4
  <2>6. e \in Cuts(str)
    BY <1>2, <2>5 DEF Cuts
  <2> QED BY <2>4, <2>5, <2>6
<1>5. i \in CutsFrom(str, i)
  BY <1>1 DEF CutsFrom
<1>6. ASSUME IsLast(str, i) PROVE CutsFrom(str, i) = {i}
  BY <1>4, <1>5, <1>6 DEF IsLast, e
<1>7. ASSUME ~IsLast(str, i) PROVE e \in Cuts(str) /\ CutsFrom(str, i) = {i} \cup CutsFrom(str, e)
  <2>1. e # Len(str) + 1
    BY <1>7 DEF IsLast, e
  <2>2. e \in Cuts(str)
    BY <1>1, <1>2, <2>1 DEF Cuts
  <2>3. \A j \in CutsFrom(str, i) : j = i \/ j \in CutsFrom(str, e)
    BY <1>4 DEF CutsFrom
  <2>4. \A j \in CutsFrom(str, e) : j \in CutsFrom(str, i)
    <3> SUFFICES ASSUME NEW j \in CutsFrom(str, e) PROVE j \in CutsFrom(str, i)
      OBVIOUS
    <3>1. j \in Cuts(str) /\ e <= j
      BY DEF CutsFrom
    <3>2. j \in 0..Len(str)
      BY <3>1, <1>1, <1>3
    <3>3. i <= j
      BY <1>1, <1>2, <3>1, <3>2
    <3> QED BY <3>1, <3>3 DEF CutsFrom
  <2> QED BY <1>5, <2>2, <2>3, <2>4
<1> QED BY <1>1, <1>2, <1>6, <1>7 DEF e

\* What is listed from a cut on: nothing if the piece is blank, else the piece and
\* what is listed behind it.
LEMMA ListedFrom ==
    ASSUME NEW S, NEW str \in Seq(S), NEW i \in Cuts(str)
    PROVE  LET e == PieceEnd(str, i)
           IN /\ Piece(str, i) = <<>> => Listed(str, i) = {}
              /\ Piece(str, i) # <<>> /\ IsLast(str, i) => Listed(str, i) = {i}
              /\ Piece(str, i) # <<>> /\ ~IsLast(str, i) =>
                     /\ Listed(str, i) = {i} \cup Listed(str, e)
                     /\ CutsFrom(str, i) \ Listed(str, i) = CutsFrom(str, e) \ Listed(str, e)
<1> DEFINE e == PieceEnd(str, i)
<1>1. /\ Len(str) \in Nat /\ i \in 0..Len(str) /\ e \in (i + 1)..(Len(str) + 1)
      /\ IsLast(str, i) => CutsFrom(str, i) = {i}
      /\ ~IsLast(str, i) => e \in Cuts(str) /\ CutsFrom(str, i) = {i} \cup CutsFrom(str, e)
  BY NextCut
<1> HIDE DEF e
<1>2. \A j \in Cuts(str) : j \in Nat
  BY DEF Cuts
<1>3. i \in CutsFrom(str, i) /\ \A j \in CutsFrom(str, i) : j \in Nat /\ i <= j
  BY <1>1, <1>2 DEF CutsFrom
<1>4. ASSUME Piece(str, i) = <<>> PROVE Listed(str, i) = {}
  BY <1>3, <1>4 DEF Listed
<1>5. ASSUME Piece(str, i) # <<>>, IsLast(str, i) PROVE Listed(str, i) = {i}
  BY <1>1, <1>5 DEF Listed
<1>6. ASSUME Piece(str, i) # <<>>, ~IsLast(str, i)
      PROVE  /\ Listed(str, i) = {i} \cup Listed(str, e)
             /\ CutsFrom(str, i) \ Listed(str, i) = CutsFrom(str, e) \ Listed(str, e)
  <2>1. CutsFrom(str, i) = {i} \cup CutsFrom(str, e)
    BY <1>1, <1>6
  <2>2. \A j \in CutsFrom(str, e) : j \in Nat /\ e <= j /\ i < j
    BY <1>1, <1>2 DEF CutsFrom
  <2>3. i \in Listed(str, i)
    <3>1. \A k \in CutsFrom(str, i) : k <= i => k = i
      BY <1>1, <1>3
    <3> QED BY <1>3, <1>6, <3>1 DEF Listed
  <2>4. \A j \in CutsFrom(str, e) : j \in Listed(str, i) <=> j \in Listed(str, e)
    <3> SUFFICES ASSUME NEW j \in CutsFrom(str, e)
                 PROVE  j \in Listed(str, i) <=> j \in Listed(str, e)
      OBVIOUS
    <3>1. (\A k \in CutsFrom(str, i) : k <= j => Piece(str, k) # <<>>)
          <=> (\A k \in CutsFrom(str, e) : k <= j => Piece(str, k) # <<>>)
      BY <1>6, <2>1
    <3>2. j \in CutsFrom(str, i)
      BY <2>1
    <3> QED BY <3>1, <3>2 DEF Listed
  <2>5. i \notin CutsFrom(str, e)
    BY <1>1, <2>2
  <2>6. Listed(str, i) \subseteq CutsFrom(str, i) /\ Listed(str, e) \subseteq CutsFrom(str, e)
    BY DEF Listed
  <2> QED BY <2>1, <2>3, <2>4, <2>5, <2>6
<1> QED BY <1>4, <1>5, <1>6 DEF e

\* The numbers that are listed are finitely many.
LEMMA ListedIsFinite ==
    ASSUME NEW S, NEW str \in Seq(S), NEW i \in Cuts(str), NEW T \in SUBSET Listed(str, i)
    PROVE  IsFiniteSet(T) /\ Cardinality(T) \in Nat
<1>1. Listed(str, i) \subseteq 0..Len(str) /\ Len(str) \in Nat
  BY DEF Listed, CutsFrom, Cuts
<1>2. IsFiniteSet(0..Len(str))
  BY <1>1, FS_Interval
<1>3. IsFiniteSet(T)
  BY <1>1, <1>2, FS_Subset
<1> QED BY <1>3, FS_CardinalityType

\* The places in the list are counted from 1, and those behind a piece from 2.
LEMMA Places ==
    ASSUME NEW S, NEW str \in Seq(S), NEW i \in Cuts(str), Piece(str, i) # <<>>
    PROVE  LET e == PieceEnd(str, i)
           IN /\ Place(str, i, i) = 1
              /\ IsLast(str, i) => Cardinality(Listed(str, i)) = 1
              /\ ~IsLast(str, i) =>
                     /\ Cardinality(Listed(str, i)) = Cardinality(Listed(str, e)) + 1
                     /\ \A j \in Listed(str, e) :
                            /\ Place(str, e, j) \in 1..Cardinality(Listed(str, e))
                            /\ Place(str, i, j) = Place(str, e, j) + 1
<1> DEFINE e == PieceEnd(str, i)
<1>1. /\ Len(str) \in Nat /\ i \in 0..Len(str) /\ e \in (i + 1)..(Len(str) + 1)
      /\ ~IsLast(str, i) => e \in Cuts(str)
  BY NextCut
<1>2. /\ IsLast(str, i) => Listed(str, i) = {i}
      /\ ~IsLast(str, i) => Listed(str, i) = {i} \cup Listed(str, e)
  BY ListedFrom
<1> HIDE DEF e
<1>3. \A j \in Listed(str, e) : j \in Nat /\ i < j
  <2> SUFFICES ASSUME NEW j \in Listed(str, e) PROVE j \in Nat /\ i < j
    OBVIOUS
  <2>1. j \in 0..Len(str) /\ e <= j
    BY <1>1 DEF Listed, CutsFrom, Cuts
  <2> QED BY <1>1, <2>1
<1>4. Place(str, i, i) = 1
  <2>1. {k \in Listed(str, i) : k <= i} = {i}
    BY <1>1, <1>2, <1>3
  <2> QED BY <2>1, FS_Singleton DEF Place
<1>5. ASSUME IsLast(str, i) PROVE Cardinality(Listed(str, i)) = 1
  BY <1>2, <1>5, FS_Singleton
<1>6. ASSUME ~IsLast(str, i) PROVE Cardinality(Listed(str, i)) = Cardinality(Listed(str, e)) + 1
  <2>1. IsFiniteSet(Listed(str, e))
    BY <1>1, <1>6, ListedIsFinite
  <2>2. i \notin Listed(str, e)
    BY <1>1, <1>3
  <2>3. Listed(str, i) = Listed(str, e) \cup {i}
    BY <1>2, <1>6
  <2> QED BY <2>1, <2>2, <2>3, FS_AddElement
<1>7. ASSUME ~IsLast(str, i), NEW j \in Listed(str, e)
      PROVE  /\ Place(str, e, j) \in 1..Cardinality(Listed(str, e))
             /\ Place(str, i, j) = Place(str, e, j) + 1
  <2> DEFINE before == {k \in Listed(str, e) : k <= j}
  <2>1. e \in Cuts(str) /\ before \subseteq Listed(str, e)
    BY <1>1, <1>7
  <2>2. IsFiniteSet(before) /\ Cardinality(before) \in Nat /\ IsFiniteSet(Listed(str, e))
        /\ Cardinality(Listed(str, e)) \in Nat
    BY <2>1, ListedIsFinite
  <2>3. j \in before
    BY <1>3, <1>7
  <2>4. i \notin before
    BY <1>1, <1>3
  <2>5. {k \in Listed(str, i) : k <= j} = before \cup {i}
    <3>1. Listed(str, i) = {i} \cup Listed(str, e) /\ i <= j
      BY <1>1, <1>2, <1>3, <1>7
    <3> QED BY <3>1
  <2> HIDE DEF before
  <2>6. Cardinality(before) <= Cardinality(Listed(str, e))
    BY <2>1, <2>2, FS_Subset
  <2>7. Cardinality(before) # 0
    BY <2>2, <2>3, FS_EmptySet
  <2>8. Cardinality(before \cup {i}) = Cardinality(before) + 1
    BY <2>2, <2>4, FS_AddElement
  <2>9. Place(str, e, j) = Cardinality(before) /\ Place(str, i, j) = Cardinality(before \cup {i})
    BY <2>5 DEF Place, before
  <2> QED BY <2>2, <2>6, <2>7, <2>8, <2>9
<1> QED BY <1>4, <1>5, <1>6, <1>7 DEF e

\* If the list behind a piece is what it should be, so is the list from it on.
LEMMA ListGrows ==
    ASSUME NEW S, NEW str \in Seq(S), NEW from, IsExtract(str, ListDelimiters, from), NEW i \in Cuts(str),
           ~IsLast(str, i) => ListIs(str, PieceEnd(str, i), from[PieceEnd(str, i) + 1])
    PROVE  ListIs(str, i, from[i + 1])
<1> DEFINE e == PieceEnd(str, i)
           field == Field(str, i)
           rest == from[e + 1]
           result == from[i + 1]
<1>1. /\ Len(str) \in Nat /\ i \in 0..Len(str) /\ e \in (i + 1)..(Len(str) + 1)
      /\ IsLast(str, i) => CutsFrom(str, i) = {i}
      /\ ~IsLast(str, i) => e \in Cuts(str) /\ CutsFrom(str, i) = {i} \cup CutsFrom(str, e)
  BY NextCut
<1>2. result = Extract(str, ListDelimiters, from, i + 1)
  <2>1. i + 1 \in Positions(str)
    BY <1>1 DEF Positions
  <2> QED BY <2>1 DEF IsExtract
<1>3. IsLast(str, i) <=> e = Len(str) + 1
  BY DEF IsLast
<1>4. i \in CutsFrom(str, i)
  BY <1>1 DEF CutsFrom
<1>5. CASE \A k \in (i + 1)..(e - 1) : str[k] \in Spaces
  <2>1. Piece(str, i) = <<>> /\ result = IF IsLast(str, i) THEN Rejects ELSE Returns(<<>>)
    BY <1>1, <1>2, <1>3, <1>5, BlankPiece
  <2>2. Listed(str, i) = {}
    BY <2>1, ListedFrom
  <2>3. CASE IsLast(str, i)
    <3>1. Rejected(str, i)
      BY <1>1, <1>4, <2>2, <2>3 DEF Rejected
    <3> QED BY <2>1, <2>3, <3>1 DEF ListIs
  <2>4. CASE ~IsLast(str, i)
    <3>1. e \in CutsFrom(str, i) /\ e # i
      BY <1>1, <2>4 DEF CutsFrom
    <3>2. ~Rejected(str, i)
      BY <1>4, <2>2, <3>1 DEF Rejected
    <3>3. result.ok /\ result.val = <<>>
      BY <2>1, <2>4 DEF Returns
    <3>4. Cardinality(Listed(str, i)) = 0
      BY <2>2, FS_EmptySet
    <3>5. result.val \in Seq(FieldValues(str)) /\ Len(result.val) = 0
      BY <3>3
    <3> HIDE DEF result
    <3> QED BY <2>2, <3>2, <3>3, <3>4, <3>5 DEF ListIs, result
  <2> QED BY <2>3, <2>4
<1>6. CASE ~\A k \in (i + 1)..(e - 1) : str[k] \in Spaces
  <2>1. PICK full \in (i + 1)..(e - 1) : str[full] \notin Spaces
    BY <1>6
  <2>2. /\ Piece(str, i) # <<>>
        /\ result = IF ~field.ok THEN Rejects
                     ELSE IF e = Len(str) + 1 THEN Returns(<<field.val>>)
                     ELSE IF rest.ok THEN Returns(<<field.val>> \o rest.val)
                     ELSE Rejects
    BY <1>1, <1>2, <2>1, FullPiece DEF Field
  <2>3. /\ IsLast(str, i) => Listed(str, i) = {i}
        /\ ~IsLast(str, i) =>
               /\ Listed(str, i) = {i} \cup Listed(str, e)
               /\ CutsFrom(str, i) \ Listed(str, i) = CutsFrom(str, e) \ Listed(str, e)
    BY <2>2, ListedFrom
  <2>4. i \in Listed(str, i)
    BY <2>3
  <2>5. field.val \in FieldValues(str)
    BY DEF FieldValues
  <2>6. Place(str, i, i) = 1
    BY <2>2, Places
  <2> HIDE DEF e, result, rest
  <2>7. CASE ~field.ok
    <3>1. Rejected(str, i)
      BY <2>4, <2>7 DEF Rejected
    <3> QED BY <2>2, <2>7, <3>1 DEF ListIs, result
  <2> HIDE DEF field
  <2>8. CASE field.ok /\ IsLast(str, i)
    <3>1. ~Rejected(str, i)
      <4>1. Listed(str, i) = {i} /\ CutsFrom(str, i) \ Listed(str, i) = {}
        BY <1>1, <2>3, <2>8
      <4> QED BY <2>8, <4>1 DEF Rejected, field
    <3>2. result = Returns(<<field.val>>)
      BY <1>3, <2>2, <2>8
    <3>3. result.ok /\ result.val = <<field.val>>
      BY <3>2 DEF Returns
    <3>4. Cardinality(Listed(str, i)) = 1
      BY <2>2, <2>8, Places
    <3>5. result.val \in Seq(FieldValues(str)) /\ Len(result.val) = 1 /\ result.val[1] = field.val
      BY <2>5, <3>3
    <3>6. \A j \in Listed(str, i) : result.val[Place(str, i, j)] = Field(str, j).val
      BY <2>3, <2>6, <2>8, <3>5 DEF field
    <3> QED BY <3>1, <3>3, <3>4, <3>5, <3>6 DEF ListIs, result
  <2>9. CASE field.ok /\ ~IsLast(str, i)
    <3>1. ListIs(str, e, rest) /\ e \in Cuts(str)
      BY <1>1, <2>9 DEF e, rest
    <3>2. Listed(str, i) = {i} \cup Listed(str, e)
      BY <2>3, <2>9
    <3>3. Rejected(str, i) <=> Rejected(str, e)
      <4>1. (\E j \in Listed(str, i) : ~Field(str, j).ok) <=> (\E j \in Listed(str, e) : ~Field(str, j).ok)
        BY <2>9, <3>2 DEF field
      <4>2. CutsFrom(str, i) \ Listed(str, i) = CutsFrom(str, e) \ Listed(str, e)
        BY <2>3, <2>9
      <4>3. CutsFrom(str, i) = {i} \cup CutsFrom(str, e) /\ i \in Listed(str, i)
        BY <1>1, <2>4, <2>9
      <4>4. (\E j \in CutsFrom(str, i) : IsLast(str, j) /\ CutsFrom(str, i) \ Listed(str, i) = {j})
            <=> (\E j \in CutsFrom(str, e) : IsLast(str, j) /\ CutsFrom(str, e) \ Listed(str, e) = {j})
        BY <4>2, <4>3
      <4> QED BY <4>1, <4>4 DEF Rejected
    <3>4. CASE Rejected(str, e)
      <4>1. ~rest.ok
        BY <3>1, <3>4 DEF ListIs, Rejects
      <4>2. result = Rejects
        BY <1>3, <2>2, <2>9, <4>1
      <4> QED BY <3>3, <3>4, <4>2 DEF ListIs, result
    <3>5. CASE ~Rejected(str, e)
      <4>1. /\ rest.ok /\ rest.val \in Seq(FieldValues(str))
            /\ Len(rest.val) = Cardinality(Listed(str, e))
            /\ \A j \in Listed(str, e) : rest.val[Place(str, e, j)] = Field(str, j).val
        BY <3>1, <3>5 DEF ListIs
      <4> DEFINE tail == rest.val
      <4>2. result = Returns(<<field.val>> \o tail)
        BY <1>3, <2>2, <2>9, <4>1
      <4>3. result.ok /\ result.val = <<field.val>> \o tail
        BY <4>2 DEF Returns
      <4> HIDE DEF tail
      <4>4. tail \in Seq(FieldValues(str)) /\ <<field.val>> \in Seq(FieldValues(str))
        BY <2>5, <4>1 DEF tail
      <4>5. /\ result.val \in Seq(FieldValues(str)) /\ Len(result.val) = Len(tail) + 1
            /\ result.val[1] = field.val
            /\ \A k \in 1..Len(tail) : result.val[k + 1] = tail[k]
        BY <4>3, <4>4
      <4>6. /\ Cardinality(Listed(str, i)) = Cardinality(Listed(str, e)) + 1
            /\ \A j \in Listed(str, e) :
                   /\ Place(str, e, j) \in 1..Cardinality(Listed(str, e))
                   /\ Place(str, i, j) = Place(str, e, j) + 1
        BY <2>2, <2>9, Places DEF e
      <4>7. Len(result.val) = Cardinality(Listed(str, i))
        BY <4>1, <4>5, <4>6 DEF tail
      <4>8. ASSUME NEW j \in Listed(str, i) PROVE result.val[Place(str, i, j)] = Field(str, j).val
        <5>1. CASE j = i
          BY <2>6, <4>5, <5>1 DEF field
        <5>2. CASE j \in Listed(str, e)
          <6> DEFINE p == Place(str, e, j)
          <6>1. p \in 1..Len(tail) /\ Place(str, i, j) = p + 1
            BY <4>1, <4>6, <5>2 DEF tail
          <6>2. tail[p] = Field(str, j).val
            BY <4>1, <5>2 DEF tail
          <6> HIDE DEF p
          <6> QED BY <4>5, <6>1, <6>2
        <5> QED BY <3>2, <5>1, <5>2
      <4> QED BY <3>3, <3>5, <4>3, <4>5, <4>7, <4>8 DEF ListIs, result
    <3> QED BY <3>4, <3>5
  <2> QED BY <2>7, <2>8, <2>9 DEF field
<1> QED BY <1>5, <1>6

\* extractFieldVals returns the pieces, for any text.
LEMMA ExtractsThePieces ==
    ASSUME NEW S, NEW str \in Seq(S), str # <<>>
    PROVE  ListIs(str, 0, extractFieldVals(str, ListDelimiters))
<1>1. PICK from : IsExtract(str, ListDelimiters, from) /\ extractFieldVals(str, ListDelimiters) = from[1]
  BY ExtractIs
<1> DEFINE n == Len(str)
           G == {m \in Nat : \A i \in Cuts(str) : i >= n - m => ListIs(str, i, from[i + 1])}
<1>2. n \in Nat /\ \A i \in Cuts(str) : i \in 0..n
  BY DEF Cuts
<1>3. ASSUME NEW m \in Nat, NEW i \in Cuts(str), i >= n - m,
             \A j \in Cuts(str) : j > i => ListIs(str, j, from[j + 1])
      PROVE  ListIs(str, i, from[i + 1])
  <2>1. ~IsLast(str, i) => PieceEnd(str, i) \in Cuts(str) /\ PieceEnd(str, i) > i
    <3>1. /\ PieceEnd(str, i) \in (i + 1)..(Len(str) + 1)
          /\ ~IsLast(str, i) => PieceEnd(str, i) \in Cuts(str)
      BY NextCut
    <3> QED BY <1>2, <3>1
  <2>2. ~IsLast(str, i) => ListIs(str, PieceEnd(str, i), from[PieceEnd(str, i) + 1])
    BY <1>3, <2>1
  <2> QED BY <1>1, <2>2, ListGrows
<1>4. 0 \in G
  <2> SUFFICES ASSUME NEW i \in Cuts(str), i >= n - 0 PROVE ListIs(str, i, from[i + 1])
    OBVIOUS
  <2>1. \A j \in Cuts(str) : ~(j > i)
    BY <1>2
  <2> QED BY <1>3, <2>1
<1>5. ASSUME NEW m \in Nat, m \in G PROVE m + 1 \in G
  <2> SUFFICES ASSUME NEW i \in Cuts(str), i >= n - (m + 1) PROVE ListIs(str, i, from[i + 1])
    OBVIOUS
  <2>1. \A j \in Cuts(str) : j > i => j >= n - m
    BY <1>2
  <2>2. \A j \in Cuts(str) : j > i => ListIs(str, j, from[j + 1])
    BY <1>5, <2>1
  <2> HIDE DEF G
  <2> QED BY <1>3, <2>2
<1> HIDE DEF G
<1>6. n \in G
  BY <1>2, <1>4, <1>5, SetInduction
<1>7. 0 \in Cuts(str)
  BY DEF Cuts
<1>8. ListIs(str, 0, from[0 + 1])
  <2>1. 0 >= n - n
    BY <1>2
  <2> QED BY <1>6, <1>7, <2>1 DEF G
<1> QED BY <1>1, <1>8

\* extractFieldVals returns what stands between the delimiters of any text, up to
\* the first blank piece; a text that ends in one, but has none before, is rejected.
THEOREM FieldsArePieces == Spec => []FieldsAreThePieces
<1>1. TextInv => FieldsAreThePieces
  <2> SUFFICES ASSUME TextInv PROVE FieldsAreThePieces
    OBVIOUS
  <2>1. text \in Seq(Alphabet)
    BY DEF TextInv
  <2>2. CASE text = <<>>
    BY <2>2 DEF FieldsAreThePieces, extractFieldVals
  <2>3. CASE text # <<>>
    <3>1. ListIs(text, 0, extractFieldVals(text, ListDelimiters))
      BY <2>1, <2>3, ExtractsThePieces
    <3>2. CutsFrom(text, 0) = Cuts(text)
      <4>1. \A i \in Cuts(text) : 0 <= i
        BY <2>1 DEF Cuts
      <4> QED BY <4>1 DEF CutsFrom
    <3> DEFINE listed == {i \in Cuts(text) : \A j \in Cuts(text) : j <= i => Piece(text, j) # <<>>}
    <3>3. Listed(text, 0) = listed
      BY <3>2 DEF Listed
    <3> HIDE DEF listed
    <3> DEFINE fields == extractFieldVals(text, ListDelimiters)
               bad == \/ \E i \in Cuts(text) : /\ PieceEnd(text, i) = Len(text) + 1
                                                /\ Cuts(text) \ listed = {i}
                      \/ \E i \in listed : ~FieldVal(Piece(text, i)).ok
    <3>4. IF bad THEN fields = Rejects
          ELSE /\ fields.ok /\ Len(fields.val) = Cardinality(listed)
               /\ \A i \in listed :
                      fields.val[Cardinality({j \in listed : j <= i})] = FieldVal(Piece(text, i)).val
      BY <3>1, <3>2, <3>3 DEF ListIs, Rejected, Place, Field, IsLast
    <3> HIDE DEF bad, fields
    <3> QED BY <2>3, <3>4 DEF FieldsAreThePieces, listed, bad, fields
  <2> QED BY <2>2, <2>3
<1> QED BY <1>1, TextIsOne, PTL

(***************************************************************************)
(* base64                                                                  *)
(***************************************************************************)

\* The groups of six that the bits of one byte, and of two, make.
LEMMA FirstSix ==
    ASSUME NEW b \in 0..255
    PROVE  32 * ((b \div 128) % 2) + 16 * ((b \div 64) % 2) + 8 * ((b \div 32) % 2) + 4 * ((b \div 16) % 2)
               + 2 * ((b \div 8) % 2) + ((b \div 4) % 2) = b \div 4
OBVIOUS

LEMMA LastSix ==
    ASSUME NEW b \in 0..255
    PROVE  32 * ((b \div 32) % 2) + 16 * ((b \div 16) % 2) + 8 * ((b \div 8) % 2) + 4 * ((b \div 4) % 2)
               + 2 * ((b \div 2) % 2) + (b % 2) = b % 64
BY SMTT(20)

LEMMA TwoAndFourBits ==
    ASSUME NEW x \in 0..255, NEW y \in 0..255
    PROVE  32 * ((x \div 2) % 2) + 16 * (x % 2) + 8 * ((y \div 128) % 2) + 4 * ((y \div 64) % 2)
               + 2 * ((y \div 32) % 2) + ((y \div 16) % 2) = 16 * (x % 4) + y \div 16
BY SMTT(20)

LEMMA FourAndTwoBits ==
    ASSUME NEW x \in 0..255, NEW y \in 0..255
    PROVE  32 * ((x \div 8) % 2) + 16 * ((x \div 4) % 2) + 8 * ((x \div 2) % 2) + 4 * (x % 2)
               + 2 * ((y \div 128) % 2) + ((y \div 64) % 2) = 4 * (x % 16) + y \div 64
BY SMTT(30)

\* ... wherever they are kept.
LastTwo(x, a, b) == a = (x \div 2) % 2 /\ b = x % 2
LastFour(x, a, b, c, d) == a = (x \div 8) % 2 /\ b = (x \div 4) % 2 /\ c = (x \div 2) % 2 /\ d = x % 2
FirstTwo(y, e, f) == e = (y \div 128) % 2 /\ f = (y \div 64) % 2
FirstFour(y, c, d, e, f) ==
    c = (y \div 128) % 2 /\ d = (y \div 64) % 2 /\ e = (y \div 32) % 2 /\ f = (y \div 16) % 2

Group(a, b, c, d, e, f) == 32 * a + 16 * b + 8 * c + 4 * d + 2 * e + f
EndAndStart(x, y) == 16 * (x % 4) + y \div 16
HalfAndStart(x, y) == 4 * (x % 16) + y \div 64

LEMMA TwoAndFour ==
    ASSUME NEW x \in Byte, NEW y \in Byte, NEW a, NEW b, NEW c, NEW d, NEW e, NEW f,
           LastTwo(x, a, b), FirstFour(y, c, d, e, f)
    PROVE  Group(a, b, c, d, e, f) = EndAndStart(x, y)
BY TwoAndFourBits, Zenon DEF LastTwo, FirstFour, Group, EndAndStart, Byte

LEMMA FourAndTwo ==
    ASSUME NEW x \in Byte, NEW y \in Byte, NEW a, NEW b, NEW c, NEW d, NEW e, NEW f,
           LastFour(x, a, b, c, d), FirstTwo(y, e, f)
    PROVE  Group(a, b, c, d, e, f) = HalfAndStart(x, y)
BY FourAndTwoBits, Zenon DEF LastFour, FirstTwo, Group, HalfAndStart, Byte

\* The i-th byte of a text, with zeros behind.
ByteAt(bytes, i) == IF i > Len(bytes) THEN 0 ELSE bytes[i]

\* The bits of the text are those of its bytes.
LEMMA BitIs ==
    ASSUME NEW bytes \in Seq(Byte), NEW j \in Nat, NEW r \in 0..7
    PROVE  /\ ByteAt(bytes, j + 1) \in Byte
           /\ Bit(bytes, 8 * j + r + 1) = (ByteAt(bytes, j + 1) \div 2^(7 - r)) % 2
<1>1. ((8 * j + r + 1) - 1) \div 8 = j /\ ((8 * j + r + 1) - 1) % 8 = r
  OBVIOUS
<1>2. Len(bytes) \in Nat /\ (j + 1 <= Len(bytes) => bytes[j + 1] \in Byte)
  BY ElementOfSeq
<1>3. CASE j + 1 > Len(bytes)
  <2>1. Bit(bytes, 8 * j + r + 1) = 0
    BY <1>1, <1>3 DEF Bit
  <2>2. (0 \div 2^(7 - r)) % 2 = 0
    <3>1. r = 0 \/ r = 1 \/ r = 2 \/ r = 3 \/ r = 4 \/ r = 5 \/ r = 6 \/ r = 7
      OBVIOUS
    <3>2. /\ (0 \div 2^(7 - 0)) % 2 = 0 /\ (0 \div 2^(7 - 1)) % 2 = 0 /\ (0 \div 2^(7 - 2)) % 2 = 0
          /\ (0 \div 2^(7 - 3)) % 2 = 0 /\ (0 \div 2^(7 - 4)) % 2 = 0 /\ (0 \div 2^(7 - 5)) % 2 = 0
          /\ (0 \div 2^(7 - 6)) % 2 = 0 /\ (0 \div 2^(7 - 7)) % 2 = 0
      OBVIOUS
    <3> QED BY <3>1, <3>2, Zenon
  <2>3. 0 \in Byte
    BY DEF Byte
  <2> QED BY <1>3, <2>1, <2>2, <2>3 DEF ByteAt
<1>4. CASE ~(j + 1 > Len(bytes))
  <2>1. Bit(bytes, 8 * j + r + 1) = (bytes[j + 1] \div 2^(7 - r)) % 2
    BY <1>1, <1>4 DEF Bit
  <2> QED BY <1>2, <1>4, <2>1 DEF ByteAt
<1> QED BY <1>3, <1>4

\* The bits of one byte.
LEMMA EightBits ==
    ASSUME NEW bytes \in Seq(Byte), NEW j \in Nat
    PROVE  LET b == ByteAt(bytes, j + 1)
           IN /\ b \in Byte
              /\ Bit(bytes, 8 * j + 1) = (b \div 128) % 2 /\ Bit(bytes, 8 * j + 2) = (b \div 64) % 2
              /\ Bit(bytes, 8 * j + 3) = (b \div 32) % 2 /\ Bit(bytes, 8 * j + 4) = (b \div 16) % 2
              /\ Bit(bytes, 8 * j + 5) = (b \div 8) % 2 /\ Bit(bytes, 8 * j + 6) = (b \div 4) % 2
              /\ Bit(bytes, 8 * j + 7) = (b \div 2) % 2 /\ Bit(bytes, 8 * j + 8) = b % 2
<1> DEFINE b == ByteAt(bytes, j + 1)
<1>1. b \in Byte /\ \A r \in 0..7 : Bit(bytes, 8 * j + r + 1) = (b \div 2^(7 - r)) % 2
  <2>1. 0 \in 0..7
    OBVIOUS
  <2> QED BY <2>1, BitIs
<1> HIDE DEF b
<1>2. /\ Bit(bytes, 8 * j + 0 + 1) = (b \div 2^(7 - 0)) % 2
      /\ Bit(bytes, 8 * j + 1 + 1) = (b \div 2^(7 - 1)) % 2
      /\ Bit(bytes, 8 * j + 2 + 1) = (b \div 2^(7 - 2)) % 2
      /\ Bit(bytes, 8 * j + 3 + 1) = (b \div 2^(7 - 3)) % 2
      /\ Bit(bytes, 8 * j + 4 + 1) = (b \div 2^(7 - 4)) % 2
      /\ Bit(bytes, 8 * j + 5 + 1) = (b \div 2^(7 - 5)) % 2
      /\ Bit(bytes, 8 * j + 6 + 1) = (b \div 2^(7 - 6)) % 2
      /\ Bit(bytes, 8 * j + 7 + 1) = (b \div 2^(7 - 7)) % 2
  <2>1. 0 \in 0..7 /\ 1 \in 0..7 /\ 2 \in 0..7 /\ 3 \in 0..7 /\ 4 \in 0..7 /\ 5 \in 0..7 /\ 6 \in 0..7 /\ 7 \in 0..7
    OBVIOUS
  <2> QED BY <1>1, <2>1, Zenon
<1>3. /\ 8 * j + 0 + 1 = 8 * j + 1 /\ 8 * j + 1 + 1 = 8 * j + 2 /\ 8 * j + 2 + 1 = 8 * j + 3
      /\ 8 * j + 3 + 1 = 8 * j + 4 /\ 8 * j + 4 + 1 = 8 * j + 5 /\ 8 * j + 5 + 1 = 8 * j + 6
      /\ 8 * j + 6 + 1 = 8 * j + 7 /\ 8 * j + 7 + 1 = 8 * j + 8
  OBVIOUS
<1>4. /\ 2^(7 - 0) = 128 /\ 2^(7 - 1) = 64 /\ 2^(7 - 2) = 32 /\ 2^(7 - 3) = 16 /\ 2^(7 - 4) = 8
      /\ 2^(7 - 5) = 4 /\ 2^(7 - 6) = 2 /\ 2^(7 - 7) = 1
  OBVIOUS
<1>5. b \div 1 = b
  BY <1>1 DEF Byte
<1>6. /\ Bit(bytes, 8 * j + 1) = (b \div 128) % 2 /\ Bit(bytes, 8 * j + 2) = (b \div 64) % 2
      /\ Bit(bytes, 8 * j + 3) = (b \div 32) % 2 /\ Bit(bytes, 8 * j + 4) = (b \div 16) % 2
      /\ Bit(bytes, 8 * j + 5) = (b \div 8) % 2 /\ Bit(bytes, 8 * j + 6) = (b \div 4) % 2
      /\ Bit(bytes, 8 * j + 7) = (b \div 2) % 2 /\ Bit(bytes, 8 * j + 8) = b % 2
  BY <1>2, <1>3, <1>4, <1>5, Zenon
<1> QED BY <1>1, <1>6 DEF b

\* Four sextets are three bytes.
Sextets(bytes, g) ==
    LET x == ByteAt(bytes, 3 * g + 1)
        y == ByteAt(bytes, 3 * g + 2)
        z == ByteAt(bytes, 3 * g + 3)
    IN /\ x \in Byte /\ y \in Byte /\ z \in Byte
       /\ Sextet(bytes, 4 * g + 1) = x \div 4
       /\ Sextet(bytes, 4 * g + 2) = 16 * (x % 4) + y \div 16
       /\ Sextet(bytes, 4 * g + 3) = 4 * (y % 16) + z \div 64
       /\ Sextet(bytes, 4 * g + 4) = z % 64

LEMMA SextetsAre ==
    ASSUME NEW bytes \in Seq(Byte), NEW g \in Nat
    PROVE  Sextets(bytes, g)
<1> DEFINE j == 3 * g
           x == ByteAt(bytes, j + 1)
           y == ByteAt(bytes, j + 2)
           z == ByteAt(bytes, j + 3)
           B(k) == Bit(bytes, 24 * g + k)
<1>1. j \in Nat /\ j + 1 \in Nat /\ j + 2 \in Nat /\ (j + 1) + 1 = j + 2 /\ (j + 2) + 1 = j + 3
  OBVIOUS
<1>2. /\ x \in Byte
      /\ B(1) = (x \div 128) % 2 /\ B(2) = (x \div 64) % 2 /\ B(3) = (x \div 32) % 2 /\ B(4) = (x \div 16) % 2
      /\ B(5) = (x \div 8) % 2 /\ B(6) = (x \div 4) % 2 /\ B(7) = (x \div 2) % 2 /\ B(8) = x % 2
  <2>1. 8 * j = 24 * g
    OBVIOUS
  <2> HIDE DEF j
  <2>2. /\ x \in Byte
        /\ Bit(bytes, 8 * j + 1) = (x \div 128) % 2 /\ Bit(bytes, 8 * j + 2) = (x \div 64) % 2
        /\ Bit(bytes, 8 * j + 3) = (x \div 32) % 2 /\ Bit(bytes, 8 * j + 4) = (x \div 16) % 2
        /\ Bit(bytes, 8 * j + 5) = (x \div 8) % 2 /\ Bit(bytes, 8 * j + 6) = (x \div 4) % 2
        /\ Bit(bytes, 8 * j + 7) = (x \div 2) % 2 /\ Bit(bytes, 8 * j + 8) = x % 2
    BY <1>1, EightBits
  <2> HIDE DEF x
  <2> QED BY <2>1, <2>2
<1>3. /\ y \in Byte
      /\ B(9) = (y \div 128) % 2 /\ B(10) = (y \div 64) % 2 /\ B(11) = (y \div 32) % 2 /\ B(12) = (y \div 16) % 2
      /\ B(13) = (y \div 8) % 2 /\ B(14) = (y \div 4) % 2 /\ B(15) = (y \div 2) % 2 /\ B(16) = y % 2
  <2> DEFINE i == j + 1
  <2>1. \A k \in 1..8 : 8 * i + k = 24 * g + (8 + k)
    OBVIOUS
  <2>2. i \in Nat /\ i + 1 = j + 2
    BY <1>1
  <2> HIDE DEF i, j
  <2>3. /\ y \in Byte
        /\ Bit(bytes, 8 * i + 1) = (y \div 128) % 2 /\ Bit(bytes, 8 * i + 2) = (y \div 64) % 2
        /\ Bit(bytes, 8 * i + 3) = (y \div 32) % 2 /\ Bit(bytes, 8 * i + 4) = (y \div 16) % 2
        /\ Bit(bytes, 8 * i + 5) = (y \div 8) % 2 /\ Bit(bytes, 8 * i + 6) = (y \div 4) % 2
        /\ Bit(bytes, 8 * i + 7) = (y \div 2) % 2 /\ Bit(bytes, 8 * i + 8) = y % 2
    BY <2>2, EightBits
  <2> HIDE DEF y
  <2> QED BY <2>1, <2>3
<1>4. /\ z \in Byte
      /\ B(17) = (z \div 128) % 2 /\ B(18) = (z \div 64) % 2 /\ B(19) = (z \div 32) % 2 /\ B(20) = (z \div 16) % 2
      /\ B(21) = (z \div 8) % 2 /\ B(22) = (z \div 4) % 2 /\ B(23) = (z \div 2) % 2 /\ B(24) = z % 2
  <2> DEFINE i == j + 2
  <2>1. \A k \in 1..8 : 8 * i + k = 24 * g + (16 + k)
    OBVIOUS
  <2>2. i \in Nat /\ i + 1 = j + 3
    BY <1>1
  <2> HIDE DEF i, j
  <2>3. /\ z \in Byte
        /\ Bit(bytes, 8 * i + 1) = (z \div 128) % 2 /\ Bit(bytes, 8 * i + 2) = (z \div 64) % 2
        /\ Bit(bytes, 8 * i + 3) = (z \div 32) % 2 /\ Bit(bytes, 8 * i + 4) = (z \div 16) % 2
        /\ Bit(bytes, 8 * i + 5) = (z \div 8) % 2 /\ Bit(bytes, 8 * i + 6) = (z \div 4) % 2
        /\ Bit(bytes, 8 * i + 7) = (z \div 2) % 2 /\ Bit(bytes, 8 * i + 8) = z % 2
    BY <2>2, EightBits
  <2> HIDE DEF z
  <2> QED BY <2>1, <2>3
<1> DEFINE G(k) == 32 * B(k) + 16 * B(k + 1) + 8 * B(k + 2) + 4 * B(k + 3) + 2 * B(k + 4) + B(k + 5)
<1>5. /\ Sextet(bytes, 4 * g + 1) = G(1) /\ Sextet(bytes, 4 * g + 2) = G(7)
      /\ Sextet(bytes, 4 * g + 3) = G(13) /\ Sextet(bytes, 4 * g + 4) = G(19)
  <2>1. \A i \in 0..3 : \A k \in 0..5 : 6 * (4 * g + (i + 1)) - k = 24 * g + (6 * i + 6 - k)
    OBVIOUS
  <2> QED BY <2>1 DEF Sextet
<1> HIDE DEF x, y, z, B
<1>7. G(1) = x \div 4 /\ G(7) = 16 * (x % 4) + y \div 16 /\ G(13) = 4 * (y % 16) + z \div 64 /\ G(19) = z % 64
  <2>1. /\ G(1) = 32 * B(1) + 16 * B(2) + 8 * B(3) + 4 * B(4) + 2 * B(5) + B(6)
        /\ G(7) = 32 * B(7) + 16 * B(8) + 8 * B(9) + 4 * B(10) + 2 * B(11) + B(12)
        /\ G(13) = 32 * B(13) + 16 * B(14) + 8 * B(15) + 4 * B(16) + 2 * B(17) + B(18)
        /\ G(19) = 32 * B(19) + 16 * B(20) + 8 * B(21) + 4 * B(22) + 2 * B(23) + B(24)
    OBVIOUS
  <2>2. x \in 0..255 /\ y \in 0..255 /\ z \in 0..255
    BY <1>2, <1>3, <1>4 DEF Byte
  <2> HIDE DEF G
  <2>3. G(1) = x \div 4
    BY <1>2, <2>1, <2>2, FirstSix, Zenon
  <2>4. G(19) = z % 64
    BY <1>4, <2>1, <2>2, LastSix, Zenon
  <2>5. G(7) = 16 * (x % 4) + y \div 16
    <3>1. Group(B(7), B(8), B(9), B(10), B(11), B(12)) = EndAndStart(x, y)
      <4>1. LastTwo(x, B(7), B(8))
        BY <1>2, Zenon DEF LastTwo
      <4>2. FirstFour(y, B(9), B(10), B(11), B(12))
        BY <1>3, Zenon DEF FirstFour
      <4> QED BY <1>2, <1>3, <4>1, <4>2, TwoAndFour
    <3> QED BY <2>1, <3>1, Zenon DEF Group, EndAndStart
  <2>6. G(13) = 4 * (y % 16) + z \div 64
    <3>1. Group(B(13), B(14), B(15), B(16), B(17), B(18)) = HalfAndStart(y, z)
      <4>1. LastFour(y, B(13), B(14), B(15), B(16))
        BY <1>3, Zenon DEF LastFour
      <4>2. FirstTwo(z, B(17), B(18))
        BY <1>4, Zenon DEF FirstTwo
      <4> QED BY <1>3, <1>4, <4>1, <4>2, FourAndTwo
    <3> QED BY <2>1, <3>1, Zenon DEF Group, HalfAndStart
  <2> QED BY <2>3, <2>4, <2>5, <2>6
<1> QED BY <1>2, <1>3, <1>4, <1>5, <1>7 DEF Sextets, x, y, z, j

\* A group of six bits is a number below 64, ...
SixBits == 0..63

LEMMA OneByteSix == ASSUME NEW x \in Byte PROVE x \div 4 \in SixBits /\ x % 64 \in SixBits
<1>1. \A u \in 0..255 : u \div 4 \in 0..63 /\ u % 64 \in 0..63
  OBVIOUS
<1> QED BY <1>1 DEF Byte, SixBits

LEMMA TwoBytesSix ==
    ASSUME NEW x \in Byte, NEW y \in Byte
    PROVE  16 * (x % 4) + y \div 16 \in SixBits /\ 4 * (x % 16) + y \div 64 \in SixBits
<1>1. \A u \in 0..255, v \in 0..255 : 16 * (u % 4) + v \div 16 \in 0..63 /\ 4 * (u % 16) + v \div 64 \in 0..63
  OBVIOUS
<1> QED BY <1>1 DEF Byte, SixBits

LEMMA SextetType ==
    ASSUME NEW bytes \in Seq(Byte)
    PROVE  \A k \in Nat : k >= 1 => Sextet(bytes, k) \in SixBits
<1> SUFFICES ASSUME NEW k \in Nat, k >= 1 PROVE Sextet(bytes, k) \in SixBits
  OBVIOUS
<1> DEFINE g == (k - 1) \div 4
<1>1. g \in Nat /\ (k = 4 * g + 1 \/ k = 4 * g + 2 \/ k = 4 * g + 3 \/ k = 4 * g + 4)
  OBVIOUS
<1> HIDE DEF g
<1>2. Sextets(bytes, g)
  BY <1>1, SextetsAre
<1> DEFINE x == ByteAt(bytes, 3 * g + 1)   y == ByteAt(bytes, 3 * g + 2)   z == ByteAt(bytes, 3 * g + 3)
<1>3. x \in Byte /\ y \in Byte /\ z \in Byte
  BY <1>2 DEF Sextets
<1>4. x \div 4 \in SixBits /\ z % 64 \in SixBits
  BY <1>3, OneByteSix
<1>5. 16 * (x % 4) + y \div 16 \in SixBits /\ 4 * (y % 16) + z \div 64 \in SixBits
  BY <1>3, TwoBytesSix
<1>6. /\ Sextet(bytes, 4 * g + 1) \in SixBits /\ Sextet(bytes, 4 * g + 2) \in SixBits
      /\ Sextet(bytes, 4 * g + 3) \in SixBits /\ Sextet(bytes, 4 * g + 4) \in SixBits
  BY <1>2, <1>4, <1>5 DEF Sextets
<1> QED BY <1>1, <1>6, Zenon

\* ... for which there is a character.
LEMMA CharType == ASSUME NEW v \in SixBits PROVE base64_chars(v) \in Byte
BY DEF base64_chars, Byte, SixBits

\* The first characters of the text's encoding.
Pieces(bytes, c) == [k \in 1..c |-> base64_chars(Sextet(bytes, k))]

LEMMA PiecesType ==
    ASSUME NEW bytes \in Seq(Byte), NEW c \in Nat
    PROVE  /\ Pieces(bytes, c) \in Seq(Byte) /\ Len(Pieces(bytes, c)) = c
           /\ \A k \in 1..c : Pieces(bytes, c)[k] = base64_chars(Sextet(bytes, k))
<1>1. \A k \in 1..c : k \in Nat /\ k >= 1
  OBVIOUS
<1>2. \A k \in 1..c : base64_chars(Sextet(bytes, k)) \in Byte
  BY <1>1, SextetType, CharType, Zenon
<1> QED BY <1>2 DEF Pieces

\* One character more, ...
LEMMA OnePiece ==
    ASSUME NEW bytes \in Seq(Byte), NEW c \in Nat
    PROVE  Pieces(bytes, c) \o <<base64_chars(Sextet(bytes, c + 1))>> = Pieces(bytes, c + 1)
<1> DEFINE p == Pieces(bytes, c)   q == Pieces(bytes, c + 1)   x == base64_chars(Sextet(bytes, c + 1))
<1>1. p \in Seq(Byte) /\ Len(p) = c /\ \A k \in 1..c : p[k] = base64_chars(Sextet(bytes, k))
  BY PiecesType
<1>2. q \in Seq(Byte) /\ Len(q) = c + 1 /\ \A k \in 1..(c + 1) : q[k] = base64_chars(Sextet(bytes, k))
  BY PiecesType
<1>3. x \in Byte
  <2>1. c + 1 \in Nat /\ c + 1 >= 1
    OBVIOUS
  <2> QED BY <2>1, SextetType, CharType, Zenon
<1>4. \A k \in 1..c : p[k] = q[k]
  BY <1>1, <1>2
<1>5. q[c + 1] = x
  BY <1>2
<1> HIDE DEF p, q, x
<1>6. p \o <<x>> \in Seq(Byte) /\ Len(p \o <<x>>) = c + 1
  BY <1>1, <1>3
<1>7. \A k \in 1..(c + 1) : (p \o <<x>>)[k] = q[k]
  BY <1>1, <1>3, <1>4, <1>5
<1>8. p \o <<x>> = q
  BY <1>2, <1>6, <1>7
<1> QED BY <1>8 DEF p, q, x

\* The value after one byte more: its groups of six bits come from that byte and
\* the one before.
ByteAdded(x, b, v) ==
    /\ v \in Nat /\ v % 256 = b
    /\ (v \div 4) % 64 = b \div 4
    /\ (v \div 16) % 64 = 16 * (x % 4) + b \div 16
    /\ (v \div 64) % 64 = 4 * (x % 16) + b \div 64
    /\ v % 64 = b % 64

LEMMA NumberBehind ==
    ASSUME NEW x \in 0..255, NEW b \in 0..255, NEW v \in Nat, v = 256 * x + b
    PROVE  ByteAdded(x, b, v)
<1>1. v \in Nat /\ v % 256 = b
  OBVIOUS
<1>2. v % 64 = b % 64
  OBVIOUS
<1>3. (v \div 4) % 64 = b \div 4
  OBVIOUS
<1>4. (v \div 16) % 64 = 16 * (x % 4) + b \div 16
  OBVIOUS
<1>5. (v \div 64) % 64 = 4 * (x % 16) + b \div 64
  OBVIOUS
<1> QED BY <1>1, <1>2, <1>3, <1>4, <1>5 DEF ByteAdded

LEMMA ByteBehind ==
    ASSUME NEW x \in Byte, NEW b \in Byte, NEW v, v \in Nat, v = 256 * x + b
    PROVE  ByteAdded(x, b, v)
BY NumberBehind, Zenon DEF Byte

\* val after the next byte, as 16 bits.
Shifted(val, b) == (256 * val + b) % 65536

LEMMA AddByte ==
    ASSUME NEW val \in Nat, NEW b \in Byte
    PROVE  ByteAdded(val % 256, b, Shifted(val, b))
<1>1. Shifted(val, b) \in Nat /\ Shifted(val, b) = 256 * (val % 256) + b /\ val % 256 \in Byte
  BY DEF Byte, Shifted
<1> QED BY <1>1, ByteBehind, Zenon

\* What the encoder has written after i bytes, and what it keeps.
EncoderAt(bytes, i, bits, c, s) ==
    /\ s.val \in Nat /\ (i > 0 => s.val % 256 = bytes[i])
    /\ s.bits = bits /\ s.out = Pieces(bytes, c)

Encoded(bytes, i, s) == EncoderAt(bytes, i, (8 * i) % 6, (8 * i) \div 6, s)

LEMMA EncoderPlaces ==
    ASSUME NEW bytes, NEW g \in Nat, NEW s
    PROVE  /\ Encoded(bytes, 3 * g, s) <=> EncoderAt(bytes, 3 * g, 0, 4 * g, s)
           /\ Encoded(bytes, 3 * g + 1, s) <=> EncoderAt(bytes, 3 * g + 1, 2, 4 * g + 1, s)
           /\ Encoded(bytes, 3 * g + 2, s) <=> EncoderAt(bytes, 3 * g + 2, 4, 4 * g + 2, s)
           /\ Encoded(bytes, 3 * g + 3, s) <=> EncoderAt(bytes, 3 * g + 3, 0, 4 * g + 4, s)
<1>1. /\ (8 * (3 * g)) % 6 = 0 /\ (8 * (3 * g)) \div 6 = 4 * g
      /\ (8 * (3 * g + 1)) % 6 = 2 /\ (8 * (3 * g + 1)) \div 6 = 4 * g + 1
      /\ (8 * (3 * g + 2)) % 6 = 4 /\ (8 * (3 * g + 2)) \div 6 = 4 * g + 2
      /\ (8 * (3 * g + 3)) % 6 = 0 /\ (8 * (3 * g + 3)) \div 6 = 4 * g + 4
  OBVIOUS
<1> QED BY <1>1, Zenon DEF Encoded

\* The characters that EncodeByte writes, the bits that it has being t.
Written(v, t) == [k \in 1..(t \div 6) |-> base64_chars((v \div 2^(t - 6 * k)) % 64)]

LEMMA WrittenIs ==
    ASSUME NEW v \in Nat
    PROVE  /\ Written(v, 8) = <<base64_chars((v \div 4) % 64)>>
           /\ Written(v, 10) = <<base64_chars((v \div 16) % 64)>>
           /\ Written(v, 12) = <<base64_chars((v \div 64) % 64)>> \o <<base64_chars(v % 64)>>
<1> DEFINE p(t, k) == base64_chars((v \div 2^(t - 6 * k)) % 64)
<1>1. /\ p(8, 1) = base64_chars((v \div 4) % 64) /\ p(10, 1) = base64_chars((v \div 16) % 64)
      /\ p(12, 1) = base64_chars((v \div 64) % 64) /\ p(12, 2) = base64_chars(v % 64)
  <2>1. 8 - 6 * 1 = 2 /\ 10 - 6 * 1 = 4 /\ 12 - 6 * 1 = 6 /\ 12 - 6 * 2 = 0
    OBVIOUS
  <2>2. 2^2 = 4 /\ 2^4 = 16 /\ 2^6 = 64 /\ 2^0 = 1
    OBVIOUS
  <2>3. v \div 1 = v
    OBVIOUS
  <2> QED BY <2>1, <2>2, <2>3, Zenon
<1>2. /\ Written(v, 8) = [k \in 1..(8 \div 6) |-> p(8, k)]
      /\ Written(v, 10) = [k \in 1..(10 \div 6) |-> p(10, k)]
      /\ Written(v, 12) = [k \in 1..(12 \div 6) |-> p(12, k)]
  BY Zenon DEF Written
<1>3. 8 \div 6 = 1 /\ 10 \div 6 = 1 /\ 12 \div 6 = 2
  OBVIOUS
<1> HIDE DEF p
<1>4. [k \in 1..1 |-> p(8, k)] = <<p(8, 1)>> /\ [k \in 1..1 |-> p(10, k)] = <<p(10, 1)>>
  OBVIOUS
<1>5. [k \in 1..2 |-> p(12, k)] = <<p(12, 1)>> \o <<p(12, 2)>>
  OBVIOUS
<1> QED BY <1>1, <1>2, <1>3, <1>4, <1>5

\* What one byte adds.
Adds(s, bits, chars, v, u) == u.val = v /\ u.bits = bits /\ u.out = s.out \o chars

LEMMA EncodeByteIs ==
    ASSUME NEW s, NEW b, s.val \in Nat, b \in Byte
    PROVE  LET v == Shifted(s.val, b)
               u == EncodeByte(s, b)
           IN /\ s.bits = 0 => Adds(s, 2, <<base64_chars((v \div 4) % 64)>>, v, u)
              /\ s.bits = 2 => Adds(s, 4, <<base64_chars((v \div 16) % 64)>>, v, u)
              /\ s.bits = 4 => Adds(s, 0, <<base64_chars((v \div 64) % 64)>> \o <<base64_chars(v % 64)>>, v, u)
<1> DEFINE v == Shifted(s.val, b)   u == EncodeByte(s, b)
<1>1. u = [val |-> v, bits |-> (s.bits + 8) % 6, out |-> s.out \o Written(v, s.bits + 8)]
  BY DEF EncodeByte, Shifted, Written
<1>2. v \in Nat
  BY AddByte DEF ByteAdded
<1> HIDE DEF v, u
<1>3. u.val = v /\ u.bits = (s.bits + 8) % 6 /\ u.out = s.out \o Written(v, s.bits + 8)
  BY <1>1
<1>4. ASSUME s.bits = 0 PROVE Adds(s, 2, <<base64_chars((v \div 4) % 64)>>, v, u)
  <2>1. s.bits + 8 = 8 /\ (s.bits + 8) % 6 = 2
    BY <1>4
  <2> QED BY <1>2, <1>3, <2>1, WrittenIs, Zenon DEF Adds
<1>5. ASSUME s.bits = 2 PROVE Adds(s, 4, <<base64_chars((v \div 16) % 64)>>, v, u)
  <2>1. s.bits + 8 = 10 /\ (s.bits + 8) % 6 = 4
    BY <1>5
  <2> QED BY <1>2, <1>3, <2>1, WrittenIs, Zenon DEF Adds
<1>6. ASSUME s.bits = 4 PROVE Adds(s, 0, <<base64_chars((v \div 64) % 64)>> \o <<base64_chars(v % 64)>>, v, u)
  <2>1. s.bits + 8 = 12 /\ (s.bits + 8) % 6 = 0
    BY <1>6
  <2> QED BY <1>2, <1>3, <2>1, WrittenIs, Zenon DEF Adds
<1> QED BY <1>4, <1>5, <1>6, Zenon DEF v, u

LEMMA EncodeFirst ==
    ASSUME NEW bytes \in Seq(Byte), NEW g \in Nat, NEW s, 3 * g + 1 <= Len(bytes),
           Encoded(bytes, 3 * g, s)
    PROVE  Encoded(bytes, 3 * g + 1, EncodeByte(s, bytes[3 * g + 1]))
<1> DEFINE b == bytes[3 * g + 1]   u == EncodeByte(s, b)   v == Shifted(s.val, b)
<1>1. EncoderAt(bytes, 3 * g, 0, 4 * g, s)
  BY EncoderPlaces
<1>2. b \in Byte /\ ByteAt(bytes, 3 * g + 1) = b
  BY DEF ByteAt
<1>3. s.val \in Nat /\ s.bits = 0 /\ s.out = Pieces(bytes, 4 * g)
  BY <1>1 DEF EncoderAt
<1>4. Adds(s, 2, <<base64_chars((v \div 4) % 64)>>, v, u)
  BY <1>2, <1>3, EncodeByteIs
<1>5. v \in Nat /\ v % 256 = b /\ (v \div 4) % 64 = b \div 4
  <2>1. ByteAdded(s.val % 256, b, v)
    BY <1>2, <1>3, AddByte
  <2> HIDE DEF v
  <2> QED BY <2>1 DEF ByteAdded
<1>6. Sextet(bytes, 4 * g + 1) = b \div 4
  BY <1>2, SextetsAre DEF Sextets
<1>7. 4 * g \in Nat
  OBVIOUS
<1> HIDE DEF u, v
<1>8. u.val = v /\ u.bits = 2 /\ u.out = Pieces(bytes, 4 * g + 1)
  <2>1. (v \div 4) % 64 = Sextet(bytes, 4 * g + 1)
    BY <1>5, <1>6, Zenon
  <2> QED BY <1>3, <1>4, <1>7, <2>1, OnePiece, Zenon DEF Adds
<1>9. EncoderAt(bytes, 3 * g + 1, 2, 4 * g + 1, u)
  BY <1>5, <1>8, Zenon DEF EncoderAt
<1> QED BY <1>9, EncoderPlaces DEF u

LEMMA EncodeSecond ==
    ASSUME NEW bytes \in Seq(Byte), NEW g \in Nat, NEW s, 3 * g + 2 <= Len(bytes),
           Encoded(bytes, 3 * g + 1, s)
    PROVE  Encoded(bytes, 3 * g + 2, EncodeByte(s, bytes[3 * g + 2]))
<1> DEFINE a == bytes[3 * g + 1]   b == bytes[3 * g + 2]   u == EncodeByte(s, b)   v == Shifted(s.val, b)
<1>1. EncoderAt(bytes, 3 * g + 1, 2, 4 * g + 1, s)
  BY EncoderPlaces
<1>2. /\ a \in Byte /\ ByteAt(bytes, 3 * g + 1) = a
      /\ b \in Byte /\ ByteAt(bytes, 3 * g + 2) = b
  BY DEF ByteAt
<1>3. s.val \in Nat /\ s.val % 256 = a /\ s.bits = 2 /\ s.out = Pieces(bytes, 4 * g + 1)
  <2>1. 3 * g + 1 > 0
    OBVIOUS
  <2> QED BY <1>1, <2>1, Zenon DEF EncoderAt
<1>4. Adds(s, 4, <<base64_chars((v \div 16) % 64)>>, v, u)
  BY <1>2, <1>3, EncodeByteIs
<1>5. v \in Nat /\ v % 256 = b /\ (v \div 16) % 64 = 16 * (a % 4) + b \div 16
  <2>1. ByteAdded(a, b, v)
    BY <1>2, <1>3, AddByte
  <2> HIDE DEF v
  <2> QED BY <2>1, Zenon DEF ByteAdded
<1>6. Sextet(bytes, 4 * g + 2) = 16 * (a % 4) + b \div 16
  BY <1>2, SextetsAre, Zenon DEF Sextets
<1>7. 4 * g + 1 \in Nat /\ (4 * g + 1) + 1 = 4 * g + 2
  OBVIOUS
<1> HIDE DEF u, v
<1>8. u.val = v /\ u.bits = 4 /\ u.out = Pieces(bytes, 4 * g + 2)
  <2>1. (v \div 16) % 64 = Sextet(bytes, 4 * g + 2)
    BY <1>5, <1>6, Zenon
  <2> QED BY <1>3, <1>4, <1>7, <2>1, OnePiece, Zenon DEF Adds
<1>9. EncoderAt(bytes, 3 * g + 2, 4, 4 * g + 2, u)
  BY <1>5, <1>8, Zenon DEF EncoderAt
<1> QED BY <1>9, EncoderPlaces DEF u

LEMMA EncodeThird ==
    ASSUME NEW bytes \in Seq(Byte), NEW g \in Nat, NEW s, 3 * g + 3 <= Len(bytes),
           Encoded(bytes, 3 * g + 2, s)
    PROVE  Encoded(bytes, 3 * g + 3, EncodeByte(s, bytes[3 * g + 3]))
<1> DEFINE a == bytes[3 * g + 2]   b == bytes[3 * g + 3]   u == EncodeByte(s, b)   v == Shifted(s.val, b)
<1>1. EncoderAt(bytes, 3 * g + 2, 4, 4 * g + 2, s)
  BY EncoderPlaces
<1>2. /\ a \in Byte /\ ByteAt(bytes, 3 * g + 2) = a
      /\ b \in Byte /\ ByteAt(bytes, 3 * g + 3) = b
  BY DEF ByteAt
<1>3. s.val \in Nat /\ s.val % 256 = a /\ s.bits = 4 /\ s.out = Pieces(bytes, 4 * g + 2)
  <2>1. 3 * g + 2 > 0
    OBVIOUS
  <2> QED BY <1>1, <2>1, Zenon DEF EncoderAt
<1> DEFINE p == base64_chars((v \div 64) % 64)   q == base64_chars(v % 64)
<1>4. Adds(s, 0, <<p>> \o <<q>>, v, u)
  BY <1>2, <1>3, EncodeByteIs
<1>5. v \in Nat /\ v % 256 = b /\ (v \div 64) % 64 = 4 * (a % 16) + b \div 64 /\ v % 64 = b % 64
  <2>1. ByteAdded(a, b, v)
    BY <1>2, <1>3, AddByte
  <2> HIDE DEF v
  <2> QED BY <2>1, Zenon DEF ByteAdded
<1>6. Sextet(bytes, 4 * g + 3) = 4 * (a % 16) + b \div 64 /\ Sextet(bytes, 4 * g + 4) = b % 64
  BY <1>2, SextetsAre, Zenon DEF Sextets
<1>7. 4 * g + 2 \in Nat /\ (4 * g + 2) + 1 = 4 * g + 3 /\ 4 * g + 3 \in Nat /\ (4 * g + 3) + 1 = 4 * g + 4
  OBVIOUS
<1>8. /\ p = base64_chars(Sextet(bytes, 4 * g + 3)) /\ q = base64_chars(Sextet(bytes, 4 * g + 4))
  BY <1>5, <1>6, Zenon
<1>9. p \in Byte /\ q \in Byte
  <2>1. 4 * g + 3 >= 1 /\ 4 * g + 4 >= 1 /\ 4 * g + 4 \in Nat
    OBVIOUS
  <2> QED BY <1>7, <1>8, <2>1, SextetType, CharType, Zenon
<1> HIDE DEF u, v, p, q
<1>10. u.val = v /\ u.bits = 0 /\ u.out = s.out \o (<<p>> \o <<q>>)
  BY <1>4 DEF Adds
<1>11. s.out \o <<p>> = Pieces(bytes, 4 * g + 3) /\ Pieces(bytes, 4 * g + 3) \o <<q>> = Pieces(bytes, 4 * g + 4)
  BY <1>3, <1>7, <1>8, OnePiece, Zenon
<1>12. s.out \in Seq(Byte)
  BY <1>3, <1>7, PiecesType
<1>13. s.out \o (<<p>> \o <<q>>) = (s.out \o <<p>>) \o <<q>>
  BY <1>9, <1>12
<1>14. EncoderAt(bytes, 3 * g + 3, 0, 4 * g + 4, u)
  BY <1>5, <1>10, <1>11, <1>13, Zenon DEF EncoderAt
<1> QED BY <1>14, EncoderPlaces DEF u

\* The states of the encoder, by the number of bytes it has read.
IsEncoder(bytes, f) ==
    f = [i \in 0..Len(bytes) |-> IF i = 0 THEN Start ELSE EncodeByte(f[i - 1], bytes[i])]

LEMMA EncoderExists ==
    ASSUME NEW S, NEW bytes \in Seq(S)
    PROVE  \E f : IsEncoder(bytes, f)
<1> DEFINE Known(m, f) == /\ f = [i \in 0..m |-> f[i]] /\ f[0] = Start
                          /\ \A i \in 1..m : f[i] = EncodeByte(f[i - 1], bytes[i])
           n == Len(bytes)
           G == {m \in Nat : \E f : Known(m, f)}
<1>1. 0 \in G
  <2> DEFINE f == [i \in 0..0 |-> Start]
  <2>1. f = [i \in 0..0 |-> f[i]] /\ f[0] = Start
    OBVIOUS
  <2> HIDE DEF f
  <2>2. Known(0, f)
    BY <2>1
  <2> QED BY <2>2
<1>2. ASSUME NEW m \in Nat, m \in G PROVE m + 1 \in G
  <2> HIDE DEF Known
  <2>1. PICK f : Known(m, f)
    BY <1>2
  <2> DEFINE new == EncodeByte(f[m], bytes[m + 1])
             next == [i \in 0..(m + 1) |-> IF i = m + 1 THEN new ELSE f[i]]
  <2>2. next[m + 1] = new /\ \A i \in 0..m : next[i] = f[i]
    OBVIOUS
  <2>3. next = [i \in 0..(m + 1) |-> next[i]]
    OBVIOUS
  <2> HIDE DEF next
  <2>4. next[0] = Start
    BY <2>1, <2>2 DEF Known
  <2>5. ASSUME NEW i \in 1..(m + 1) PROVE next[i] = EncodeByte(next[i - 1], bytes[i])
    <3>1. CASE i = m + 1
      <4>1. m \in 0..m /\ i - 1 = m
        BY <3>1
      <4> QED BY <2>2, <3>1, <4>1
    <3>2. CASE i # m + 1
      <4>1. i \in 1..m /\ i \in 0..m /\ i - 1 \in 0..m
        BY <3>2
      <4> QED BY <2>1, <2>2, <4>1 DEF Known
    <3> QED BY <3>1, <3>2
  <2>6. Known(m + 1, next)
    BY <2>3, <2>4, <2>5 DEF Known
  <2> QED BY <2>6
<1> HIDE DEF G, Known
<1>3. n \in Nat /\ n \in G
  BY <1>1, <1>2, SetInduction
<1>4. PICK f : Known(n, f)
  BY <1>3 DEF G
<1>5. ASSUME NEW i \in 0..n
      PROVE  f[i] = IF i = 0 THEN Start ELSE EncodeByte(f[i - 1], bytes[i])
  <2>1. i # 0 => i \in 1..n
    BY <1>3
  <2> QED BY <1>4, <2>1 DEF Known
<1>6. f = [i \in 0..n |-> f[i]]
  BY <1>4 DEF Known
<1>7. f = [i \in 0..n |-> IF i = 0 THEN Start ELSE EncodeByte(f[i - 1], bytes[i])]
  BY <1>5, <1>6, Zenon
<1> QED BY <1>7 DEF IsEncoder

\* It keeps what Encoded says.
LEMMA EncoderKeeps ==
    ASSUME NEW bytes \in Seq(Byte), NEW f, IsEncoder(bytes, f)
    PROVE  Encoded(bytes, Len(bytes), f[Len(bytes)])
<1> DEFINE n == Len(bytes)
           G == {i \in Nat : i <= n => Encoded(bytes, i, f[i])}
<1>1. n \in Nat
  OBVIOUS
<1>2. f[0] = Start /\ \A i \in Nat : i + 1 <= n => f[i + 1] = EncodeByte(f[i], bytes[i + 1])
  <2>1. f[0] = Start
    BY <1>1 DEF IsEncoder
  <2>2. ASSUME NEW i \in Nat, i + 1 <= n PROVE f[i + 1] = EncodeByte(f[i], bytes[i + 1])
    <3>1. i + 1 \in 0..n /\ i + 1 # 0 /\ (i + 1) - 1 = i
      BY <1>1, <2>2
    <3> QED BY <3>1 DEF IsEncoder
  <2> QED BY <2>1, <2>2
<1>3. 0 \in G
  <2>1. Start.val = 0 /\ Start.bits = 0 /\ Start.out = <<>>
    BY DEF Start
  <2>2. Pieces(bytes, 0) = <<>>
    BY DEF Pieces
  <2>3. EncoderAt(bytes, 0, 0, 0, Start)
    BY <2>1, <2>2 DEF EncoderAt
  <2>4. (8 * 0) % 6 = 0 /\ (8 * 0) \div 6 = 0
    OBVIOUS
  <2> QED BY <1>2, <2>3, <2>4 DEF Encoded
<1>4. ASSUME NEW i \in Nat, i \in G PROVE i + 1 \in G
  <2> SUFFICES ASSUME i + 1 <= n PROVE Encoded(bytes, i + 1, f[i + 1])
    OBVIOUS
  <2>1. Encoded(bytes, i, f[i]) /\ f[i + 1] = EncodeByte(f[i], bytes[i + 1])
    BY <1>1, <1>2, <1>4
  <2> DEFINE g == i \div 3
  <2>2. g \in Nat /\ (i = 3 * g \/ i = 3 * g + 1 \/ i = 3 * g + 2)
    OBVIOUS
  <2> HIDE DEF g, G
  <2>3. CASE i = 3 * g
    <3>1. i + 1 = 3 * g + 1
      BY <2>3
    <3> QED BY <2>1, <2>2, <2>3, <3>1, EncodeFirst
  <2>4. CASE i = 3 * g + 1
    <3>1. i + 1 = 3 * g + 2
      BY <2>2, <2>4
    <3> QED BY <2>1, <2>2, <2>4, <3>1, EncodeSecond
  <2>5. CASE i = 3 * g + 2
    <3>1. i + 1 = 3 * g + 3
      BY <2>2, <2>5
    <3> QED BY <2>1, <2>2, <2>5, <3>1, EncodeThird
  <2> QED BY <2>2, <2>3, <2>4, <2>5
<1> HIDE DEF G
<1>5. n \in G
  BY <1>1, <1>3, <1>4, SetInduction
<1> QED BY <1>1, <1>5 DEF G

\* The character of the bits that are left completes the text's groups.
LEMMA LeftBits ==
    ASSUME NEW val \in Nat, NEW x \in 0..255, val % 256 = x
    PROVE  (val * 16) % 64 = 16 * (x % 4) + 0 \div 16 /\ (val * 4) % 64 = 4 * (x % 16) + 0 \div 64
OBVIOUS

Rest(x, val) == (val * 16) % 64 = 16 * (x % 4) + 0 \div 16 /\ (val * 4) % 64 = 4 * (x % 16) + 0 \div 64

LEMMA ByteLeft ==
    ASSUME NEW val \in Nat, NEW x \in Byte, val % 256 = x
    PROVE  Rest(x, val)
BY LeftBits DEF Byte, Rest

LEMMA LastPieceIs ==
    ASSUME NEW s
    PROVE  /\ s.bits = 0 => LastPiece(s) = <<>>
           /\ s.bits = 2 => LastPiece(s) = <<base64_chars((s.val * 16) % 64)>>
           /\ s.bits = 4 => LastPiece(s) = <<base64_chars((s.val * 4) % 64)>>
<1>1. 6 - 2 = 4 /\ 2^4 = 16 /\ 6 - 4 = 2 /\ 2^2 = 4
  OBVIOUS
<1>2. s.bits = 0 => LastPiece(s) = <<>>
  BY DEF LastPiece
<1>3. ASSUME s.bits = 2 PROVE LastPiece(s) = <<base64_chars((s.val * 16) % 64)>>
  <2>1. LastPiece(s) = <<base64_chars((s.val * 2^(6 - s.bits)) % 64)>>
    BY <1>3 DEF LastPiece
  <2> QED BY <1>1, <1>3, <2>1, Zenon
<1>4. ASSUME s.bits = 4 PROVE LastPiece(s) = <<base64_chars((s.val * 4) % 64)>>
  <2>1. LastPiece(s) = <<base64_chars((s.val * 2^(6 - s.bits)) % 64)>>
    BY <1>4 DEF LastPiece
  <2> QED BY <1>1, <1>4, <2>1, Zenon
<1> QED BY <1>2, <1>3, <1>4

\* The groups of six that a text of n bytes has.
Groups(n) == (8 * n + 5) \div 6

LEMMA AllPieces ==
    ASSUME NEW bytes \in Seq(Byte), NEW s, Encoded(bytes, Len(bytes), s)
    PROVE  s.out \o LastPiece(s) = Pieces(bytes, Groups(Len(bytes)))
<1> DEFINE n == Len(bytes)   g == n \div 3
<1>1. n \in Nat /\ g \in Nat /\ (n = 3 * g \/ n = 3 * g + 1 \/ n = 3 * g + 2)
  OBVIOUS
<1> HIDE DEF g
<1>2. CASE n = 3 * g
  <2>1. EncoderAt(bytes, 3 * g, 0, 4 * g, s)
    BY <1>1, <1>2, EncoderPlaces
  <2>2. Groups(n) = 4 * g
    BY <1>1, <1>2 DEF Groups
  <2>3. s.out = Pieces(bytes, 4 * g) /\ LastPiece(s) = <<>>
    BY <2>1, LastPieceIs DEF EncoderAt
  <2>4. Pieces(bytes, 4 * g) \in Seq(Byte)
    BY <1>1, PiecesType
  <2> QED BY <2>2, <2>3, <2>4
<1>3. CASE n = 3 * g + 1
  <2> DEFINE x == bytes[n]
  <2>1. EncoderAt(bytes, 3 * g + 1, 2, 4 * g + 1, s)
    BY <1>1, <1>3, EncoderPlaces
  <2>2. Groups(n) = 4 * g + 2 /\ 4 * g + 1 \in Nat /\ (4 * g + 1) + 1 = 4 * g + 2 /\ 3 * g + 1 > 0
    BY <1>1, <1>3 DEF Groups
  <2>3. x \in Byte /\ ByteAt(bytes, 3 * g + 1) = x /\ ByteAt(bytes, 3 * g + 2) = 0
    BY <1>1, <1>3 DEF ByteAt
  <2>4. /\ s.out = Pieces(bytes, 4 * g + 1) /\ s.val \in Nat /\ s.val % 256 = x
        /\ LastPiece(s) = <<base64_chars((s.val * 16) % 64)>>
    BY <1>3, <2>1, <2>2, LastPieceIs DEF EncoderAt
  <2>5. (s.val * 16) % 64 = 16 * (x % 4) + 0 \div 16
    BY <2>3, <2>4, ByteLeft DEF Rest
  <2>6. Sextet(bytes, 4 * g + 2) = 16 * (x % 4) + 0 \div 16
    BY <1>1, <2>3, SextetsAre, Zenon DEF Sextets
  <2>7. (s.val * 16) % 64 = Sextet(bytes, 4 * g + 2)
    BY <2>5, <2>6, Zenon
  <2> HIDE DEF x, n
  <2> QED BY <2>2, <2>4, <2>7, OnePiece, Zenon DEF n
<1>4. CASE n = 3 * g + 2
  <2> DEFINE x == bytes[n]
  <2>1. EncoderAt(bytes, 3 * g + 2, 4, 4 * g + 2, s)
    BY <1>1, <1>4, EncoderPlaces
  <2>2. Groups(n) = 4 * g + 3 /\ 4 * g + 2 \in Nat /\ (4 * g + 2) + 1 = 4 * g + 3 /\ 3 * g + 2 > 0
    BY <1>1, <1>4 DEF Groups
  <2>3. x \in Byte /\ ByteAt(bytes, 3 * g + 2) = x /\ ByteAt(bytes, 3 * g + 3) = 0
    BY <1>1, <1>4 DEF ByteAt
  <2>4. /\ s.out = Pieces(bytes, 4 * g + 2) /\ s.val \in Nat /\ s.val % 256 = x
        /\ LastPiece(s) = <<base64_chars((s.val * 4) % 64)>>
    BY <1>4, <2>1, <2>2, LastPieceIs DEF EncoderAt
  <2>5. (s.val * 4) % 64 = 4 * (x % 16) + 0 \div 64
    BY <2>3, <2>4, ByteLeft DEF Rest
  <2>6. Sextet(bytes, 4 * g + 3) = 4 * (x % 16) + 0 \div 64
    BY <1>1, <2>3, SextetsAre, Zenon DEF Sextets
  <2>7. (s.val * 4) % 64 = Sextet(bytes, 4 * g + 3)
    BY <2>5, <2>6, Zenon
  <2> HIDE DEF x, n
  <2> QED BY <2>2, <2>4, <2>7, OnePiece, Zenon DEF n
<1> QED BY <1>1, <1>2, <1>3, <1>4

\* The encoding of a text: its groups of six bits, and what fills it up.
IsEncoding(bytes, e) ==
    /\ e \in Seq(Byte) /\ Groups(Len(bytes)) <= Len(e) /\ Len(e) = 4 * ((Len(bytes) + 2) \div 3)
    /\ \A k \in 1..Groups(Len(bytes)) : e[k] = base64_chars(Sextet(bytes, k))
    /\ \A k \in (Groups(Len(bytes)) + 1)..Len(e) : e[k] = Padding

LEMMA Padded ==
    ASSUME NEW n \in Nat
    PROVE  /\ Groups(n) \in Nat /\ (4 - (Groups(n) % 4)) % 4 \in Nat
           /\ Groups(n) + ((4 - (Groups(n) % 4)) % 4) = 4 * ((n + 2) \div 3)
<1> DEFINE g == n \div 3
<1>1. g \in Nat /\ (n = 3 * g \/ n = 3 * g + 1 \/ n = 3 * g + 2)
  OBVIOUS
<1> SUFFICES ASSUME NEW h \in Nat, n = 3 * h \/ n = 3 * h + 1 \/ n = 3 * h + 2
             PROVE  /\ Groups(n) \in Nat /\ (4 - (Groups(n) % 4)) % 4 \in Nat
                    /\ Groups(n) + ((4 - (Groups(n) % 4)) % 4) = 4 * ((n + 2) \div 3)
  BY <1>1
<1>2. CASE n = 3 * h
  <2>1. Groups(n) = 4 * h /\ (4 * h) % 4 = 0 /\ (n + 2) \div 3 = h /\ (4 - 0) % 4 = 0
    BY <1>2 DEF Groups
  <2> QED BY <2>1
<1>3. CASE n = 3 * h + 1
  <2>1. Groups(n) = 4 * h + 2 /\ (4 * h + 2) % 4 = 2 /\ (n + 2) \div 3 = h + 1 /\ (4 - 2) % 4 = 2
    BY <1>3 DEF Groups
  <2> QED BY <2>1
<1>4. CASE n = 3 * h + 2
  <2>1. Groups(n) = 4 * h + 3 /\ (4 * h + 3) % 4 = 3 /\ (n + 2) \div 3 = h + 1 /\ (4 - 3) % 4 = 1
    BY <1>4 DEF Groups
  <2> QED BY <2>1
<1> QED BY <1>2, <1>3, <1>4

LEMMA EncodeIsEncoding ==
    ASSUME NEW bytes \in Seq(Byte)
    PROVE  IsEncoding(bytes, base64_encode(bytes))
<1> DEFINE f == CHOOSE f : IsEncoder(bytes, f)
           n == Len(bytes)
           s == f[n]
           c == Groups(n)
           p == (4 - (c % 4)) % 4
           pad == [k \in 1..p |-> Padding]
           out == s.out \o LastPiece(s)
<1>1. IsEncoder(bytes, f)
  BY EncoderExists
<1>2. out = Pieces(bytes, c)
  <2> HIDE DEF f
  <2> QED BY <1>1, EncoderKeeps, AllPieces
<1>3. base64_encode(bytes) = out \o [k \in 1..((4 - (Len(out) % 4)) % 4) |-> Padding]
  BY DEF base64_encode, IsEncoder
<1> HIDE DEF f, s, out
<1>4. n \in Nat /\ c \in Nat /\ p \in Nat /\ c + p = 4 * ((n + 2) \div 3)
  BY Padded
<1> HIDE DEF c
<1>5. out \in Seq(Byte) /\ Len(out) = c /\ \A k \in 1..c : out[k] = base64_chars(Sextet(bytes, k))
  BY <1>2, <1>4, PiecesType
<1>6. base64_encode(bytes) = out \o pad
  BY <1>3, <1>5, Zenon
<1>7. pad \in Seq(Byte) /\ Len(pad) = p /\ \A k \in 1..p : pad[k] = Padding
  BY <1>4 DEF Padding, Byte
<1> HIDE DEF p, pad
<1>8. out \o pad \in Seq(Byte) /\ Len(out \o pad) = c + p
  BY <1>4, <1>5, <1>7
<1>9. \A k \in 1..c : (out \o pad)[k] = base64_chars(Sextet(bytes, k))
  BY <1>4, <1>5, <1>7
<1>10. \A k \in (c + 1)..(c + p) : (out \o pad)[k] = Padding
  BY <1>4, <1>5, <1>7
<1> QED BY <1>4, <1>6, <1>8, <1>9, <1>10 DEF IsEncoding, c

\* A character of the alphabet for URLs.
Url(c) == CASE c = 43 -> 45 [] c = 47 -> 95 [] OTHER -> c

\* Both alphabets are read, and the padding ends the text.
LEMMA CharIsRead ==
    ASSUME NEW v \in SixBits
    PROVE  /\ lookup(base64_chars(v)) = v
           /\ Url(base64_chars(v)) \in Byte /\ lookup(Url(base64_chars(v))) = v
<1>1. CASE v \in 0..25
  <2>1. base64_chars(v) = 65 + v
    BY <1>1 DEF base64_chars
  <2>2. 65 + v \in 65..90 /\ 65 + v # 43 /\ 65 + v # 47 /\ (65 + v) - 65 = v
    BY <1>1
  <2> QED BY <2>1, <2>2 DEF lookup, Url, Byte
<1>2. CASE v \in 26..51
  <2>1. base64_chars(v) = 71 + v
    BY <1>2 DEF base64_chars
  <2> QED BY <1>2, <2>1 DEF lookup, Url, Byte
<1>3. CASE v \in 52..61
  <2>1. base64_chars(v) = v - 4
    BY <1>3 DEF base64_chars
  <2> QED BY <1>3, <2>1 DEF lookup, Url, Byte
<1>4. CASE v = 62
  <2>1. base64_chars(v) = 43
    BY <1>4 DEF base64_chars
  <2> QED BY <1>4, <2>1 DEF lookup, Url, Byte
<1>5. CASE v = 63
  <2>1. base64_chars(v) = 47
    BY <1>5 DEF base64_chars
  <2> QED BY <1>5, <2>1 DEF lookup, Url, Byte
<1> QED BY <1>1, <1>2, <1>3, <1>4, <1>5 DEF SixBits

LEMMA PaddingIsRead == lookup(Padding) = 255 /\ Url(Padding) = Padding /\ Padding \in Byte
BY DEF lookup, Url, Padding, Byte

\* Characters the decoder reads as the groups of six of a text.
Readable(bytes, t) ==
    /\ t \in Seq(Byte) /\ Groups(Len(bytes)) <= Len(t)
    /\ \A k \in 1..Groups(Len(bytes)) : lookup(t[k]) = Sextet(bytes, k)
    /\ \A k \in (Groups(Len(bytes)) + 1)..Len(t) : lookup(t[k]) = 255

\* The value after one character more: its bytes come from that character and
\* the one before.
CharAdded(x, c, v) ==
    /\ v \in Nat /\ v % 64 = c
    /\ (v \div 16) % 256 = 4 * x + c \div 16
    /\ (v \div 4) % 256 = 16 * (x % 16) + c \div 4
    /\ v % 256 = 64 * (x % 4) + c

\* val after the next character, as 16 bits, and how it ends.
Pushed(val, c) == (64 * val + c) % 65536
EndsIn(x, c, v) == v \in Nat /\ v % 4096 = 64 * x + c

LEMMA PushedIs ==
    ASSUME NEW val \in Nat, NEW c \in SixBits
    PROVE  EndsIn(val % 64, c, Pushed(val, c)) /\ val % 64 \in SixBits
BY DEF Pushed, SixBits, EndsIn

LEMMA NumberAhead ==
    ASSUME NEW x \in 0..63, NEW c \in 0..63, NEW v, EndsIn(x, c, v)
    PROVE  CharAdded(x, c, v)
<1>1. v \in Nat /\ v % 64 = c
  BY DEF EndsIn
<1>2. (v \div 16) % 256 = 4 * x + c \div 16
  BY DEF EndsIn
<1>3. (v \div 4) % 256 = 16 * (x % 16) + c \div 4
  BY DEF EndsIn
<1>4. v % 256 = 64 * (x % 4) + c
  BY DEF EndsIn
<1> QED BY <1>1, <1>2, <1>3, <1>4 DEF CharAdded

LEMMA CharAhead ==
    ASSUME NEW x \in SixBits, NEW c \in SixBits, NEW v, EndsIn(x, c, v)
    PROVE  CharAdded(x, c, v)
BY NumberAhead, Zenon DEF SixBits

LEMMA AddChar ==
    ASSUME NEW val \in Nat, NEW c \in SixBits
    PROVE  CharAdded(val % 64, c, Pushed(val, c))
BY PushedIs, CharAhead, Zenon

\* The bytes that the groups of six make.
ThreeBytes(x, y, z) ==
    /\ 4 * (x \div 4) + (16 * (x % 4) + y \div 16) \div 16 = x
    /\ 16 * ((16 * (x % 4) + y \div 16) % 16) + (4 * (y % 16) + z \div 64) \div 4 = y
    /\ 64 * ((4 * (y % 16) + z \div 64) % 4) + (z % 64) = z

LEMMA BytesBack ==
    ASSUME NEW x \in 0..255, NEW y \in 0..255, NEW z \in 0..255
    PROVE  ThreeBytes(x, y, z)
BY DEF ThreeBytes

LEMMA ThreeBytesBack ==
    ASSUME NEW x \in Byte, NEW y \in Byte, NEW z \in Byte
    PROVE  ThreeBytes(x, y, z)
BY BytesBack, Zenon DEF Byte

\* What one character adds.
Puts(s, bits, byte, v, u) == u.val = v /\ u.bits = bits /\ u.out = Append(s.out, byte)

\* What DecodeChar does with the value of a character.
LEMMA DecodeCharIs ==
    ASSUME NEW s, NEW c, s.val \in Nat, lookup(c) \in SixBits
    PROVE  LET v == Pushed(s.val, lookup(c))
               u == DecodeChar(s, c)
           IN /\ s.bits = 0 => u.val = v /\ u.bits = 6 /\ u.out = s.out
              /\ s.bits = 6 => Puts(s, 4, (v \div 16) % 256, v, u)
              /\ s.bits = 4 => Puts(s, 2, (v \div 4) % 256, v, u)
              /\ s.bits = 2 => Puts(s, 0, v % 256, v, u)
<1> DEFINE v == Pushed(s.val, lookup(c))   u == DecodeChar(s, c)
<1>1. u = IF s.bits + 6 < 8 THEN [val |-> v, bits |-> s.bits + 6, out |-> s.out]
          ELSE [val |-> v, bits |-> (s.bits + 6) - 8,
                out |-> Append(s.out, (v \div 2^((s.bits + 6) - 8)) % 256)]
  BY DEF DecodeChar, Pushed
<1>2. v \in Nat
  BY AddChar DEF CharAdded
<1> HIDE DEF v, u
<1>3. ASSUME s.bits = 0 PROVE u.val = v /\ u.bits = 6 /\ u.out = s.out
  BY <1>1, <1>3
<1>4. 2^4 = 16 /\ 2^2 = 4 /\ 2^0 = 1 /\ v \div 1 = v
  BY <1>2
<1>5. ASSUME s.bits = 6 PROVE Puts(s, 4, (v \div 16) % 256, v, u)
  <2>1. ~(s.bits + 6 < 8) /\ (s.bits + 6) - 8 = 4
    BY <1>5
  <2>2. u = [val |-> v, bits |-> 4, out |-> Append(s.out, (v \div 16) % 256)]
    BY <1>1, <1>4, <2>1, Zenon
  <2> QED BY <2>2 DEF Puts
<1>6. ASSUME s.bits = 4 PROVE Puts(s, 2, (v \div 4) % 256, v, u)
  <2>1. ~(s.bits + 6 < 8) /\ (s.bits + 6) - 8 = 2
    BY <1>6
  <2>2. u = [val |-> v, bits |-> 2, out |-> Append(s.out, (v \div 4) % 256)]
    BY <1>1, <1>4, <2>1, Zenon
  <2> QED BY <2>2 DEF Puts
<1>7. ASSUME s.bits = 2 PROVE Puts(s, 0, v % 256, v, u)
  <2>1. ~(s.bits + 6 < 8) /\ (s.bits + 6) - 8 = 0
    BY <1>7
  <2>2. u = [val |-> v, bits |-> 0, out |-> Append(s.out, v % 256)]
    BY <1>1, <1>4, <2>1, Zenon
  <2> QED BY <2>2 DEF Puts
<1> QED BY <1>3, <1>5, <1>6, <1>7, Zenon DEF v, u

\* What the decoder has written after k characters, and what it keeps.
DecoderAt(bytes, k, bits, n, s) ==
    /\ s.val \in Nat /\ (k > 0 => s.val % 64 = Sextet(bytes, k))
    /\ s.bits = bits /\ s.out = SubSeq(bytes, 1, n)

Decoded(bytes, k, s) == DecoderAt(bytes, k, (6 * k) % 8, (6 * k) \div 8, s)

LEMMA DecoderPlaces ==
    ASSUME NEW bytes, NEW g \in Nat, NEW s
    PROVE  /\ Decoded(bytes, 4 * g, s) <=> DecoderAt(bytes, 4 * g, 0, 3 * g, s)
           /\ Decoded(bytes, 4 * g + 1, s) <=> DecoderAt(bytes, 4 * g + 1, 6, 3 * g, s)
           /\ Decoded(bytes, 4 * g + 2, s) <=> DecoderAt(bytes, 4 * g + 2, 4, 3 * g + 1, s)
           /\ Decoded(bytes, 4 * g + 3, s) <=> DecoderAt(bytes, 4 * g + 3, 2, 3 * g + 2, s)
           /\ Decoded(bytes, 4 * g + 4, s) <=> DecoderAt(bytes, 4 * g + 4, 0, 3 * g + 3, s)
<1>1. /\ (6 * (4 * g)) % 8 = 0 /\ (6 * (4 * g)) \div 8 = 3 * g
      /\ (6 * (4 * g + 1)) % 8 = 6 /\ (6 * (4 * g + 1)) \div 8 = 3 * g
      /\ (6 * (4 * g + 2)) % 8 = 4 /\ (6 * (4 * g + 2)) \div 8 = 3 * g + 1
      /\ (6 * (4 * g + 3)) % 8 = 2 /\ (6 * (4 * g + 3)) \div 8 = 3 * g + 2
      /\ (6 * (4 * g + 4)) % 8 = 0 /\ (6 * (4 * g + 4)) \div 8 = 3 * g + 3
  OBVIOUS
<1> QED BY <1>1, Zenon DEF Decoded

\* A byte more of the text.
OneByteMore(bytes, n, m) == Append(SubSeq(bytes, 1, n), bytes[m]) = SubSeq(bytes, 1, m)

LEMMA ByteMore ==
    ASSUME NEW bytes \in Seq(Byte), NEW n \in Nat, NEW m \in Nat, m = n + 1, m <= Len(bytes)
    PROVE  OneByteMore(bytes, n, m)
<1> DEFINE p == SubSeq(bytes, 1, n)   q == SubSeq(bytes, 1, m)   b == bytes[m]
<1>1. p \in Seq(Byte) /\ Len(p) = n /\ \A k \in 1..n : p[k] = bytes[k]
  OBVIOUS
<1>2. q \in Seq(Byte) /\ Len(q) = m /\ \A k \in 1..m : q[k] = bytes[k]
  OBVIOUS
<1>3. b \in Byte
  OBVIOUS
<1>4. q[m] = b /\ \A k \in 1..n : p[k] = q[k]
  BY <1>1, <1>2
<1> HIDE DEF p, q, b
<1>5. Append(p, b) \in Seq(Byte) /\ Len(Append(p, b)) = m
  BY <1>1, <1>3
<1>6. \A k \in 1..m : Append(p, b)[k] = q[k]
  BY <1>1, <1>3, <1>4
<1>7. Append(p, b) = q
  BY <1>2, <1>5, <1>6
<1> QED BY <1>7 DEF OneByteMore, p, q, b

\* Every group behind the first of four has its byte.
LEMMA GroupsHaveBytes ==
    ASSUME NEW n \in Nat, NEW g \in Nat
    PROVE  /\ 4 * g + 2 <= Groups(n) => 3 * g + 1 <= n
           /\ 4 * g + 3 <= Groups(n) => 3 * g + 2 <= n
           /\ 4 * g + 4 <= Groups(n) => 3 * g + 3 <= n
BY DEF Groups

LEMMA SextetsBack ==
    ASSUME NEW bytes \in Seq(Byte), NEW g \in Nat
    PROVE  /\ Sextet(bytes, 4 * g + 1) \in SixBits /\ Sextet(bytes, 4 * g + 2) \in SixBits
           /\ Sextet(bytes, 4 * g + 3) \in SixBits /\ Sextet(bytes, 4 * g + 4) \in SixBits
           /\ 4 * Sextet(bytes, 4 * g + 1) + Sextet(bytes, 4 * g + 2) \div 16 = ByteAt(bytes, 3 * g + 1)
           /\ 16 * (Sextet(bytes, 4 * g + 2) % 16) + Sextet(bytes, 4 * g + 3) \div 4 = ByteAt(bytes, 3 * g + 2)
           /\ 64 * (Sextet(bytes, 4 * g + 3) % 4) + Sextet(bytes, 4 * g + 4) = ByteAt(bytes, 3 * g + 3)
<1> DEFINE x == ByteAt(bytes, 3 * g + 1)   y == ByteAt(bytes, 3 * g + 2)   z == ByteAt(bytes, 3 * g + 3)
<1>1. /\ x \in Byte /\ y \in Byte /\ z \in Byte
      /\ Sextet(bytes, 4 * g + 1) = x \div 4 /\ Sextet(bytes, 4 * g + 2) = 16 * (x % 4) + y \div 16
      /\ Sextet(bytes, 4 * g + 3) = 4 * (y % 16) + z \div 64 /\ Sextet(bytes, 4 * g + 4) = z % 64
  BY SextetsAre, Zenon DEF Sextets
<1>2. /\ 4 * g + 1 \in Nat /\ 4 * g + 1 >= 1 /\ 4 * g + 2 \in Nat /\ 4 * g + 2 >= 1
      /\ 4 * g + 3 \in Nat /\ 4 * g + 3 >= 1 /\ 4 * g + 4 \in Nat /\ 4 * g + 4 >= 1
  OBVIOUS
<1>3. /\ Sextet(bytes, 4 * g + 1) \in SixBits /\ Sextet(bytes, 4 * g + 2) \in SixBits
      /\ Sextet(bytes, 4 * g + 3) \in SixBits /\ Sextet(bytes, 4 * g + 4) \in SixBits
  BY <1>2, SextetType, Zenon
<1> HIDE DEF x, y, z
<1>4. ThreeBytes(x, y, z)
  BY <1>1, ThreeBytesBack
<1> QED BY <1>1, <1>3, <1>4, Zenon DEF ThreeBytes, x, y, z

\* The next character's group, behind the one before.
LEMMA CharsGroup ==
    ASSUME NEW s, NEW c, NEW x, NEW y \in SixBits, s.val \in Nat, s.val % 64 = x, lookup(c) = y
    PROVE  CharAdded(x, y, Pushed(s.val, lookup(c)))
BY AddChar, Zenon

LEMMA DecodeFirst ==
    ASSUME NEW bytes \in Seq(Byte), NEW g \in Nat, NEW s, NEW c,
           lookup(c) = Sextet(bytes, 4 * g + 1), Decoded(bytes, 4 * g, s)
    PROVE  Decoded(bytes, 4 * g + 1, DecodeChar(s, c))
<1> DEFINE u == DecodeChar(s, c)   v == Pushed(s.val, lookup(c))   y == Sextet(bytes, 4 * g + 1)
<1>1. s.val \in Nat /\ s.bits = 0 /\ s.out = SubSeq(bytes, 1, 3 * g)
  BY DecoderPlaces DEF DecoderAt
<1>2. y \in SixBits
  BY SextetsBack
<1>3. CharAdded(s.val % 64, y, v)
  BY <1>1, <1>2, AddChar, Zenon
<1>4. u.val = v /\ u.bits = 6 /\ u.out = s.out
  BY <1>1, <1>2, DecodeCharIs
<1> HIDE DEF u, v, y
<1>5. v \in Nat /\ v % 64 = y
  BY <1>3, Zenon DEF CharAdded
<1>6. DecoderAt(bytes, 4 * g + 1, 6, 3 * g, u)
  BY <1>1, <1>4, <1>5, Zenon DEF DecoderAt, y
<1> QED BY <1>6, DecoderPlaces, Zenon DEF u

LEMMA DecodeSecond ==
    ASSUME NEW bytes \in Seq(Byte), NEW g \in Nat, NEW s, NEW c, 3 * g + 1 <= Len(bytes),
           lookup(c) = Sextet(bytes, 4 * g + 2), Decoded(bytes, 4 * g + 1, s)
    PROVE  Decoded(bytes, 4 * g + 2, DecodeChar(s, c))
<1> DEFINE u == DecodeChar(s, c)   v == Pushed(s.val, lookup(c))
           x == Sextet(bytes, 4 * g + 1)   y == Sextet(bytes, 4 * g + 2)
<1>1. s.val \in Nat /\ s.val % 64 = x /\ s.bits = 6 /\ s.out = SubSeq(bytes, 1, 3 * g)
  <2>1. DecoderAt(bytes, 4 * g + 1, 6, 3 * g, s) /\ 4 * g + 1 > 0
    BY DecoderPlaces
  <2> QED BY <2>1, Zenon DEF DecoderAt
<1>2. y \in SixBits /\ 4 * x + y \div 16 = ByteAt(bytes, 3 * g + 1)
  BY SextetsBack, Zenon
<1>3. CharAdded(x, y, v)
  BY <1>1, <1>2, CharsGroup, Zenon
<1>4. Puts(s, 4, (v \div 16) % 256, v, u)
  BY <1>1, <1>2, DecodeCharIs
<1>5. ByteAt(bytes, 3 * g + 1) = bytes[3 * g + 1] /\ 3 * g \in Nat /\ 3 * g + 1 \in Nat /\ 3 * g + 1 = (3 * g) + 1
  BY DEF ByteAt
<1>6. OneByteMore(bytes, 3 * g, 3 * g + 1)
  BY <1>5, ByteMore
<1> HIDE DEF u, v, x, y
<1>7. v \in Nat /\ v % 64 = y /\ (v \div 16) % 256 = bytes[3 * g + 1]
  BY <1>2, <1>3, <1>5, Zenon DEF CharAdded
<1>8. u.out = SubSeq(bytes, 1, 3 * g + 1)
  BY <1>1, <1>4, <1>6, <1>7, Zenon DEF OneByteMore, Puts
<1>9. DecoderAt(bytes, 4 * g + 2, 4, 3 * g + 1, u)
  BY <1>4, <1>7, <1>8, Zenon DEF DecoderAt, Puts, y
<1> QED BY <1>9, DecoderPlaces, Zenon DEF u

LEMMA DecodeThird ==
    ASSUME NEW bytes \in Seq(Byte), NEW g \in Nat, NEW s, NEW c, 3 * g + 2 <= Len(bytes),
           lookup(c) = Sextet(bytes, 4 * g + 3), Decoded(bytes, 4 * g + 2, s)
    PROVE  Decoded(bytes, 4 * g + 3, DecodeChar(s, c))
<1> DEFINE u == DecodeChar(s, c)   v == Pushed(s.val, lookup(c))
           x == Sextet(bytes, 4 * g + 2)   y == Sextet(bytes, 4 * g + 3)
<1>1. s.val \in Nat /\ s.val % 64 = x /\ s.bits = 4 /\ s.out = SubSeq(bytes, 1, 3 * g + 1)
  <2>1. DecoderAt(bytes, 4 * g + 2, 4, 3 * g + 1, s) /\ 4 * g + 2 > 0
    BY DecoderPlaces
  <2> QED BY <2>1, Zenon DEF DecoderAt
<1>2. y \in SixBits /\ 16 * (x % 16) + y \div 4 = ByteAt(bytes, 3 * g + 2)
  BY SextetsBack, Zenon
<1>3. CharAdded(x, y, v)
  BY <1>1, <1>2, CharsGroup, Zenon
<1>4. Puts(s, 2, (v \div 4) % 256, v, u)
  BY <1>1, <1>2, DecodeCharIs
<1>5. ByteAt(bytes, 3 * g + 2) = bytes[3 * g + 2] /\ 3 * g + 1 \in Nat /\ 3 * g + 2 \in Nat /\ 3 * g + 2 = (3 * g + 1) + 1
  BY DEF ByteAt
<1>6. OneByteMore(bytes, 3 * g + 1, 3 * g + 2)
  BY <1>5, ByteMore
<1> HIDE DEF u, v, x, y
<1>7. v \in Nat /\ v % 64 = y /\ (v \div 4) % 256 = bytes[3 * g + 2]
  BY <1>2, <1>3, <1>5, Zenon DEF CharAdded
<1>8. u.out = SubSeq(bytes, 1, 3 * g + 2)
  BY <1>1, <1>4, <1>6, <1>7, Zenon DEF OneByteMore, Puts
<1>9. DecoderAt(bytes, 4 * g + 3, 2, 3 * g + 2, u)
  BY <1>4, <1>7, <1>8, Zenon DEF DecoderAt, Puts, y
<1> QED BY <1>9, DecoderPlaces, Zenon DEF u

LEMMA DecodeFourth ==
    ASSUME NEW bytes \in Seq(Byte), NEW g \in Nat, NEW s, NEW c, 3 * g + 3 <= Len(bytes),
           lookup(c) = Sextet(bytes, 4 * g + 4), Decoded(bytes, 4 * g + 3, s)
    PROVE  Decoded(bytes, 4 * g + 4, DecodeChar(s, c))
<1> DEFINE u == DecodeChar(s, c)   v == Pushed(s.val, lookup(c))
           x == Sextet(bytes, 4 * g + 3)   y == Sextet(bytes, 4 * g + 4)
<1>1. s.val \in Nat /\ s.val % 64 = x /\ s.bits = 2 /\ s.out = SubSeq(bytes, 1, 3 * g + 2)
  <2>1. DecoderAt(bytes, 4 * g + 3, 2, 3 * g + 2, s) /\ 4 * g + 3 > 0
    BY DecoderPlaces
  <2> QED BY <2>1, Zenon DEF DecoderAt
<1>2. y \in SixBits /\ 64 * (x % 4) + y = ByteAt(bytes, 3 * g + 3)
  BY SextetsBack, Zenon
<1>3. CharAdded(x, y, v)
  BY <1>1, <1>2, CharsGroup, Zenon
<1>4. Puts(s, 0, v % 256, v, u)
  BY <1>1, <1>2, DecodeCharIs
<1>5. ByteAt(bytes, 3 * g + 3) = bytes[3 * g + 3] /\ 3 * g + 2 \in Nat /\ 3 * g + 3 \in Nat /\ 3 * g + 3 = (3 * g + 2) + 1
  BY DEF ByteAt
<1>6. OneByteMore(bytes, 3 * g + 2, 3 * g + 3)
  BY <1>5, ByteMore
<1> HIDE DEF u, v, x, y
<1>7. v \in Nat /\ v % 64 = y /\ v % 256 = bytes[3 * g + 3]
  BY <1>2, <1>3, <1>5, Zenon DEF CharAdded
<1>8. u.out = SubSeq(bytes, 1, 3 * g + 3)
  BY <1>1, <1>4, <1>6, <1>7, Zenon DEF OneByteMore, Puts
<1>9. DecoderAt(bytes, 4 * g + 4, 0, 3 * g + 3, u)
  BY <1>4, <1>7, <1>8, Zenon DEF DecoderAt, Puts, y
<1> QED BY <1>9, DecoderPlaces, Zenon DEF u

\* The states of the decoder, by the number of characters it has read.
IsDecoder(t, n, f) ==
    f = [k \in 0..n |-> IF k = 0 THEN Start ELSE DecodeChar(f[k - 1], t[k])]

LEMMA DecoderExists ==
    ASSUME NEW t, NEW n \in Nat
    PROVE  \E f : IsDecoder(t, n, f)
<1> DEFINE Known(m, f) == /\ f = [i \in 0..m |-> f[i]] /\ f[0] = Start
                          /\ \A i \in 1..m : f[i] = DecodeChar(f[i - 1], t[i])
           G == {m \in Nat : \E f : Known(m, f)}
<1>1. 0 \in G
  <2> DEFINE f == [i \in 0..0 |-> Start]
  <2>1. f = [i \in 0..0 |-> f[i]] /\ f[0] = Start
    OBVIOUS
  <2> HIDE DEF f
  <2>2. Known(0, f)
    BY <2>1
  <2> QED BY <2>2
<1>2. ASSUME NEW m \in Nat, m \in G PROVE m + 1 \in G
  <2> HIDE DEF Known
  <2>1. PICK f : Known(m, f)
    BY <1>2
  <2> DEFINE new == DecodeChar(f[m], t[m + 1])
             next == [i \in 0..(m + 1) |-> IF i = m + 1 THEN new ELSE f[i]]
  <2>2. next[m + 1] = new /\ \A i \in 0..m : next[i] = f[i]
    OBVIOUS
  <2>3. next = [i \in 0..(m + 1) |-> next[i]]
    OBVIOUS
  <2> HIDE DEF next
  <2>4. next[0] = Start
    BY <2>1, <2>2 DEF Known
  <2>5. ASSUME NEW i \in 1..(m + 1) PROVE next[i] = DecodeChar(next[i - 1], t[i])
    <3>1. CASE i = m + 1
      <4>1. m \in 0..m /\ i - 1 = m
        BY <3>1
      <4> QED BY <2>2, <3>1, <4>1
    <3>2. CASE i # m + 1
      <4>1. i \in 1..m /\ i \in 0..m /\ i - 1 \in 0..m
        BY <3>2
      <4> QED BY <2>1, <2>2, <4>1 DEF Known
    <3> QED BY <3>1, <3>2
  <2>6. Known(m + 1, next)
    BY <2>3, <2>4, <2>5 DEF Known
  <2> QED BY <2>6
<1> HIDE DEF G, Known
<1>3. n \in G
  BY <1>1, <1>2, SetInduction
<1>4. PICK f : Known(n, f)
  BY <1>3 DEF G
<1>5. ASSUME NEW i \in 0..n
      PROVE  f[i] = IF i = 0 THEN Start ELSE DecodeChar(f[i - 1], t[i])
  <2>1. i # 0 => i \in 1..n
    OBVIOUS
  <2> QED BY <1>4, <2>1 DEF Known
<1>6. f = [i \in 0..n |-> f[i]]
  BY <1>4 DEF Known
<1>7. f = [i \in 0..n |-> IF i = 0 THEN Start ELSE DecodeChar(f[i - 1], t[i])]
  BY <1>5, <1>6, Zenon
<1> QED BY <1>7 DEF IsDecoder

\* The characters of the text's groups keep what Decoded says.
LEMMA DecodeOne ==
    ASSUME NEW bytes \in Seq(Byte), NEW t, Readable(bytes, t), NEW k \in Nat, k + 1 <= Groups(Len(bytes)),
           NEW s, Decoded(bytes, k, s)
    PROVE  Decoded(bytes, k + 1, DecodeChar(s, t[k + 1]))
<1> DEFINE n == Len(bytes)   c == t[k + 1]   g == k \div 4
<1>1. n \in Nat /\ Groups(n) \in Nat
  BY Padded
<1>2. lookup(c) = Sextet(bytes, k + 1)
  BY <1>1 DEF Readable
<1>3. g \in Nat /\ (k = 4 * g \/ k = 4 * g + 1 \/ k = 4 * g + 2 \/ k = 4 * g + 3)
  OBVIOUS
<1> HIDE DEF g, c, n
<1>4. /\ 4 * g + 2 <= Groups(n) => 3 * g + 1 <= n
      /\ 4 * g + 3 <= Groups(n) => 3 * g + 2 <= n
      /\ 4 * g + 4 <= Groups(n) => 3 * g + 3 <= n
  BY <1>1, <1>3, GroupsHaveBytes
<1>5. k + 1 <= Groups(n)
  BY DEF n
<1>6. CASE k = 4 * g
  <2>1. k + 1 = 4 * g + 1
    BY <1>6
  <2> QED BY <1>2, <1>3, <1>6, <2>1, DecodeFirst, Zenon DEF c
<1>7. CASE k = 4 * g + 1
  <2>1. k + 1 = 4 * g + 2
    BY <1>3, <1>7
  <2> QED BY <1>2, <1>3, <1>4, <1>5, <1>7, <2>1, DecodeSecond, Zenon DEF c, n
<1>8. CASE k = 4 * g + 2
  <2>1. k + 1 = 4 * g + 3
    BY <1>3, <1>8
  <2> QED BY <1>2, <1>3, <1>4, <1>5, <1>8, <2>1, DecodeThird, Zenon DEF c, n
<1>9. CASE k = 4 * g + 3
  <2>1. k + 1 = 4 * g + 4
    BY <1>3, <1>9
  <2> QED BY <1>2, <1>3, <1>4, <1>5, <1>9, <2>1, DecodeFourth, Zenon DEF c, n
<1> QED BY <1>3, <1>6, <1>7, <1>8, <1>9

LEMMA DecoderKeeps ==
    ASSUME NEW bytes \in Seq(Byte), NEW t, Readable(bytes, t), NEW f,
           IsDecoder(t, Groups(Len(bytes)), f)
    PROVE  Decoded(bytes, Groups(Len(bytes)), f[Groups(Len(bytes))])
<1> DEFINE n == Groups(Len(bytes))
           G == {k \in Nat : k <= n => Decoded(bytes, k, f[k])}
<1>1. n \in Nat
  BY Padded
<1>2. f[0] = Start /\ \A k \in Nat : k + 1 <= n => f[k + 1] = DecodeChar(f[k], t[k + 1])
  <2> HIDE DEF n
  <2>1. f = [k \in 0..n |-> IF k = 0 THEN Start ELSE DecodeChar(f[k - 1], t[k])]
    BY DEF IsDecoder, n
  <2>2. f[0] = Start
    BY <1>1, <2>1
  <2>3. ASSUME NEW k \in Nat, k + 1 <= n PROVE f[k + 1] = DecodeChar(f[k], t[k + 1])
    <3>1. k + 1 \in 0..n /\ k + 1 # 0 /\ (k + 1) - 1 = k
      BY <1>1, <2>3
    <3> QED BY <2>1, <3>1
  <2> QED BY <2>2, <2>3
<1>3. 0 \in G
  <2>1. Start.val = 0 /\ Start.bits = 0 /\ Start.out = <<>>
    BY DEF Start
  <2>2. SubSeq(bytes, 1, 0) = <<>>
    OBVIOUS
  <2>3. DecoderAt(bytes, 0, 0, 0, Start)
    BY <2>1, <2>2 DEF DecoderAt
  <2>4. (6 * 0) % 8 = 0 /\ (6 * 0) \div 8 = 0
    OBVIOUS
  <2> QED BY <1>2, <2>3, <2>4 DEF Decoded
<1>4. ASSUME NEW k \in Nat, k \in G PROVE k + 1 \in G
  <2> SUFFICES ASSUME k + 1 <= n PROVE Decoded(bytes, k + 1, f[k + 1])
    OBVIOUS
  <2>1. Decoded(bytes, k, f[k]) /\ f[k + 1] = DecodeChar(f[k], t[k + 1])
    BY <1>1, <1>2, <1>4
  <2> QED BY <2>1, DecodeOne, Zenon
<1> HIDE DEF G
<1>5. n \in G
  BY <1>1, <1>3, <1>4, SetInduction
<1> QED BY <1>1, <1>5 DEF G

\* The decoder stops behind the last group, and has read all of the text.
LEMMA StopsBehind ==
    ASSUME NEW bytes \in Seq(Byte), NEW t, Readable(bytes, t)
    PROVE  LET stop == SelectInSeq(t, LAMBDA c : lookup(c) = 255)
           IN (IF stop = 0 THEN Len(t) ELSE stop - 1) = Groups(Len(bytes))
<1> DEFINE stop == SelectInSeq(t, LAMBDA c : lookup(c) = 255)
           ends == {k \in 1..Len(t) : lookup(t[k]) = 255}
           n == Groups(Len(bytes))
<1>1. stop = IF ends # {} THEN Min(ends) ELSE 0
  BY DEF SelectInSeq
<1>2. n \in Nat /\ Len(t) \in Nat /\ n <= Len(t)
  BY Padded DEF Readable
<1>3. \A k \in 1..n : lookup(t[k]) # 255
  <2>1. \A k \in 1..n : lookup(t[k]) = Sextet(bytes, k)
    BY DEF Readable
  <2>2. \A k \in 1..n : k \in Nat /\ k >= 1
    BY <1>2
  <2> HIDE DEF n
  <2>3. \A k \in 1..n : lookup(t[k]) \in SixBits
    BY <2>1, <2>2, SextetType, Zenon
  <2>4. \A v \in SixBits : v # 255
    BY DEF SixBits
  <2> QED BY <2>3, <2>4, Zenon
<1>4. \A k \in (n + 1)..Len(t) : lookup(t[k]) = 255
  BY DEF Readable
<1>5. ends \in SUBSET Nat /\ \A k \in Nat : k \in ends <=> k \in 1..Len(t) /\ lookup(t[k]) = 255
  OBVIOUS
<1> HIDE DEF ends, n, stop
<1>6. \A k \in Nat : k \in ends <=> k \in (n + 1)..Len(t)
  <2> SUFFICES ASSUME NEW k \in Nat PROVE k \in ends <=> k \in (n + 1)..Len(t)
    OBVIOUS
  <2>1. k \in 1..Len(t) <=> k \in 1..n \/ k \in (n + 1)..Len(t)
    BY <1>2
  <2> QED BY <1>3, <1>4, <1>5, <2>1
<1>7. CASE n = Len(t)
  <2>1. ends = {}
    BY <1>2, <1>5, <1>6, <1>7
  <2> QED BY <1>1, <1>7, <2>1 DEF n, stop
<1>8. CASE n # Len(t)
  <2>1. n + 1 \in ends
    BY <1>2, <1>6, <1>8
  <2>2. stop = Min(ends)
    BY <1>1, <2>1
  <2>3. stop \in ends /\ \A k \in ends : stop <= k
    BY <1>5, <2>1, <2>2, MinIsLeast
  <2>4. stop \in Nat /\ stop >= n + 1 /\ stop <= n + 1
    BY <1>2, <1>5, <1>6, <2>1, <2>3
  <2> QED BY <1>2, <2>4 DEF n, stop
<1> QED BY <1>7, <1>8

LEMMA DecodeIsText ==
    ASSUME NEW bytes \in Seq(Byte), NEW t, Readable(bytes, t)
    PROVE  base64_decode(t) = bytes
<1> DEFINE n == Groups(Len(bytes))
           f == CHOOSE f : IsDecoder(t, n, f)
<1>1. base64_decode(t) = f[n].out
  BY StopsBehind DEF base64_decode, IsDecoder
<1>2. IsDecoder(t, n, f)
  <2>1. n \in Nat
    BY Padded
  <2> HIDE DEF n
  <2> QED BY <2>1, DecoderExists, Zenon
<1>3. Decoded(bytes, n, f[n])
  <2> HIDE DEF f
  <2> QED BY <1>2, DecoderKeeps
<1> HIDE DEF f
<1>4. f[n].out = SubSeq(bytes, 1, (6 * n) \div 8)
  BY <1>3, Zenon DEF Decoded, DecoderAt
<1>5. (6 * n) \div 8 = Len(bytes)
  BY DEF Groups
<1>6. SubSeq(bytes, 1, Len(bytes)) = bytes
  OBVIOUS
<1> QED BY <1>1, <1>4, <1>5, <1>6, Zenon

\* Encoding and decoding a text, in both alphabets.
RoundTrip(bytes) ==
    LET chars == [i \in 1..((8 * Len(bytes) + 5) \div 6) |-> base64_chars(Sextet(bytes, i))]
        encoded == base64_encode(bytes)
        for_urls == [i \in DOMAIN encoded |-> CASE encoded[i] = 43 -> 45
                                                [] encoded[i] = 47 -> 95
                                                [] OTHER -> encoded[i]]
    IN /\ SubSeq(encoded, 1, Len(chars)) = chars
       /\ Len(encoded) = 4 * ((Len(bytes) + 2) \div 3)
       /\ ToSet(After(encoded, Len(chars))) \subseteq {Padding}
       /\ base64_decode(encoded) = bytes /\ base64_decode(for_urls) = bytes

LEMMA EncodingsAreReadable ==
    ASSUME NEW bytes \in Seq(Byte), NEW e, IsEncoding(bytes, e)
    PROVE  Readable(bytes, e) /\ Readable(bytes, [i \in DOMAIN e |-> Url(e[i])])
<1> DEFINE n == Groups(Len(bytes))   u == [i \in DOMAIN e |-> Url(e[i])]
<1>1. n \in Nat
  BY Padded
<1>2. /\ e \in Seq(Byte) /\ Len(e) \in Nat /\ n <= Len(e)
      /\ \A k \in 1..n : e[k] = base64_chars(Sextet(bytes, k))
      /\ \A k \in (n + 1)..Len(e) : e[k] = Padding
  BY DEF IsEncoding
<1>3. \A k \in 1..n : Sextet(bytes, k) \in SixBits
  <2>1. \A k \in 1..n : k \in Nat /\ k >= 1
    BY <1>1
  <2> HIDE DEF n
  <2> QED BY <2>1, SextetType, Zenon
<1> HIDE DEF n
<1>4. \A k \in 1..n : lookup(e[k]) = Sextet(bytes, k) /\ lookup(Url(e[k])) = Sextet(bytes, k) /\ Url(e[k]) \in Byte
  BY <1>2, <1>3, CharIsRead, Zenon
<1>5. \A k \in (n + 1)..Len(e) : lookup(e[k]) = 255 /\ lookup(Url(e[k])) = 255 /\ Url(e[k]) \in Byte
  BY <1>2, PaddingIsRead, Zenon
<1>6. Readable(bytes, e)
  BY <1>2, <1>4, <1>5, Zenon DEF Readable, n
<1>7. \A k \in 1..Len(e) : Url(e[k]) \in Byte
  <2>1. \A k \in 1..Len(e) : k \in 1..n \/ k \in (n + 1)..Len(e)
    BY <1>1, <1>2
  <2> QED BY <1>4, <1>5, <2>1
<1>8. u \in Seq(Byte) /\ Len(u) = Len(e) /\ \A k \in 1..Len(e) : u[k] = Url(e[k])
  BY <1>2, <1>7
<1> HIDE DEF u
<1>9. /\ \A k \in 1..n : lookup(u[k]) = Sextet(bytes, k)
      /\ \A k \in (n + 1)..Len(u) : lookup(u[k]) = 255
  <2>1. /\ \A k \in 1..n : k \in 1..Len(e)
        /\ \A k \in (n + 1)..Len(e) : k \in 1..Len(e)
    BY <1>1, <1>2
  <2> QED BY <1>4, <1>5, <1>8, <2>1
<1>10. Readable(bytes, u)
  BY <1>2, <1>8, <1>9, Zenon DEF Readable, n
<1> QED BY <1>6, <1>10 DEF u

LEMMA RoundTripIsMade ==
    ASSUME NEW bytes \in Seq(Byte)
    PROVE  RoundTrip(bytes)
<1> DEFINE n == Groups(Len(bytes))
           chars == [i \in 1..n |-> base64_chars(Sextet(bytes, i))]
           e == base64_encode(bytes)
           for_urls == [i \in DOMAIN e |-> CASE e[i] = 43 -> 45
                                              [] e[i] = 47 -> 95
                                              [] OTHER -> e[i]]
<1>1. IsEncoding(bytes, e)
  BY EncodeIsEncoding
<1>2. n \in Nat
  BY Padded
<1> HIDE DEF e
<1>3. base64_decode(e) = bytes /\ base64_decode([i \in DOMAIN e |-> Url(e[i])]) = bytes
  <2> DEFINE u == [i \in DOMAIN e |-> Url(e[i])]
  <2>1. Readable(bytes, e) /\ Readable(bytes, u)
    BY <1>1, EncodingsAreReadable
  <2> HIDE DEF u
  <2>2. base64_decode(e) = bytes /\ base64_decode(u) = bytes
    BY <2>1, DecodeIsText
  <2> QED BY <2>2 DEF u
<1>4. base64_decode(for_urls) = bytes
  <2>1. for_urls = [i \in DOMAIN e |-> Url(e[i])]
    BY DEF Url
  <2> HIDE DEF for_urls
  <2> QED BY <1>3, <2>1, Zenon
<1> HIDE DEF n, for_urls
<1>5. /\ e \in Seq(Byte) /\ Len(e) \in Nat /\ n <= Len(e) /\ Len(e) = 4 * ((Len(bytes) + 2) \div 3)
      /\ \A k \in 1..n : e[k] = base64_chars(Sextet(bytes, k))
      /\ \A k \in (n + 1)..Len(e) : e[k] = Padding
  BY <1>1 DEF IsEncoding, n
<1>6. Len(chars) = n /\ chars = Pieces(bytes, n)
  BY <1>2 DEF Pieces
<1>7. chars \in Seq(Byte) /\ \A k \in 1..n : chars[k] = base64_chars(Sextet(bytes, k))
  BY <1>2, <1>6, PiecesType
<1> HIDE DEF chars
<1>8. SubSeq(e, 1, Len(chars)) = chars
  <2>1. SubSeq(e, 1, n) \in Seq(Byte) /\ Len(SubSeq(e, 1, n)) = n /\ \A k \in 1..n : SubSeq(e, 1, n)[k] = e[k]
    BY <1>2, <1>5
  <2>2. \A k \in 1..n : SubSeq(e, 1, n)[k] = chars[k]
    BY <1>5, <1>7, <2>1
  <2>3. SubSeq(e, 1, n) = chars
    BY <1>6, <1>7, <2>1, <2>2
  <2> QED BY <1>6, <2>3
<1>9. ToSet(After(e, Len(chars))) \subseteq {Padding}
  <2> DEFINE tail == SubSeq(e, n + 1, Len(e))
  <2>1. DOMAIN tail = 1..(Len(e) - n) /\ \A k \in 1..(Len(e) - n) : tail[k] = e[n + k]
    BY <1>2, <1>5
  <2>2. \A k \in 1..(Len(e) - n) : n + k \in (n + 1)..Len(e)
    BY <1>2, <1>5
  <2>3. \A k \in DOMAIN tail : tail[k] = Padding
    BY <1>5, <2>1, <2>2
  <2>4. After(e, Len(chars)) = tail
    BY <1>6 DEF After
  <2> HIDE DEF tail
  <2> QED BY <2>3, <2>4 DEF ToSet
<1> QED BY <1>3, <1>4, <1>5, <1>8, <1>9, Zenon DEF RoundTrip, Groups, n, chars, e, for_urls

\* The encoder writes the bits of a text six at a time and pads them to a multiple
\* of four characters, and the decoder returns the text from what the encoder made
\* of it, in both alphabets.
THEOREM Base64IsUndone == Spec => []Base64RoundTrip
<1>1. TextInv => Base64RoundTrip
  <2> SUFFICES ASSUME TextInv, NEW bytes \in {text, text \o Reverse(text)} PROVE RoundTrip(bytes)
    BY Zenon DEF Base64RoundTrip, RoundTrip
  <2>1. \A c \in Alphabet : c \in Byte
    BY FunctionAssumption DEF Byte
  <2>2. text \in Seq(Byte)
    <3>1. text \in Seq(Alphabet)
      BY DEF TextInv
    <3> QED BY <2>1, <3>1, WiderSeq
  <2>3. Reverse(text) \in Seq(Byte)
    <3>1. Len(text) \in Nat /\ \A i \in 1..Len(text) : (Len(text) - i) + 1 \in 1..Len(text)
      BY <2>2
    <3>2. \A i \in 1..Len(text) : text[(Len(text) - i) + 1] \in Byte
      BY <2>2, <3>1, ElementOfSeq
    <3> QED BY <3>1, <3>2 DEF Reverse
  <2>4. text \o Reverse(text) \in Seq(Byte)
    BY <2>2, <2>3
  <2> QED BY <2>2, <2>4, RoundTripIsMade
<1> QED BY <1>1, TextIsOne, PTL

(***************************************************************************)
(* url_unescape and a client that escapes                                  *)
(***************************************************************************)

\* What holds for a number if it holds for all greater ones, holds for all.
LEMMA FromTheEnd ==
    ASSUME NEW n \in Nat, NEW H, \A k \in 1..n : (\A j \in 1..n : j > k => j \in H) => k \in H
    PROVE  \A k \in 1..n : k \in H
<1> DEFINE G == {m \in Nat : \A k \in 1..n : k > n - m => k \in H}
<1>1. 0 \in G
  OBVIOUS
<1>2. ASSUME NEW m \in Nat, m \in G PROVE m + 1 \in G
  <2> SUFFICES ASSUME NEW k \in 1..n, k > n - (m + 1) PROVE k \in H
    OBVIOUS
  <2>1. \A j \in 1..n : j > k => j \in H
    BY <1>2
  <2> QED BY <2>1
<1> HIDE DEF G
<1>3. n \in G
  BY <1>1, <1>2, SetInduction
<1> QED BY <1>3 DEF G

\* The reading of a text, with two zeros behind it.
Nothing == <<0, 0>>

\* Its result from a place on: a text, or none.
IsResult(r) == r = Rejects \/ (r.ok /\ r.val \in Seq(Byte) /\ r = Returns(r.val))

\* The result with a text in front.
Behind(front, r) == IF r.ok THEN Returns(front \o r.val) ELSE Rejects

LEMMA BehindIsResult ==
    ASSUME NEW front \in Seq(Byte), NEW r, IsResult(r)
    PROVE  IsResult(Behind(front, r))
<1>1. CASE ~r.ok
  BY <1>1 DEF Behind, IsResult
<1>2. CASE r.ok
  <2>1. r.val \in Seq(Byte)
    BY <1>2 DEF IsResult, Rejects
  <2>2. front \o r.val \in Seq(Byte)
    BY <2>1
  <2> DEFINE v == front \o r.val
  <2> HIDE DEF v
  <2>3. Returns(v).ok /\ Returns(v).val = v
    BY DEF Returns
  <2>4. Behind(front, r) = Returns(v)
    BY <1>2 DEF Behind, v
  <2> QED BY <2>2, <2>3, <2>4, Zenon DEF IsResult, v
<1> QED BY <1>1, <1>2

LEMMA BehindReturns ==
    ASSUME NEW front, NEW v
    PROVE  Behind(front, Returns(v)) = Returns(front \o v)
BY DEF Behind, Returns

\* Two texts as one.
Concatenated(a, b) ==
    /\ a \o b \in Seq(Byte) /\ Len(a \o b) = Len(a) + Len(b)
    /\ \A i \in 1..Len(a) : (a \o b)[i] = a[i]
    /\ \A i \in 1..Len(b) : (a \o b)[Len(a) + i] = b[i]

LEMMA Concatenate ==
    ASSUME NEW a \in Seq(Byte), NEW b \in Seq(Byte)
    PROVE  Concatenated(a, b)
<1>1. Len(a) \in Nat /\ Len(b) \in Nat
  OBVIOUS
<1>2. /\ a \o b \in Seq(Byte) /\ Len(a \o b) = Len(a) + Len(b)
      /\ \A i \in 1..(Len(a) + Len(b)) : (a \o b)[i] = IF i <= Len(a) THEN a[i] ELSE b[i - Len(a)]
  BY ConcatProperties
<1> DEFINE n == Len(a)   m == Len(b)   c == a \o b
<1> HIDE DEF n, m, c
<1>3. n \in Nat /\ m \in Nat /\ \A i \in 1..(n + m) : c[i] = IF i <= n THEN a[i] ELSE b[i - n]
  BY <1>1, <1>2 DEF n, m, c
<1>4. \A i \in 1..n : c[i] = a[i]
  BY <1>3
<1>5. \A i \in 1..m : c[n + i] = b[i]
  BY <1>3
<1> QED BY <1>2, <1>4, <1>5 DEF Concatenated, n, m, c

\* Two pieces in front, one after the other, are their concatenation.
Regrouped(a, b, c) == (a \o b) \o c = a \o (b \o c) /\ b \o c \in Seq(Byte) /\ a \o b \in Seq(Byte)

LEMMA Regroup ==
    ASSUME NEW a \in Seq(Byte), NEW b \in Seq(Byte), NEW c \in Seq(Byte)
    PROVE  Regrouped(a, b, c)
<1>1. a \o b \in Seq(Byte) /\ b \o c \in Seq(Byte)
  OBVIOUS
<1>2. (a \o b) \o c = a \o (b \o c)
  OBVIOUS
<1> QED BY <1>1, <1>2 DEF Regrouped

BehindTwice(a, b, r) == Behind(a \o b, r) = Behind(a, Behind(b, r))

LEMMA BehindBoth ==
    ASSUME NEW a \in Seq(Byte), NEW b \in Seq(Byte), NEW r, IsResult(r)
    PROVE  BehindTwice(a, b, r)
<1>1. CASE ~r.ok
  BY <1>1 DEF Behind, Rejects, BehindTwice
<1>2. CASE r.ok
  <2> DEFINE v == r.val
  <2>1. v \in Seq(Byte)
    BY <1>2 DEF IsResult, Rejects
  <2> HIDE DEF v
  <2>2. (a \o b) \o v = a \o (b \o v)
    BY <2>1, Regroup DEF Regrouped
  <2>3. Behind(b, r) = Returns(b \o v) /\ Behind(a \o b, r) = Returns((a \o b) \o v)
    BY <1>2, Zenon DEF Behind, v
  <2>4. Behind(a, Returns(b \o v)) = Returns(a \o (b \o v))
    BY BehindReturns, Zenon
  <2> DEFINE x == a \o (b \o v)   y == b \o v   z == (a \o b) \o v
  <2>5. x = z /\ Behind(b, r) = Returns(y) /\ Behind(a \o b, r) = Returns(z) /\ Behind(a, Returns(y)) = Returns(x)
    BY <2>2, <2>3, <2>4, Zenon
  <2> HIDE DEF x, y, z
  <2> QED BY <2>5, Zenon DEF BehindTwice
<1> QED BY <1>1, <1>2

\* A piece begins with its first character.
HeadFirst(str, i, j) ==
    /\ SubSeq(str, i, j) = <<str[i]>> \o SubSeq(str, i + 1, j)
    /\ SubSeq(str, i + 1, j) \in Seq(Byte) /\ <<str[i]>> \in Seq(Byte)

LEMMA HeadIsFirst ==
    ASSUME NEW str \in Seq(Byte), NEW i \in Nat, NEW j \in Nat, 1 <= i, i <= j, j <= Len(str)
    PROVE  HeadFirst(str, i, j)
<1>1. str[i] \in Byte
  BY ElementOfSeq
<1>2. SubSeq(str, i + 1, j) \in Seq(Byte)
  OBVIOUS
<1>3. SubSeq(str, i, j) = <<str[i]>> \o SubSeq(str, i + 1, j)
  BY <1>1
<1> QED BY <1>1, <1>2, <1>3 DEF HeadFirst

\* from_chars makes a byte, or none, of two characters.
LEMMA FromCharsType ==
    ASSUME NEW a \in Byte, NEW b \in Byte
    PROVE  FromChars(a, b) \in Seq(Byte)
<1>1. \A c \in Byte : HexValue(c) \in 0..16
  BY DEF HexValue, Digits, Byte
<1>2. ASSUME IsHex(a), IsHex(b) PROVE 16 * HexValue(a) + HexValue(b) \in Byte
  BY <1>1, <1>2 DEF IsHex, Byte
<1>3. ASSUME IsHex(a) PROVE HexValue(a) \in Byte
  BY <1>1, <1>3 DEF Byte
<1>4. (256 - HexValue(b)) % 256 \in Byte
  BY <1>1 DEF Byte
<1>5. \A c \in Byte : <<c>> \in Seq(Byte)
  OBVIOUS
<1>6. <<>> \in Seq(Byte)
  OBVIOUS
<1> QED BY <1>2, <1>3, <1>4, <1>5, <1>6 DEF FromChars

\* The byte that url_unescape reads behind a percent sign.
ByteRead(str, k) == FromChars((str \o Nothing)[k + 1], (str \o Nothing)[k + 2])

LEMMA ByteReadType ==
    ASSUME NEW str \in Seq(Byte), NEW k \in 1..Len(str)
    PROVE  ByteRead(str, k) \in Seq(Byte)
<1>1. Nothing \in Seq(Byte) /\ Len(Nothing) = 2
  BY DEF Nothing, Byte
<1>2. str \o Nothing \in Seq(Byte) /\ Len(str \o Nothing) = Len(str) + 2
  <2>1. Concatenated(str, Nothing)
    BY <1>1, Concatenate
  <2> QED BY <1>1, <2>1, Zenon DEF Concatenated
<1> DEFINE memory == str \o Nothing
<1>3. memory \in Seq(Byte) /\ k + 1 \in 1..Len(memory) /\ k + 2 \in 1..Len(memory)
  BY <1>2
<1> HIDE DEF memory
<1>4. memory[k + 1] \in Byte /\ memory[k + 2] \in Byte
  BY <1>3, ElementOfSeq
<1> QED BY <1>4, FromCharsType DEF ByteRead, memory

\* What a call does that finds a percent sign.
CallOf(str, from, k, p) ==
    IF (p = Len(str) /\ Len(str) > 1) \/ ByteRead(str, p) = <<>> THEN Rejects
    ELSE Behind(SubSeq(str, k, p - 1) \o ByteRead(str, p), from[p + 3])

LEMMA CallIs ==
    ASSUME NEW str, NEW from, NEW k, ~BeyondEnd(str, k), NEW p, p = FindAny(str, {PercentSign}, k), p # 0
    PROVE  Unescape(str, Nothing, from, k) = CallOf(str, from, k, p)
BY Zenon DEF Unescape, Behind, ByteRead, CallOf

\* What is there at a place decides how the reading goes on: a character is taken
\* over, ...
LEMMA PlainStep ==
    ASSUME NEW str \in Seq(Byte), NEW from, IsUnescape(str, Nothing, from),
           NEW k \in 1..Len(str), str[k] # PercentSign,
           \A j \in Starts(str) : j > k => IsResult(from[j])
    PROVE  from[k] = Behind(<<str[k]>>, from[k + 1])
<1> DEFINE size == Len(str)
           p == FindAny(str, {PercentSign}, k)
           q == FindAny(str, {PercentSign}, k + 1)
           Result(start, byte, later) ==
               IF (p = size /\ size > 1) \/ byte = <<>> THEN Rejects
               ELSE Behind(SubSeq(str, start, p - 1) \o byte, later)
<1>1. size \in Nat /\ k \in Nat /\ k \in 1..size /\ k \in Starts(str) /\ k + 1 \in Starts(str)
  BY DEF Starts
<1>2. ~BeyondEnd(str, k) /\ ~BeyondEnd(str, k + 1)
  BY <1>1 DEF BeyondEnd
<1>3. p = q /\ (p = 0 \/ p \in (k + 1)..size)
  <2>1. \/ p = 0 /\ \A j \in k..size : str[j] # PercentSign
        \/ p \in k..size /\ str[p] = PercentSign /\ \A j \in k..(p - 1) : str[j] # PercentSign
    BY <1>1, FindAnyFinds
  <2>2. \/ q = 0 /\ \A j \in (k + 1)..size : str[j] # PercentSign
        \/ q \in (k + 1)..size /\ str[q] = PercentSign /\ \A j \in (k + 1)..(q - 1) : str[j] # PercentSign
    BY <1>1, FindAnyFinds
  <2> HIDE DEF p, q, size
  <2>3. p = 0 \/ p \in (k + 1)..size
    BY <1>1, <2>1
  <2>4. CASE p = 0
    BY <1>1, <2>1, <2>2, <2>4
  <2>5. CASE q = 0
    BY <1>1, <2>1, <2>2, <2>3, <2>5
  <2>6. CASE p # 0 /\ q # 0
    BY <1>1, <2>1, <2>2, <2>3, <2>6
  <2> QED BY <2>3, <2>4, <2>5, <2>6
<1>4. str[k] \in Byte
  BY <1>1, ElementOfSeq
<1>5. from[k] = Unescape(str, Nothing, from, k) /\ from[k + 1] = Unescape(str, Nothing, from, k + 1)
  BY <1>1 DEF IsUnescape
<1>6. CASE p = 0
  <2>1. from[k] = Returns(After(str, k - 1)) /\ from[k + 1] = Returns(After(str, (k + 1) - 1))
    BY <1>2, <1>3, <1>5, <1>6 DEF Unescape
  <2> DEFINE rest == After(str, k)
  <2>2. After(str, k - 1) = <<str[k]>> \o rest
    <3>1. HeadFirst(str, k, size)
      BY <1>1, HeadIsFirst
    <3>2. (k - 1) + 1 = k
      BY <1>1
    <3> QED BY <3>1, <3>2, Zenon DEF After, HeadFirst
  <2>3. (k + 1) - 1 = k
    BY <1>1
  <2>4. from[k + 1] = Returns(rest)
    BY <2>1, <2>3, Zenon
  <2> HIDE DEF rest
  <2> QED BY <2>1, <2>2, <2>4, BehindReturns, Zenon
<1>7. CASE p # 0
  <2> DEFINE byte == ByteRead(str, p)
             later == from[p + 3]
  <2>1. from[k] = Result(k, byte, later) /\ from[k + 1] = Result(k + 1, byte, later)
    <3> HIDE DEF p, q
    <3>1. p = FindAny(str, {PercentSign}, k) /\ p = FindAny(str, {PercentSign}, k + 1)
      BY <1>3, Zenon DEF p, q
    <3>2. from[k] = CallOf(str, from, k, p) /\ from[k + 1] = CallOf(str, from, k + 1, p)
      BY <1>2, <1>5, <1>7, <3>1, CallIs, Zenon
    <3> QED BY <3>2, Zenon DEF CallOf
  <2>2. p \in 1..size /\ p + 3 \in Starts(str) /\ p + 3 > k
    BY <1>1, <1>3, <1>7 DEF Starts
  <2>3. byte \in Seq(Byte) /\ IsResult(later)
    BY <2>2, ByteReadType
  <2>4. HeadFirst(str, k, p - 1)
    <3>1. p - 1 \in Nat /\ k <= p - 1 /\ p - 1 <= size /\ 1 <= k
      <4> HIDE DEF p
      <4> QED BY <1>1, <1>3, <1>7
    <3> HIDE DEF p
    <3> QED BY <1>1, <3>1, HeadIsFirst
  <2> DEFINE a == <<str[k]>>   b == SubSeq(str, k + 1, p - 1)
  <2>5. a \in Seq(Byte) /\ b \in Seq(Byte) /\ SubSeq(str, k, p - 1) = a \o b
    BY <2>4, Zenon DEF HeadFirst
  <2> HIDE DEF a, b, byte, later
  <2>6. (a \o b) \o byte = a \o (b \o byte) /\ b \o byte \in Seq(Byte)
    BY <2>3, <2>5, Regroup DEF Regrouped
  <2>7. Behind((a \o b) \o byte, later) = Behind(a, Behind(b \o byte, later))
    <3>1. BehindTwice(a, b \o byte, later)
      BY <2>3, <2>5, <2>6, BehindBoth
    <3> QED BY <2>6, <3>1, Zenon DEF BehindTwice
  <2>8. Rejects = Behind(a, Rejects)
    BY DEF Behind, Rejects
  <2>9. Result(k, byte, later) = Behind(a, Result(k + 1, byte, later))
    <3>1. Result(k, byte, later) = IF (p = size /\ size > 1) \/ byte = <<>> THEN Rejects
                                   ELSE Behind((a \o b) \o byte, later)
      BY <2>5
    <3>2. Result(k + 1, byte, later) = IF (p = size /\ size > 1) \/ byte = <<>> THEN Rejects
                                       ELSE Behind(b \o byte, later)
      BY DEF b
    <3> HIDE DEF Result, p
    <3> QED BY <2>7, <2>8, <3>1, <3>2, Zenon
  <2> QED BY <2>1, <2>9 DEF a
<1> QED BY <1>6, <1>7

\* ... a percent sign needs two more, ...
LEMMA PercentStep ==
    ASSUME NEW str \in Seq(Byte), NEW from, IsUnescape(str, Nothing, from),
           NEW k \in 1..Len(str), str[k] = PercentSign,
           \A j \in Starts(str) : j > k => IsResult(from[j])
    PROVE  IF k + 2 <= Len(str) /\ ByteRead(str, k) # <<>>
           THEN from[k] = Behind(ByteRead(str, k), from[k + 3]) ELSE from[k] = Rejects
<1> DEFINE size == Len(str)
           p == FindAny(str, {PercentSign}, k)
           byte == ByteRead(str, k)
<1>1. size \in Nat /\ k \in Nat /\ k \in 1..size /\ k \in Starts(str) /\ k + 3 \in Starts(str) /\ k + 3 > k
  BY DEF Starts
<1>2. ~BeyondEnd(str, k)
  BY <1>1 DEF BeyondEnd
<1>3. p = k
  <2>1. \/ p = 0 /\ \A j \in k..size : str[j] # PercentSign
        \/ p \in k..size /\ str[p] = PercentSign /\ \A j \in k..(p - 1) : str[j] # PercentSign
    BY <1>1, FindAnyFinds
  <2> HIDE DEF p, size
  <2> QED BY <1>1, <2>1
<1>4. from[k] = Unescape(str, Nothing, from, k)
  BY <1>1 DEF IsUnescape
<1>5. from[k] = IF (k = size /\ size > 1) \/ byte = <<>> THEN Rejects
                ELSE Behind(SubSeq(str, k, k - 1) \o byte, from[k + 3])
  <2> HIDE DEF p, byte
  <2>1. p = FindAny(str, {PercentSign}, k) /\ p # 0
    BY <1>1, <1>3 DEF p
  <2>2. from[k] = CallOf(str, from, k, p)
    BY <1>2, <1>4, <2>1, CallIs, Zenon
  <2> QED BY <1>3, <2>2, Zenon DEF byte, CallOf
<1>6. byte \in Seq(Byte)
  BY <1>1, ByteReadType
<1>7. SubSeq(str, k, k - 1) \o byte = byte
  <2>1. SubSeq(str, k, k - 1) = <<>>
    BY <1>1
  <2> HIDE DEF byte
  <2> QED BY <1>6, <2>1
<1> HIDE DEF byte
<1>8. CASE k + 2 <= size
  <2>1. ~(k = size /\ size > 1)
    BY <1>1, <1>8
  <2> QED BY <1>5, <1>7, <1>8, <2>1, Zenon DEF byte
<1>9. CASE ~(k + 2 <= size)
  <2>1. BeyondEnd(str, k + 3)
    BY <1>1, <1>9 DEF BeyondEnd
  <2>2. from[k + 3] = Rejects
    <3> DEFINE i == k + 3
    <3> HIDE DEF i
    <3>1. i \in Starts(str) /\ BeyondEnd(str, i)
      BY <1>1, <2>1 DEF i
    <3>2. from[i] = Rejects
      BY <3>1 DEF IsUnescape, Unescape
    <3> QED BY <3>2 DEF i
  <2>3. \A a : Behind(a, Rejects) = Rejects
    BY DEF Behind, Rejects
  <2> QED BY <1>5, <1>9, <2>2, <2>3, Zenon
<1> QED BY <1>8, <1>9

\* ... and behind the text there is nothing.
LEMMA EndStep ==
    ASSUME NEW str \in Seq(Byte), NEW from, IsUnescape(str, Nothing, from)
    PROVE  /\ from[Len(str) + 1] = Returns(<<>>)
           /\ \A k \in Starts(str) : k > Len(str) + 1 => from[k] = Rejects
<1> DEFINE k == Len(str) + 1
<1>1. k \in Starts(str) /\ Len(str) \in Nat /\ k \in Nat \ {0}
  BY DEF Starts
<1>2. FindAny(str, {PercentSign}, k) = 0
  <2>1. FindAny(str, {PercentSign}, k) = 0 \/ FindAny(str, {PercentSign}, k) \in k..Len(str)
    BY <1>1, FindAnyFinds
  <2> QED BY <1>1, <2>1
<1>3. ~BeyondEnd(str, k) /\ After(str, k - 1) = <<>>
  BY <1>1 DEF BeyondEnd, After
<1> HIDE DEF k
<1>4. from[k] = Returns(<<>>)
  <2>1. from[k] = Unescape(str, Nothing, from, k)
    BY <1>1 DEF IsUnescape
  <2> QED BY <1>2, <1>3, <2>1 DEF Unescape
<1>5. ASSUME NEW i \in Starts(str), i > Len(str) + 1 PROVE from[i] = Rejects
  <2>1. from[i] = Unescape(str, Nothing, from, i)
    BY DEF IsUnescape
  <2>2. BeyondEnd(str, i)
    BY <1>5 DEF BeyondEnd
  <2> QED BY <2>1, <2>2 DEF Unescape
<1> QED BY <1>4, <1>5 DEF k

LEMMA EndIsRead ==
    ASSUME NEW str \in Seq(Byte), NEW from, IsUnescape(str, Nothing, from)
    PROVE  from[Len(str) + 1] = Returns(<<>>)
BY EndStep, Zenon

\* So every rest has a result.
LEMMA ResultsOfRests ==
    ASSUME NEW str \in Seq(Byte), NEW from, IsUnescape(str, Nothing, from)
    PROVE  \A k \in Starts(str) : IsResult(from[k])
<1> DEFINE n == Len(str) + 3
           H == {k \in Starts(str) : IsResult(from[k])}
<1>1. n \in Nat /\ Starts(str) = 1..n /\ Len(str) \in Nat
  BY DEF Starts
<1>2. ASSUME NEW k \in 1..n, \A j \in 1..n : j > k => j \in H PROVE k \in H
  <2>1. \A j \in Starts(str) : j > k => IsResult(from[j])
    BY <1>1, <1>2
  <2>2. CASE k <= Len(str) /\ str[k] # PercentSign
    <3>1. k \in 1..Len(str) /\ k + 1 \in Starts(str) /\ k + 1 > k
      BY <1>1, <2>2
    <3>2. from[k] = Behind(<<str[k]>>, from[k + 1]) /\ IsResult(from[k + 1])
      BY <2>1, <2>2, <3>1, PlainStep
    <3>3. <<str[k]>> \in Seq(Byte)
      <4>1. str[k] \in Byte
        BY <3>1, ElementOfSeq
      <4> QED BY <4>1
    <3> QED BY <1>1, <3>2, <3>3, BehindIsResult
  <2>3. CASE k <= Len(str) /\ str[k] = PercentSign
    <3>1. k \in 1..Len(str) /\ k + 3 \in Starts(str) /\ k + 3 > k
      BY <1>1, <2>3 DEF Starts
    <3>2. from[k] = Rejects \/ from[k] = Behind(ByteRead(str, k), from[k + 3])
      BY <2>1, <2>3, <3>1, PercentStep
    <3>3. ByteRead(str, k) \in Seq(Byte) /\ IsResult(from[k + 3])
      BY <2>1, <3>1, ByteReadType
    <3>4. IsResult(Behind(ByteRead(str, k), from[k + 3]))
      BY <3>3, BehindIsResult
    <3> QED BY <1>1, <3>2, <3>4 DEF IsResult
  <2>4. CASE ~(k <= Len(str))
    <3>1. from[k] = Returns(<<>>) \/ from[k] = Rejects
      <4>1. k = Len(str) + 1 \/ k > Len(str) + 1
        BY <1>1, <2>4
      <4>2. k \in Starts(str)
        BY <1>1
      <4> QED BY <4>1, <4>2, EndStep
    <3>2. Returns(<<>>).ok /\ Returns(<<>>).val = <<>> /\ <<>> \in Seq(Byte)
      BY DEF Returns
    <3> QED BY <1>1, <3>1, <3>2 DEF IsResult
  <2> QED BY <2>2, <2>3, <2>4
<1> HIDE DEF H, n
<1>3. \A k \in 1..n : k \in H
  BY <1>1, <1>2, FromTheEnd
<1> QED BY <1>1, <1>3 DEF H

\* What is read of a text is read of a longer one that contains it, in front of
\* what is read of the rest.
LiesIn(long, d, str) == Len(str) + d <= Len(long) /\ \A k \in 1..Len(str) : long[k + d] = str[k]

Carried(front, r, s, t) == Behind(front, r).ok /\ Behind(front, s) = Returns(Behind(front, r).val \o t)

LEMMA CarryOn ==
    ASSUME NEW front \in Seq(Byte), NEW t \in Seq(Byte), NEW r, IsResult(r), r.ok,
           NEW s, s = Returns(r.val \o t)
    PROVE  Carried(front, r, s, t)
<1> DEFINE v == r.val   w == front \o v
<1>1. v \in Seq(Byte)
  BY DEF IsResult, Rejects
<1> HIDE DEF v
<1>2. w \o t = front \o (v \o t)
  BY <1>1, Regroup DEF Regrouped
<1>3. Behind(front, r) = Returns(w)
  BY Zenon DEF Behind, v
<1>4. Behind(front, s) = Returns(front \o (v \o t))
  BY BehindReturns, Zenon DEF v
<1> HIDE DEF w
<1>5. Returns(w).ok /\ Returns(w).val = w
  BY DEF Returns
<1> QED BY <1>2, <1>3, <1>4, <1>5, Zenon DEF Carried

LEMMA SameByteRead ==
    ASSUME NEW str \in Seq(Byte), NEW long \in Seq(Byte), NEW d \in Nat, LiesIn(long, d, str),
           NEW k \in 1..Len(str), k + 2 <= Len(str)
    PROVE  ByteRead(long, k + d) = ByteRead(str, k)
<1>1. Nothing \in Seq(Byte) /\ Len(str) \in Nat /\ Len(long) \in Nat
  BY DEF Nothing, Byte
<1>2. Concatenated(str, Nothing) /\ Concatenated(long, Nothing)
  BY <1>1, Concatenate
<1>3. /\ k + 1 \in 1..Len(str) /\ k + 2 \in 1..Len(str)
      /\ (k + d) + 1 \in 1..Len(long) /\ (k + d) + 2 \in 1..Len(long)
      /\ (k + d) + 1 = (k + 1) + d /\ (k + d) + 2 = (k + 2) + d
  BY <1>1 DEF LiesIn
<1>4. /\ (str \o Nothing)[k + 1] = str[k + 1] /\ (str \o Nothing)[k + 2] = str[k + 2]
      /\ (long \o Nothing)[(k + d) + 1] = long[(k + d) + 1]
      /\ (long \o Nothing)[(k + d) + 2] = long[(k + d) + 2]
  BY <1>2, <1>3, Zenon DEF Concatenated
<1>5. long[(k + 1) + d] = str[k + 1] /\ long[(k + 2) + d] = str[k + 2]
  BY <1>3, Zenon DEF LiesIn
<1> QED BY <1>3, <1>4, <1>5, Zenon DEF ByteRead

LEMMA ReadsAsPart ==
    ASSUME NEW str \in Seq(Byte), NEW long \in Seq(Byte), NEW d \in Nat, LiesIn(long, d, str),
           NEW from, IsUnescape(str, Nothing, from), NEW g, IsUnescape(long, Nothing, g),
           NEW t \in Seq(Byte), g[(Len(str) + 1) + d] = Returns(t)
    PROVE  \A k \in 1..(Len(str) + 1) : from[k].ok => g[k + d] = Returns(from[k].val \o t)
<1> DEFINE n == Len(str) + 1
           Holds(k) == from[k].ok => g[k + d] = Returns(from[k].val \o t)
           H == {k \in 1..n : Holds(k)}
<1>1. /\ n \in Nat /\ Len(str) \in Nat /\ Len(long) \in Nat /\ Len(str) + d <= Len(long)
      /\ \A k \in 1..Len(str) : long[k + d] = str[k] /\ k + d \in 1..Len(long)
  BY DEF LiesIn
<1>2. /\ \A k \in Starts(str) : IsResult(from[k])
      /\ \A k \in Starts(long) : IsResult(g[k])
  BY ResultsOfRests
<1>3. ~Rejects.ok /\ \A front : Behind(front, Rejects) = Rejects
  BY DEF Rejects, Behind
<1>4. ASSUME NEW k \in 1..n, \A j \in 1..n : j > k => j \in H PROVE k \in H
  <2>1. \A j \in 1..n : j > k => Holds(j)
    BY <1>4
  <2> HIDE DEF Holds
  <2> SUFFICES Holds(k)
    BY DEF H
  <2>2. CASE k <= Len(str) /\ str[k] # PercentSign
    <3> DEFINE front == <<str[k]>>   i == k + 1   j == i + d
    <3>1. /\ k \in 1..Len(str) /\ i \in Starts(str) /\ i > k /\ i \in 1..n
          /\ j \in Starts(long) /\ (k + d) + 1 = j /\ k + d \in 1..Len(long)
      BY <1>1, <2>2 DEF Starts
    <3>2. front \in Seq(Byte)
      <4>1. str[k] \in Byte
        BY <3>1, ElementOfSeq
      <4> QED BY <4>1
    <3>3. from[k] = Behind(front, from[i])
      BY <1>2, <2>2, <3>1, PlainStep
    <3>4. g[k + d] = Behind(front, g[j])
      <4> DEFINE m == k + d
      <4>1. m \in 1..Len(long) /\ long[m] = str[k] /\ m + 1 = j
        BY <1>1, <3>1
      <4> HIDE DEF m, j
      <4>2. g[m] = Behind(<<long[m]>>, g[m + 1])
        BY <1>2, <2>2, <4>1, PlainStep
      <4> QED BY <4>1, <4>2 DEF m
    <3>5. IsResult(from[i]) /\ Holds(i)
      BY <1>2, <2>1, <3>1
    <3> HIDE DEF front, i
    <3>6. ASSUME from[k].ok PROVE g[k + d] = Returns(from[k].val \o t)
      <4>1. from[i].ok
        BY <1>3, <3>3, <3>6, Zenon DEF Behind
      <4>2. g[j] = Returns(from[i].val \o t)
        BY <3>5, <4>1, Zenon DEF Holds
      <4>3. Carried(front, from[i], g[j], t)
        BY <3>2, <3>5, <4>1, <4>2, CarryOn, Zenon
      <4> QED BY <3>3, <3>4, <4>3, Zenon DEF Carried
    <3> QED BY <3>6 DEF Holds
  <2>3. CASE k <= Len(str) /\ str[k] = PercentSign
    <3> DEFINE front == ByteRead(str, k)   i == k + 3   j == i + d
    <3>1. k \in 1..Len(str) /\ i \in Starts(str) /\ i > k /\ k + d \in 1..Len(long)
      BY <1>1, <2>3 DEF Starts
    <3>2. front \in Seq(Byte)
      BY <3>1, ByteReadType
    <3>3. IF k + 2 <= Len(str) /\ front # <<>> THEN from[k] = Behind(front, from[i]) ELSE from[k] = Rejects
      BY <1>2, <2>3, <3>1, PercentStep
    <3>4. ASSUME from[k].ok PROVE g[k + d] = Returns(from[k].val \o t)
      <4>1. k + 2 <= Len(str) /\ front # <<>> /\ from[k] = Behind(front, from[i])
        BY <1>3, <3>3, <3>4, Zenon
      <4>2. i \in 1..n /\ j \in Starts(long) /\ (k + d) + 2 <= Len(long) /\ (k + d) + 3 = j
        BY <1>1, <3>1, <4>1 DEF Starts
      <4>3. ByteRead(long, k + d) = front
        BY <3>1, <4>1, SameByteRead
      <4>4. g[k + d] = Behind(front, g[j])
        <5> DEFINE m == k + d
        <5>1. m \in 1..Len(long) /\ long[m] = PercentSign /\ m + 3 = j /\ m + 2 <= Len(long) /\ ByteRead(long, m) = front
          BY <1>1, <2>3, <3>1, <4>2, <4>3
        <5> HIDE DEF m, j, front
        <5>2. IF m + 2 <= Len(long) /\ ByteRead(long, m) # <<>> THEN g[m] = Behind(ByteRead(long, m), g[m + 3])
              ELSE g[m] = Rejects
          BY <1>2, <5>1, PercentStep
        <5> QED BY <4>1, <5>1, <5>2, Zenon DEF m
      <4>5. IsResult(from[i]) /\ Holds(i)
        BY <1>2, <2>1, <3>1, <4>2
      <4> HIDE DEF front, i
      <4>6. from[i].ok
        BY <1>3, <4>1, <3>4, Zenon DEF Behind
      <4>7. g[j] = Returns(from[i].val \o t)
        BY <4>5, <4>6, Zenon DEF Holds
      <4>8. Carried(front, from[i], g[j], t)
        BY <3>2, <4>5, <4>6, <4>7, CarryOn, Zenon
      <4> QED BY <4>1, <4>4, <4>8, Zenon DEF Carried
    <3> QED BY <3>4 DEF Holds
  <2>4. CASE ~(k <= Len(str))
    <3>1. k = Len(str) + 1
      BY <1>1, <2>4
    <3>2. from[k] = Returns(<<>>)
      BY <3>1, EndStep
    <3>3. from[k].val = <<>>
      BY <3>2 DEF Returns
    <3>4. <<>> \o t = t
      OBVIOUS
    <3> QED BY <3>1, <3>3, <3>4, Zenon DEF Holds
  <2> QED BY <2>2, <2>3, <2>4
<1> HIDE DEF H, Holds, n
<1>5. \A k \in 1..n : k \in H
  BY <1>1, <1>4, FromTheEnd
<1> QED BY <1>5 DEF H, Holds, n

\* e is unescaped to s.
Codes(e, s) == e \in Seq(Byte) /\ s \in Seq(Byte) /\ Unescaped(e) = Returns(s)

\* Two texts that are not rejected are unescaped one after the other.
LEMMA CodesBoth ==
    ASSUME NEW a, NEW x, Codes(a, x), NEW b, NEW y, Codes(b, y)
    PROVE  Codes(a \o b, x \o y)
<1>1. a \in Seq(Byte) /\ b \in Seq(Byte) /\ x \in Seq(Byte) /\ y \in Seq(Byte)
  BY DEF Codes
<1> DEFINE c == a \o b
<1>2. Concatenated(a, b) /\ Concatenated(x, y)
  BY <1>1, Concatenate
<1>3. /\ c \in Seq(Byte) /\ Len(c) = Len(a) + Len(b) /\ x \o y \in Seq(Byte)
      /\ Len(a) \in Nat /\ Len(b) \in Nat
      /\ \A i \in 1..Len(a) : c[i] = a[i]
      /\ \A i \in 1..Len(b) : c[Len(a) + i] = b[i]
  BY <1>1, <1>2 DEF Concatenated
<1> HIDE DEF c
<1>4. PICK f : IsUnescape(a, Nothing, f) /\ f[1] = Returns(x)
  BY <1>1, UnescapeIs DEF Codes, Unescaped, Nothing
<1>5. PICK g : IsUnescape(b, Nothing, g) /\ g[1] = Returns(y)
  BY <1>1, UnescapeIs DEF Codes, Unescaped, Nothing
<1>6. PICK h : IsUnescape(c, Nothing, h) /\ url_unescape(c, Nothing) = h[1]
  <2>1. c \in Seq(Byte)
    BY <1>3
  <2> QED BY <2>1, UnescapeIs
<1>7. h[Len(c) + 1] = Returns(<<>>)
  BY <1>3, <1>6, EndStep
<1>8. LiesIn(c, 0, a) /\ LiesIn(c, Len(a), b)
  BY <1>3 DEF LiesIn
<1>9. Returns(x).ok /\ Returns(x).val = x /\ Returns(y).ok /\ Returns(y).val = y
  BY DEF Returns
<1>10. h[1 + Len(a)] = Returns(y)
  <2> DEFINE d == Len(a)   none == <<>>
  <2>1. d \in Nat /\ (Len(b) + 1) + d = Len(c) + 1 /\ none \in Seq(Byte) /\ 1 \in 1..(Len(b) + 1)
    BY <1>3
  <2> HIDE DEF d, none
  <2>2. h[(Len(b) + 1) + d] = Returns(none) /\ LiesIn(c, d, b)
    BY <1>7, <1>8, <2>1 DEF d, none
  <2>3. \A k \in 1..(Len(b) + 1) : g[k].ok => h[k + d] = Returns(g[k].val \o none)
    <3>1. c \in Seq(Byte)
      BY <1>3
    <3> QED BY <1>1, <1>5, <1>6, <2>1, <2>2, <3>1, ReadsAsPart
  <2>4. h[1 + d] = Returns(y \o none)
    BY <1>5, <1>9, <2>1, <2>3, Zenon
  <2>5. y \o none = y
    BY <1>1 DEF none
  <2> QED BY <2>4, <2>5 DEF d
<1>11. h[1] = Returns(x \o y)
  <2>1. (Len(a) + 1) + 0 = 1 + Len(a) /\ 0 \in Nat /\ 1 \in 1..(Len(a) + 1) /\ 1 + 0 = 1
    BY <1>3
  <2>2. h[(Len(a) + 1) + 0] = Returns(y)
    BY <1>10, <2>1
  <2>3. \A k \in 1..(Len(a) + 1) : f[k].ok => h[k + 0] = Returns(f[k].val \o y)
    <3>1. c \in Seq(Byte)
      BY <1>3
    <3> QED BY <1>1, <1>4, <1>6, <1>8, <2>1, <2>2, <3>1, ReadsAsPart
  <2>4. f[1].ok => h[1 + 0] = Returns(f[1].val \o y)
    BY <2>1, <2>3, Zenon
  <2> QED BY <1>4, <1>9, <2>1, <2>4
<1> QED BY <1>3, <1>6, <1>11 DEF Codes, Unescaped, Nothing, c

LEMMA CodesNothing == Codes(<<>>, <<>>)
<1> DEFINE none == <<>>
<1>1. none \in Seq(Byte) /\ Len(none) = 0
  OBVIOUS
<1> HIDE DEF none
<1>2. PICK f : IsUnescape(none, Nothing, f) /\ url_unescape(none, Nothing) = f[1]
  BY <1>1, UnescapeIs
<1>3. f[Len(none) + 1] = Returns(<<>>)
  BY <1>1, <1>2, EndStep
<1>4. Len(none) + 1 = 1
  BY <1>1
<1> QED BY <1>1, <1>2, <1>3, <1>4 DEF Codes, Unescaped, Nothing, none

LEMMA CodesPlain ==
    ASSUME NEW c \in Byte, c # PercentSign
    PROVE  Codes(<<c>>, <<c>>)
<1> DEFINE str == <<c>>
<1>1. str \in Seq(Byte) /\ Len(str) = 1 /\ str[1] = c
  OBVIOUS
<1> HIDE DEF str
<1>2. PICK f : IsUnescape(str, Nothing, f) /\ url_unescape(str, Nothing) = f[1]
  BY <1>1, UnescapeIs
<1>3. f[2] = Returns(<<>>)
  <2>1. f[Len(str) + 1] = Returns(<<>>)
    BY <1>1, <1>2, EndIsRead
  <2>2. Len(str) + 1 = 2
    BY <1>1
  <2> QED BY <2>1, <2>2, Zenon
<1>4. 1 \in 1..Len(str) /\ 1 + 1 = 2
  BY <1>1
<1>5. f[1] = Behind(<<str[1]>>, f[1 + 1])
  BY <1>1, <1>2, <1>4, ResultsOfRests, PlainStep
<1>6. f[1] = Returns(<<c>> \o <<>>)
  BY <1>1, <1>3, <1>4, <1>5, BehindReturns, Zenon
<1>7. <<c>> \o <<>> = <<c>>
  OBVIOUS
<1> QED BY <1>1, <1>2, <1>6, <1>7, Zenon DEF Codes, Unescaped, Nothing, str

\* A byte in two hexadecimal digits is read back.
LEMMA HexIsRead ==
    ASSUME NEW v \in 0..15
    PROVE  HexDigit(v) \in Byte /\ IsHex(HexDigit(v)) /\ HexValue(HexDigit(v)) = v
BY DEF HexDigit, IsHex, HexValue, Digits, Byte

LEMMA HexRead ==
    ASSUME NEW a, NEW b, IsHex(a), IsHex(b)
    PROVE  FromChars(a, b) = <<16 * HexValue(a) + HexValue(b)>>
<1>1. ~IsHex(Minus)
  BY DEF IsHex, HexValue, Minus, Digits
<1>2. a # Minus
  BY <1>1
<1> QED BY <1>2 DEF FromChars

LEMMA HexBytes ==
    ASSUME NEW c \in Byte
    PROVE  c \div 16 \in 0..15 /\ c % 16 \in 0..15 /\ 16 * (c \div 16) + (c % 16) = c
BY DEF Byte

LEMMA CodesEscape ==
    ASSUME NEW c \in Byte
    PROVE  Codes(<<PercentSign, HexDigit(c \div 16), HexDigit(c % 16)>>, <<c>>)
<1> DEFINE a == HexDigit(c \div 16)   b == HexDigit(c % 16)   str == <<PercentSign, a, b>>
<1>1. a \in Byte /\ b \in Byte /\ FromChars(a, b) = <<c>>
  <2>1. c \div 16 \in 0..15 /\ c % 16 \in 0..15 /\ 16 * (c \div 16) + (c % 16) = c
    BY HexBytes
  <2>2. a \in Byte /\ IsHex(a) /\ HexValue(a) = c \div 16
    BY <2>1, HexIsRead
  <2>3. b \in Byte /\ IsHex(b) /\ HexValue(b) = c % 16
    BY <2>1, HexIsRead
  <2> HIDE DEF a, b
  <2>4. FromChars(a, b) = <<16 * HexValue(a) + HexValue(b)>>
    BY <2>2, <2>3, HexRead
  <2> QED BY <2>1, <2>2, <2>3, <2>4
<1> HIDE DEF a, b
<1>2. /\ str \in Seq(Byte) /\ Len(str) = 3 /\ str[1] = PercentSign
      /\ (str \o Nothing)[1 + 1] = a /\ (str \o Nothing)[1 + 2] = b
  BY <1>1 DEF PercentSign, Byte, Nothing
<1> HIDE DEF str
<1>3. ByteRead(str, 1) = <<c>>
  BY <1>1, <1>2, Zenon DEF ByteRead
<1>4. PICK f : IsUnescape(str, Nothing, f) /\ url_unescape(str, Nothing) = f[1]
  BY <1>2, UnescapeIs
<1>5. f[4] = Returns(<<>>)
  <2>1. f[Len(str) + 1] = Returns(<<>>)
    BY <1>2, <1>4, EndIsRead
  <2>2. Len(str) + 1 = 4
    BY <1>2
  <2> QED BY <2>1, <2>2, Zenon
<1>6. 1 \in 1..Len(str) /\ 1 + 3 = 4 /\ 1 + 2 <= Len(str) /\ <<c>> # <<>>
  BY <1>2
<1>7. f[1] = Behind(<<c>>, f[1 + 3])
  <2>1. IF 1 + 2 <= Len(str) /\ ByteRead(str, 1) # <<>>
        THEN f[1] = Behind(ByteRead(str, 1), f[1 + 3]) ELSE f[1] = Rejects
    BY <1>2, <1>4, <1>6, ResultsOfRests, PercentStep
  <2> QED BY <1>3, <1>6, <2>1, Zenon
<1>8. f[1] = Returns(<<c>> \o <<>>)
  BY <1>5, <1>6, <1>7, BehindReturns, Zenon
<1>9. <<c>> \o <<>> = <<c>> /\ <<c>> \in Seq(Byte)
  OBVIOUS
<1> QED BY <1>2, <1>4, <1>8, <1>9, Zenon DEF Codes, Unescaped, Nothing, str, a, b

LEMMA CodesByte ==
    ASSUME NEW c \in Byte
    PROVE  Codes(Escaped(c), <<c>>)
<1>1. c \in Plain => c # PercentSign
  BY DEF Plain, Digits, PercentSign
<1> QED BY <1>1, CodesPlain, CodesEscape DEF Escaped

\* A text that a client has escaped byte by byte is unescaped to what it was,
\* whatever its bytes are.
THEOREM EscapeIsUndone == \A str \in Seq(Byte) : Unescaped(Escape(str)) = Returns(str)
<1> SUFFICES ASSUME NEW str \in Seq(Byte) PROVE Unescaped(Escape(str)) = Returns(str)
  OBVIOUS
<1> DEFINE n == Len(str)
           f == [i \in DOMAIN str |-> Escaped(str[i])]
           G == {m \in Nat : m <= n => Codes(JoinTo(f, m), SubSeq(str, 1, m))}
<1>1. n \in Nat /\ DOMAIN str = 1..n /\ \A i \in 1..n : str[i] \in Byte
  BY ElementOfSeq
<1>2. \A i \in 1..n : f[i] = Escaped(str[i]) /\ f[i] \in Seq(Byte) /\ Codes(f[i], <<str[i]>>)
  <2>1. \A i \in 1..n : f[i] = Escaped(str[i])
    BY <1>1
  <2>2. \A i \in 1..n : Codes(Escaped(str[i]), <<str[i]>>)
    BY <1>1, CodesByte
  <2> HIDE DEF f, n
  <2> QED BY <2>1, <2>2 DEF Codes
<1> HIDE DEF f
<1>3. 0 \in G
  <2>1. JoinTo(f, 0) = <<>> /\ SubSeq(str, 1, 0) = <<>>
    BY JoinZero
  <2> QED BY <2>1, CodesNothing
<1>4. ASSUME NEW m \in Nat, m \in G PROVE m + 1 \in G
  <2> SUFFICES ASSUME m + 1 <= n PROVE Codes(JoinTo(f, m + 1), SubSeq(str, 1, m + 1))
    OBVIOUS
  <2>1. Codes(JoinTo(f, m), SubSeq(str, 1, m))
    BY <1>1, <1>4
  <2>2. JoinTo(f, m + 1) = JoinTo(f, m) \o f[m + 1]
    <3>1. \A k \in 1..(m + 1) : f[k] \in Seq(Byte)
      <4>1. \A k \in 1..(m + 1) : k \in 1..n
        <5> HIDE DEF n
        <5> QED BY <1>1
      <4> QED BY <1>2, <4>1, Zenon
    <3> QED BY <3>1, JoinEquations
  <2>3. m + 1 \in 1..n /\ Codes(f[m + 1], <<str[m + 1]>>)
    BY <1>1, <1>2
  <2>4. Codes(JoinTo(f, m) \o f[m + 1], SubSeq(str, 1, m) \o <<str[m + 1]>>)
    BY <2>1, <2>3, CodesBoth
  <2>5. SubSeq(str, 1, m) \o <<str[m + 1]>> = SubSeq(str, 1, m + 1)
    <3>1. OneByteMore(str, m, m + 1)
      <4>1. m + 1 \in Nat
        OBVIOUS
      <4> QED BY <2>3, <4>1, ByteMore
    <3>2. SubSeq(str, 1, m) \in Seq(Byte) /\ str[m + 1] \in Byte
      BY <1>1, <2>3
    <3> DEFINE s == SubSeq(str, 1, m)   c == str[m + 1]
    <3> HIDE DEF s, c
    <3>3. s \o <<c>> = Append(s, c)
      BY <3>2 DEF s, c
    <3> QED BY <3>1, <3>3, Zenon DEF OneByteMore, s, c
  <2> QED BY <2>2, <2>4, <2>5, Zenon
<1> HIDE DEF G
<1>5. n \in G
  BY <1>1, <1>3, <1>4, SetInduction
<1>6. Codes(JoinTo(f, n), SubSeq(str, 1, n))
  BY <1>1, <1>5 DEF G
<1>7. SubSeq(str, 1, n) = str
  OBVIOUS
<1> QED BY <1>6, <1>7 DEF Codes, Escape, f

(***************************************************************************)
(* A list of pairs that a client prints                                    *)
(***************************************************************************)

\* Every element is where the lengths of the sequences before its own say.
ElementsIn(f, g, n, s) ==
    \A i \in 1..n : \A p \in 1..Len(f[i]) : s[SumTo(g, i - 1) + p] = f[i][p]

LEMMA JoinHolds ==
    ASSUME NEW n \in Nat, NEW S, NEW f, NEW g,
           \A k \in 1..n : f[k] \in Seq(S) /\ g[k] = Len(f[k])
    PROVE  ElementsIn(f, g, n, JoinTo(f, n))
<1> DEFINE Holds(m) == /\ Len(JoinTo(f, m)) = SumTo(g, m)
                       /\ \A i \in 1..m : SumTo(g, i) <= SumTo(g, m)
                       /\ \A i \in 1..m : \A p \in 1..Len(f[i]) :
                             JoinTo(f, m)[SumTo(g, i - 1) + p] = f[i][p]
           G == {m \in Nat : m <= n => Holds(m)}
<1>1. \A k \in 1..n : f[k] \in Seq(S) /\ g[k] \in Nat /\ g[k] = Len(f[k])
  BY LenProperties
<1>2. \A m \in 0..n : SumTo(g, m) \in Nat
  BY <1>1, SumNat
<1>3. 0 \in G
  BY JoinZero, SumZero
<1>4. ASSUME NEW m \in Nat, m \in G PROVE m + 1 \in G
  <2> HIDE DEF Holds
  <2> SUFFICES ASSUME m + 1 <= n PROVE Holds(m + 1)
    OBVIOUS
  <2> DEFINE s == JoinTo(f, m)
             last == f[m + 1]
             sum == SumTo(g, m)
             t == s \o last
  <2>1. Holds(m)
    BY <1>4
  <2>2. last \in Seq(S) /\ g[m + 1] = Len(last) /\ m + 1 \in 1..n /\ sum \in Nat
    BY <1>1, <1>2
  <2>3. s \in Seq(S)
    BY <1>1, JoinToIsJoin
  <2>4. JoinTo(f, m + 1) = t
    BY <1>1, JoinEquations
  <2>5. SumTo(g, m + 1) = sum + Len(last)
    BY <1>1, <2>2, SumEquations
  <2>6. Len(s) = sum
    BY <2>1 DEF Holds
  <2>7. \A i \in 1..m : SumTo(g, i) <= sum /\ SumTo(g, i - 1) \in Nat /\ SumTo(g, i) = SumTo(g, i - 1) + Len(f[i])
    <3> SUFFICES ASSUME NEW i \in 1..m
                 PROVE  SumTo(g, i) <= sum /\ SumTo(g, i - 1) \in Nat /\ SumTo(g, i) = SumTo(g, i - 1) + Len(f[i])
      OBVIOUS
    <3>1. SumTo(g, i) <= sum
      BY <2>1 DEF Holds
    <3> DEFINE j == i - 1
    <3>2. j \in Nat /\ j + 1 = i /\ j \in 0..n /\ \A k \in 1..(j + 1) : g[k] \in Nat
      BY <1>1
    <3> HIDE DEF j
    <3>3. SumTo(g, j + 1) = SumTo(g, j) + g[j + 1]
      BY <3>2, SumEquations
    <3>4. g[i] = Len(f[i]) /\ SumTo(g, j) \in Nat
      BY <1>1, <1>2, <3>2
    <3> QED BY <3>1, <3>2, <3>3, <3>4 DEF j
  <2> HIDE DEF s, sum, last
  <2>8. /\ Len(s) \in Nat /\ Len(last) \in Nat
        /\ Len(t) = Len(s) + Len(last)
        /\ \A q \in 1..Len(s) : t[q] = s[q]
        /\ \A p \in 1..Len(last) : t[Len(s) + p] = last[p]
    BY <2>2, <2>3
  <2> HIDE DEF t
  <2>9. ASSUME NEW i \in 1..(m + 1), NEW p \in 1..Len(f[i]) PROVE t[SumTo(g, i - 1) + p] = f[i][p]
    <3>1. CASE i <= m
      <4>1. i \in 1..m
        BY <3>1
      <4>2. s[SumTo(g, i - 1) + p] = f[i][p]
        BY <2>1, <4>1 DEF Holds, s
      <4>3. Len(f[i]) \in Nat
        BY <1>1
      <4>4. SumTo(g, i - 1) + p \in 1..Len(s)
        BY <2>2, <2>6, <2>7, <4>1, <4>3
      <4> QED BY <2>8, <4>2, <4>4
    <3>2. CASE ~(i <= m)
      <4>1. i = m + 1 /\ (m + 1) - 1 = m
        BY <3>2
      <4>2. t[sum + p] = last[p]
        BY <2>6, <2>8, <4>1 DEF last
      <4> QED BY <4>1, <4>2 DEF sum, last
    <3> QED BY <3>1, <3>2
  <2>10. \A i \in 1..(m + 1) : SumTo(g, i) <= SumTo(g, m + 1)
    <3> SUFFICES ASSUME NEW i \in 1..(m + 1) PROVE SumTo(g, i) <= SumTo(g, m + 1)
      OBVIOUS
    <3>1. i \in 0..n /\ m + 1 \in 0..n
      BY <2>2
    <3>2. SumTo(g, i) \in Nat /\ SumTo(g, m + 1) \in Nat
      BY <1>2, <3>1
    <3>3. i \in 1..m \/ i = m + 1
      OBVIOUS
    <3> QED BY <2>2, <2>5, <2>7, <2>8, <3>2, <3>3
  <2> QED BY <2>4, <2>5, <2>6, <2>8, <2>9, <2>10 DEF Holds
<1> HIDE DEF G
<1>5. n \in G
  BY <1>3, <1>4, SetInduction
<1> QED BY <1>5 DEF G, ElementsIn

\* From pos to before e there are blanks, from start on neither blanks nor
\* delimiters, and then a delimiter or the end.
IsPiece(str, delimiters, pos, start, e) ==
    /\ pos \in Nat \ {0} /\ start \in Nat /\ e \in Nat
    /\ pos <= start /\ start < e /\ e <= Len(str) + 1
    /\ \A k \in pos..(start - 1) : str[k] \in Spaces
    /\ \A k \in start..(e - 1) : str[k] \notin Spaces /\ str[k] \notin delimiters
    /\ e # Len(str) + 1 => str[e] \in delimiters

\* A field, and then the rest.
FieldThen(field, last, rest) ==
    IF ~field.ok THEN Rejects
    ELSE IF last THEN Returns(<<field.val>>)
    ELSE IF rest.ok THEN Returns(<<field.val>> \o rest.val)
    ELSE Rejects

\* Such a piece is read as one field.
LEMMA PieceIsRead ==
    ASSUME NEW S, NEW str \in Seq(S), NEW delimiters, NEW later,
           NEW pos, NEW start, NEW e, IsPiece(str, delimiters, pos, start, e)
    PROVE  Extract(str, delimiters, later, pos) =
               FieldThen(FieldVal(SubSeq(str, start, e - 1)), e = Len(str) + 1, later[e + 1])
<1>1. /\ pos \in Nat \ {0} /\ start \in Nat \ {0} /\ e \in Nat /\ Len(str) \in Nat
      /\ pos <= start /\ start < e /\ e <= Len(str) + 1
  BY DEF IsPiece
<1>2. NextPiece(str, pos) = start
  <2> DEFINE i == NextPiece(str, pos)
  <2>1. \/ i = 0 /\ \A k \in pos..Len(str) : str[k] \in Spaces
        \/ /\ i \in pos..Len(str) /\ str[i] \notin Spaces
           /\ \A k \in pos..(i - 1) : str[k] \in Spaces
    BY <1>1, NextPieceFinds
  <2> HIDE DEF i
  <2>2. start \in pos..Len(str) /\ str[start] \notin Spaces
    BY <1>1 DEF IsPiece
  <2>3. i \in pos..Len(str) /\ str[i] \notin Spaces /\ ~(start < i)
    BY <1>1, <2>1, <2>2
  <2>4. ~(i < start)
    BY <1>1, <2>3 DEF IsPiece
  <2> QED BY <1>1, <2>3, <2>4 DEF i
<1> DEFINE end == FindAny(str, delimiters, start)
<1>3. end = IF e = Len(str) + 1 THEN 0 ELSE e
  <2>1. e \in start..(Len(str) + 1)
    BY <1>1
  <2>2. e # Len(str) + 1 => str[e] \in delimiters
    BY DEF IsPiece
  <2>3. \A k \in start..(e - 1) : str[k] \notin delimiters
    BY DEF IsPiece
  <2> QED BY <1>1, <2>1, <2>2, <2>3, FoundAt
<1> DEFINE chunk == SubSeq(str, start, e - 1)
<1>4. SubSeq(str, start, IF end = 0 THEN Len(str) ELSE end - 1) = chunk
  <2> HIDE DEF end
  <2>1. (IF end = 0 THEN Len(str) ELSE end - 1) = e - 1
    BY <1>1, <1>3
  <2> QED BY <2>1
<1>5. chunk # <<>>
  BY <1>1
<1>6. Trim(chunk, Spaces) = chunk
  <2>1. e - 1 \in Nat /\ e - 1 <= Len(str) /\ start \in start..(e - 1) /\ e - 1 \in start..(e - 1)
    BY <1>1
  <2>2. KeptFrom(str, Spaces, start, e - 1, start, e - 1)
    <3>1. str[start] \notin Spaces /\ str[e - 1] \notin Spaces
      BY <2>1 DEF IsPiece
    <3>2. (\A k \in start..(start - 1) : str[k] \in Spaces) /\ \A k \in ((e - 1) + 1)..(e - 1) : str[k] \in Spaces
      BY <1>1
    <3> QED BY <2>1, <3>1, <3>2 DEF KeptFrom
  <2>3. TrimmedTo(str, Spaces, start, e - 1, start, e - 1)
    BY <1>1, <2>1, <2>2, TrimIs
  <2> QED BY <2>3 DEF TrimmedTo
<1>7. start # 0 /\ (end = 0 <=> e = Len(str) + 1) /\ (end # 0 => end = e)
  <2> HIDE DEF end
  <2> QED BY <1>1, <1>3
<1> HIDE DEF chunk
<1>8. Extract(str, delimiters, later, pos) =
          LET field == FieldVal(chunk)
          IN IF field.ok
             THEN IF end = 0 THEN Returns(<<field.val>>)
                  ELSE IF later[end + 1].ok THEN Returns(<<field.val>> \o later[end + 1].val)
                  ELSE Rejects
             ELSE Rejects
  <2> DEFINE q == IF end = 0 THEN Len(str) ELSE end - 1
  <2>1. end = FindAny(str, delimiters, start) /\ SubSeq(str, start, q) = chunk
    BY <1>4
  <2>2. q = IF end = 0 THEN Len(str) ELSE end - 1
    OBVIOUS
  <2> HIDE DEF q, end
  <2> QED BY <1>2, <1>5, <1>6, <1>7, <2>1, <2>2, Zenon DEF Extract
<1> HIDE DEF end
<1> QED BY <1>7, <1>8, Zenon DEF FieldThen, chunk

\* Where the reading of a piece begins.
FirstOf(ends, i) == IF i = 1 THEN 1 ELSE ends[i - 1] + 1

\* The pieces are next to each other, up to the end of the text, ...
PiecesAre(str, delimiters, n, starts, ends) ==
    \A i \in 1..n : /\ IsPiece(str, delimiters, FirstOf(ends, i), starts[i], ends[i])
                    /\ ends[i] = Len(str) + 1 <=> i = n

\* ... and these are their fields.
FieldsAre(str, n, starts, ends, values) ==
    \A i \in 1..n : FieldVal(SubSeq(str, starts[i], ends[i] - 1)) = Returns(values[i])

\* A list of pieces is read as the list of their fields.
LEMMA ListIsRead ==
    ASSUME NEW S, NEW str \in Seq(S), NEW delimiters, NEW n \in Nat \ {0}, NEW starts, NEW ends,
           PiecesAre(str, delimiters, n, starts, ends),
           NEW T, NEW values \in Seq(T), Len(values) = n, FieldsAre(str, n, starts, ends, values)
    PROVE  extractFieldVals(str, delimiters) = Returns(values)
<1>1. \A i \in 1..n : FirstOf(ends, i) \in 1..Len(str) /\ Len(str) \in Nat
  <2> SUFFICES ASSUME NEW i \in 1..n PROVE FirstOf(ends, i) \in 1..Len(str) /\ Len(str) \in Nat
    OBVIOUS
  <2> DEFINE p == FirstOf(ends, i)   b == starts[i]   e == ends[i]
  <2>1. IsPiece(str, delimiters, p, b, e)
    BY DEF PiecesAre
  <2> HIDE DEF p, b, e
  <2>2. p \in Nat \ {0} /\ b \in Nat /\ e \in Nat /\ p <= b /\ b < e /\ e <= Len(str) + 1
    BY <2>1 DEF IsPiece
  <2>3. Len(str) \in Nat
    OBVIOUS
  <2>4. p \in 1..Len(str)
    BY <2>2, <2>3
  <2> QED BY <2>3, <2>4 DEF p
<1>2. str # <<>>
  BY <1>1
<1>3. PICK from : IsExtract(str, delimiters, from) /\ extractFieldVals(str, delimiters) = from[1]
  BY <1>2, ExtractIs
<1> DEFINE H == {i \in 1..n : from[FirstOf(ends, i)] = Returns(SubSeq(values, i, n))}
<1>4. ASSUME NEW i \in 1..n, \A j \in 1..n : j > i => j \in H PROVE i \in H
  <2> DEFINE p == FirstOf(ends, i)
             e == ends[i]
  <2>1. p \in Positions(str)
    BY <1>1 DEF Positions
  <2>2. from[p] = Extract(str, delimiters, from, p)
    BY <1>3, <2>1 DEF IsExtract
  <2>3. Extract(str, delimiters, from, p) =
            FieldThen(FieldVal(SubSeq(str, starts[i], e - 1)), e = Len(str) + 1, from[e + 1])
    <3>1. IsPiece(str, delimiters, p, starts[i], e)
      BY DEF PiecesAre
    <3> QED BY <3>1, PieceIsRead
  <2>4. FieldVal(SubSeq(str, starts[i], e - 1)) = Returns(values[i]) /\ (e = Len(str) + 1 <=> i = n)
    BY DEF PiecesAre, FieldsAre
  <2> HIDE DEF p, e
  <2>5. from[p] = FieldThen(Returns(values[i]), i = n, from[e + 1])
    BY <2>2, <2>3, <2>4, Zenon
  <2>6. SubSeq(values, i, n) = <<values[i]>> \o SubSeq(values, i + 1, n)
    BY SubSeqRecursiveFirst
  <2>7. CASE i = n
    <3>1. from[p] = Returns(<<values[i]>>)
      BY <2>5, <2>7, Zenon DEF FieldThen, Returns
    <3>2. SubSeq(values, i, n) = <<values[i]>>
      <4>1. SubSeq(values, i + 1, n) = <<>>
        BY <2>7, SubSeqEmpty
      <4>2. <<values[i]>> \in Seq(T)
        BY ElementOfSeq
      <4> DEFINE v == <<values[i]>>
      <4> HIDE DEF v
      <4>3. v \o <<>> = v
        BY <4>2, ConcatEmptySeq DEF v
      <4> QED BY <2>6, <4>1, <4>3, Zenon DEF v
    <3> QED BY <3>1, <3>2 DEF p
  <2>8. CASE i # n
    <3>1. i + 1 \in 1..n /\ i + 1 > i /\ (i + 1) - 1 = i /\ i + 1 # 1
      BY <2>8
    <3>2. FirstOf(ends, i + 1) = e + 1
      BY <3>1 DEF FirstOf, e
    <3>3. from[e + 1] = Returns(SubSeq(values, i + 1, n))
      BY <1>4, <3>1, <3>2
    <3> DEFINE rest == SubSeq(values, i + 1, n)
    <3>4. from[e + 1] = Returns(rest)
      BY <3>3
    <3> HIDE DEF rest
    <3>5. Returns(rest).ok /\ Returns(rest).val = rest /\ Returns(values[i]).ok /\ Returns(values[i]).val = values[i]
      BY DEF Returns
    <3>6. from[p] = Returns(<<values[i]>> \o rest)
      BY <2>5, <2>8, <3>4, <3>5, Zenon DEF FieldThen
    <3> QED BY <2>6, <3>6 DEF p, rest
  <2> QED BY <2>7, <2>8
<1> HIDE DEF H
<1>5. 1 \in H
  <2>1. \A i \in 1..n : i \in H
    BY <1>4, FromTheEnd
  <2> QED BY <2>1
<1>6. SubSeq(values, 1, n) = values
  BY SubSeqFull
<1> QED BY <1>3, <1>5, <1>6 DEF H, FirstOf

(***************************************************************************)
(* The text of a list                                                      *)
(***************************************************************************)

\* The pieces, with a separator behind each but the last.
WithSeparators(pieces, sep) ==
    [i \in DOMAIN pieces |-> IF i < Len(pieces) THEN pieces[i] \o sep ELSE pieces[i]]

ListOf(pieces, sep) == JoinTo(WithSeparators(pieces, sep), Len(pieces))

\* A delimiter, and then blanks.
Separates(sep, delimiters) ==
    /\ sep \in Seq(Byte) /\ Len(sep) >= 1 /\ sep[1] \in delimiters
    /\ \A k \in 2..Len(sep) : sep[k] \in Spaces

\* Neither empty nor with a blank or a delimiter in it.
IsSolid(piece, delimiters) ==
    /\ piece \in Seq(Byte) /\ Len(piece) >= 1
    /\ \A k \in 1..Len(piece) : piece[k] \notin Spaces /\ piece[k] \notin delimiters

\* The text str is the list: the i-th piece begins behind before(i) and is followed
\* by the separator, or it is the last.
IsListOf(str, pieces, sep, before) ==
    LET n == Len(pieces)
    IN /\ before[1] = 0 /\ \A i \in 1..n : before[i] \in Nat
       /\ \A i \in 1..n : \A p \in 1..Len(pieces[i]) : str[before[i] + p] = pieces[i][p]
       /\ \A i \in 1..n : i < n =>
             /\ before[i + 1] = (before[i] + Len(pieces[i])) + Len(sep)
             /\ before[i + 1] <= Len(str)
             /\ \A p \in 1..Len(sep) : str[(before[i] + Len(pieces[i])) + p] = sep[p]
       /\ before[n] + Len(pieces[n]) = Len(str)

LEMMA ListHasPlaces ==
    ASSUME NEW pieces \in Seq(Seq(Byte)), Len(pieces) >= 1, NEW sep \in Seq(Byte)
    PROVE  /\ ListOf(pieces, sep) \in Seq(Byte)
           /\ \E before : IsListOf(ListOf(pieces, sep), pieces, sep, before)
<1> DEFINE n == Len(pieces)
           f == WithSeparators(pieces, sep)
           g == [i \in 1..n |-> Len(f[i])]
           before == [i \in 1..n |-> SumTo(g, i - 1)]
           str == JoinTo(f, n)
<1>1. n \in Nat /\ n >= 1 /\ DOMAIN pieces = 1..n /\ \A i \in 1..n : pieces[i] \in Seq(Byte)
  BY ElementOfSeq
<1>2. \A i \in 1..n : f[i] = IF i < n THEN pieces[i] \o sep ELSE pieces[i]
  BY <1>1 DEF WithSeparators
<1>3. str = ListOf(pieces, sep)
  BY DEF ListOf
<1> HIDE DEF n, f
<1>4. ASSUME NEW i \in 1..n
      PROVE  /\ f[i] \in Seq(Byte) /\ Len(pieces[i]) \in Nat
             /\ \A p \in 1..Len(pieces[i]) : p \in 1..Len(f[i]) /\ f[i][p] = pieces[i][p]
             /\ i < n => /\ Len(f[i]) = Len(pieces[i]) + Len(sep)
                         /\ \A p \in 1..Len(sep) : Len(pieces[i]) + p \in 1..Len(f[i]) /\ f[i][Len(pieces[i]) + p] = sep[p]
             /\ i = n => Len(f[i]) = Len(pieces[i])
  <2> DEFINE piece == pieces[i]
  <2>1. piece \in Seq(Byte) /\ f[i] = IF i < n THEN piece \o sep ELSE piece
    BY <1>1, <1>2
  <2> HIDE DEF piece
  <2>2. Len(piece) \in Nat /\ Len(sep) \in Nat
    BY <2>1
  <2>3. Concatenated(piece, sep)
    BY <2>1, Concatenate
  <2>4. CASE i < n
    <3> DEFINE c == piece \o sep
    <3>1. /\ c \in Seq(Byte) /\ Len(c) = Len(piece) + Len(sep)
          /\ \A p \in 1..Len(piece) : c[p] = piece[p]
          /\ \A p \in 1..Len(sep) : c[Len(piece) + p] = sep[p]
      BY <2>3 DEF Concatenated
    <3>2. f[i] = c
      BY <2>1, <2>4
    <3> HIDE DEF c
    <3>3. (\A p \in 1..Len(piece) : p \in 1..Len(c)) /\ \A p \in 1..Len(sep) : Len(piece) + p \in 1..Len(c)
      BY <2>2, <3>1
    <3>4. ~(i = n)
      BY <1>1, <2>4
    <3> QED BY <2>2, <3>1, <3>2, <3>3, <3>4, Zenon DEF piece
  <2>5. CASE ~(i < n)
    <3>1. f[i] = piece
      BY <2>1, <2>5
    <3> QED BY <2>1, <2>2, <2>5, <3>1 DEF piece
  <2> QED BY <2>4, <2>5
<1>5. \A i \in 1..n : f[i] \in Seq(Byte) /\ g[i] = Len(f[i]) /\ g[i] \in Nat
  BY <1>4
<1> HIDE DEF g, str
<1>6. str \in Seq(Byte)
  BY <1>1, <1>5, JoinToIsJoin DEF str
<1>7. \A i \in 1..n : \A p \in 1..Len(f[i]) : str[SumTo(g, i - 1) + p] = f[i][p]
  <2>1. n \in Nat /\ \A k \in 1..n : f[k] \in Seq(Byte) /\ g[k] = Len(f[k])
    BY <1>1, <1>5
  <2>2. ElementsIn(f, g, n, str)
    BY <2>1, JoinHolds DEF str
  <2> QED BY <2>2, Zenon DEF ElementsIn
<1>8. Len(str) = SumTo(g, n)
  BY <1>1, <1>5, JoinPlaces DEF str
<1>9. \A m \in 0..n : SumTo(g, m) \in Nat /\ SumTo(g, m) <= SumTo(g, n)
  <2>1. \A m \in 0..n : SumTo(g, m) \in Nat
    BY <1>1, <1>5, SumNat
  <2>2. \A m \in 0..n : n \in 0..n /\ m \in 0..n
    BY <1>1
  <2>3. \A m \in 0..n : SumTo(g, m) <= SumTo(g, n)
    BY <1>1, <1>5, <2>2, SumGrows
  <2> QED BY <2>1, <2>3
<1>10. \A i \in 1..n : SumTo(g, i) = SumTo(g, i - 1) + g[i]
  <2> SUFFICES ASSUME NEW i \in 1..n PROVE SumTo(g, i) = SumTo(g, i - 1) + g[i]
    OBVIOUS
  <2> DEFINE j == i - 1
  <2>1. j \in Nat /\ j + 1 = i /\ \A k \in 1..(j + 1) : g[k] \in Nat
    <3>1. j \in Nat /\ j + 1 = i /\ \A k \in 1..(j + 1) : k \in 1..n
      BY <1>1
    <3> HIDE DEF g, j
    <3> QED BY <1>5, <3>1
  <2> HIDE DEF j, g
  <2>2. SumTo(g, j + 1) = SumTo(g, j) + g[j + 1]
    BY <2>1, SumEquations
  <2> QED BY <2>1, <2>2 DEF j
<1>11. \A i \in 1..n : before[i] = SumTo(g, i - 1) /\ before[i] \in Nat
  <2>1. \A i \in 1..n : i - 1 \in 0..n
    BY <1>1
  <2> HIDE DEF g
  <2> QED BY <1>9, <2>1
<1>12. before[1] = 0
  <2>1. 1 \in 1..n /\ 1 - 1 = 0
    BY <1>1
  <2> HIDE DEF g
  <2> QED BY <2>1, SumZero
<1> HIDE DEF before, g, str
<1>13. \A i \in 1..n : \A p \in 1..Len(pieces[i]) : str[before[i] + p] = pieces[i][p]
  BY <1>4, <1>7, <1>11
<1>14. ASSUME NEW i \in 1..n, i < n
       PROVE  /\ before[i + 1] = (before[i] + Len(pieces[i])) + Len(sep)
              /\ before[i + 1] <= Len(str)
              /\ \A p \in 1..Len(sep) : str[(before[i] + Len(pieces[i])) + p] = sep[p]
  <2>1. i + 1 \in 1..n /\ (i + 1) - 1 = i /\ i \in 0..n
    BY <1>1, <1>14
  <2>2. before[i + 1] = SumTo(g, i)
    BY <1>11, <2>1
  <2>3. SumTo(g, i) = before[i] + g[i]
    BY <1>10, <1>11
  <2>4. g[i] = Len(pieces[i]) + Len(sep) /\ Len(pieces[i]) \in Nat
    BY <1>4, <1>5, <1>14
  <2>5. Len(sep) \in Nat /\ before[i] \in Nat
    BY <1>11
  <2>6. before[i + 1] = (before[i] + Len(pieces[i])) + Len(sep)
    BY <2>2, <2>3, <2>4, <2>5
  <2>7. before[i + 1] <= Len(str)
    BY <1>8, <1>9, <2>1, <2>2
  <2>8. ASSUME NEW p \in 1..Len(sep) PROVE str[(before[i] + Len(pieces[i])) + p] = sep[p]
    <3>1. str[before[i] + (Len(pieces[i]) + p)] = sep[p]
      BY <1>4, <1>7, <1>11, <1>14
    <3>2. before[i] + (Len(pieces[i]) + p) = (before[i] + Len(pieces[i])) + p
      BY <2>4, <2>5
    <3> QED BY <3>1, <3>2
  <2> QED BY <2>6, <2>7, <2>8
<1>15. before[n] + Len(pieces[n]) = Len(str)
  <2>1. n \in 1..n
    BY <1>1
  <2>2. SumTo(g, n) = before[n] + g[n] /\ g[n] = Len(pieces[n])
    BY <1>4, <1>5, <1>10, <1>11, <2>1
  <2> QED BY <1>8, <2>2
<1>16. \A i \in 1..n : before[i] \in Nat
  BY <1>11
<1>17. IsListOf(str, pieces, sep, before)
  BY <1>12, <1>13, <1>14, <1>15, <1>16 DEF IsListOf, n
<1> QED BY <1>3, <1>6, <1>17

\* A text lies in a longer one behind a place.
LiesAt(long, d, str) == d + Len(str) <= Len(long) /\ \A p \in 1..Len(str) : long[d + p] = str[p]
IsPartAt(long, d, str) == SubSeq(long, d + 1, d + Len(str)) = str

LEMMA PartIs ==
    ASSUME NEW long \in Seq(Byte), NEW d \in Nat, NEW str \in Seq(Byte), LiesAt(long, d, str)
    PROVE  IsPartAt(long, d, str)
<1> DEFINE m == Len(str)   x == SubSeq(long, d + 1, d + m)
<1>1. m \in Nat /\ Len(long) \in Nat /\ d + m <= Len(long) /\ \A p \in 1..m : long[d + p] = str[p]
  BY DEF LiesAt
<1> HIDE DEF m
<1>2. \A k \in (d + 1)..(d + m) : long[k] \in Byte
  <2>1. \A k \in (d + 1)..(d + m) : k \in 1..Len(long)
    BY <1>1
  <2> QED BY <2>1, ElementOfSeq
<1>3. d + 1 \in Int /\ d + m \in Int /\ (d + m) - (d + 1) + 1 = m /\ (d + 1 <= d + m <=> m >= 1)
  BY <1>1
<1>4. /\ x \in Seq(Byte) /\ Len(x) = m
      /\ \A p \in 1..m : x[p] = long[((d + 1) + p) - 1]
  <2>1. /\ x \in Seq(Byte) /\ Len(x) = IF d + 1 <= d + m THEN (d + m) - (d + 1) + 1 ELSE 0
        /\ \A p \in 1..((d + m) - (d + 1) + 1) : x[p] = long[((d + 1) + p) - 1]
    BY <1>2, <1>3, SubSeqProperties
  <2> QED BY <1>1, <1>3, <2>1
<1>5. \A p \in 1..m : ((d + 1) + p) - 1 = d + p
  BY <1>1
<1> HIDE DEF x
<1>6. \A p \in 1..m : x[p] = str[p]
  BY <1>1, <1>4, <1>5
<1>7. x = str
  BY <1>4, <1>6, SeqEqual DEF m
<1> QED BY <1>7 DEF x, m, IsPartAt

\* Neither a letter, a digit, a percent sign nor an equals sign, and no blank.
IsForeign(delimiters) ==
    \A c \in delimiters : c \notin Plain \cup {PercentSign, EqualsSign} /\ c \notin Spaces

\* Solid pieces that are these values, each as a field.
AreFields(pieces, delimiters, values) ==
    /\ Len(pieces) >= 1 /\ Len(values) = Len(pieces)
    /\ \A i \in 1..Len(pieces) : IsSolid(pieces[i], delimiters) /\ FieldVal(pieces[i]) = Returns(values[i])

\* A list of solid pieces is read as it was printed.
LEMMA ListArrives ==
    ASSUME NEW delimiters, NEW sep, Separates(sep, delimiters),
           NEW pieces \in Seq(Seq(Byte)), NEW T, NEW values \in Seq(T),
           AreFields(pieces, delimiters, values)
    PROVE  extractFieldVals(ListOf(pieces, sep), delimiters) = Returns(values)
<1> DEFINE n == Len(pieces)
           str == ListOf(pieces, sep)
<1>0. /\ n >= 1 /\ Len(values) = n
      /\ \A i \in 1..n : IsSolid(pieces[i], delimiters) /\ FieldVal(pieces[i]) = Returns(values[i])
  BY DEF AreFields
<1>1. n \in Nat \ {0} /\ Len(values) = n /\ \A i \in 1..n : pieces[i] \in Seq(Byte)
  BY <1>0, ElementOfSeq
<1>2. sep \in Seq(Byte) /\ Len(sep) \in Nat /\ Len(sep) >= 1
  BY DEF Separates
<1>3. str \in Seq(Byte) /\ \E before : IsListOf(str, pieces, sep, before)
  BY <1>0, <1>2, ListHasPlaces
<1> HIDE DEF str
<1>4. PICK before : IsListOf(str, pieces, sep, before)
  BY <1>3
<1>5. Len(str) \in Nat
  BY <1>3
<1> HIDE DEF str, n
<1>6. /\ before[1] = 0 /\ \A i \in 1..n : before[i] \in Nat
      /\ \A i \in 1..n : \A p \in 1..Len(pieces[i]) : str[before[i] + p] = pieces[i][p]
      /\ \A i \in 1..n : i < n =>
             /\ before[i + 1] = (before[i] + Len(pieces[i])) + Len(sep)
             /\ before[i + 1] <= Len(str)
             /\ \A p \in 1..Len(sep) : str[(before[i] + Len(pieces[i])) + p] = sep[p]
      /\ before[n] + Len(pieces[n]) = Len(str)
  BY <1>4 DEF IsListOf, n
<1> DEFINE starts == [i \in 1..n |-> before[i] + 1]
           ends == [i \in 1..n |-> (before[i] + Len(pieces[i])) + 1]
<1>7. \A i \in 1..n : starts[i] = before[i] + 1 /\ ends[i] = (before[i] + Len(pieces[i])) + 1
  OBVIOUS
<1> HIDE DEF starts, ends
<1>8. \A i \in 1..n : Len(pieces[i]) \in Nat /\ Len(pieces[i]) >= 1 /\ before[i] \in Nat
  BY <1>0, <1>1, <1>6 DEF IsSolid
<1>9. ASSUME NEW i \in 1..n PROVE ends[i] = Len(str) + 1 <=> i = n
  <2>1. i = n => ends[i] = Len(str) + 1
    BY <1>6, <1>7
  <2>2. ASSUME i < n PROVE ends[i] # Len(str) + 1
    <3> DEFINE d == before[i] + Len(pieces[i])
    <3>1. before[i + 1] = d + Len(sep) /\ before[i + 1] <= Len(str)
      BY <1>6, <2>2
    <3>2. d \in Nat /\ ends[i] = d + 1
      BY <1>7, <1>8
    <3> HIDE DEF d
    <3> QED BY <1>2, <1>5, <3>1, <3>2
  <2> QED BY <1>1, <2>1, <2>2
<1>10. ASSUME NEW i \in 1..n PROVE ends[i] <= Len(str) + 1 /\ (i < n => str[ends[i]] = sep[1])
  <2>1. CASE i = n
    <3>1. ends[i] = Len(str) + 1 /\ ~(i < n)
      BY <1>1, <1>9, <2>1
    <3> QED BY <1>5, <3>1
  <2>2. CASE i < n
    <3>1. 1 \in 1..Len(sep)
      BY <1>2
    <3>2. str[(before[i] + Len(pieces[i])) + 1] = sep[1]
      BY <1>6, <2>2, <3>1
    <3>3. before[i + 1] = (before[i] + Len(pieces[i])) + Len(sep) /\ before[i + 1] <= Len(str)
      BY <1>6, <2>2
    <3>4. ends[i] <= Len(str) + 1
      BY <1>2, <1>5, <1>7, <1>8, <3>3
    <3> QED BY <1>7, <3>2, <3>4
  <2> QED BY <1>1, <2>1, <2>2
<1>11. ASSUME NEW i \in 1..n
       PROVE  /\ FirstOf(ends, i) \in Nat \ {0} /\ FirstOf(ends, i) <= starts[i]
              /\ \A k \in FirstOf(ends, i)..(starts[i] - 1) : str[k] \in Spaces
  <2>1. CASE i = 1
    <3>1. FirstOf(ends, i) = 1 /\ starts[i] = 1
      BY <1>6, <1>7, <2>1 DEF FirstOf
    <3> QED BY <3>1
  <2>2. CASE i # 1
    <3> DEFINE j == i - 1
               d == before[j] + Len(pieces[j])
    <3>1. j \in 1..n /\ j < n /\ j + 1 = i
      BY <1>1, <2>2
    <3>2. FirstOf(ends, i) = ends[j] + 1
      BY <2>2 DEF FirstOf
    <3> HIDE DEF j
    <3>3. before[j + 1] = d + Len(sep) /\ \A p \in 1..Len(sep) : str[d + p] = sep[p]
      BY <1>6, <3>1
    <3>4. d \in Nat /\ ends[j] = d + 1
      BY <1>7, <1>8, <3>1
    <3> HIDE DEF d
    <3>5. FirstOf(ends, i) = d + 2 /\ starts[i] = (d + Len(sep)) + 1
      BY <1>2, <1>7, <3>1, <3>2, <3>3, <3>4
    <3>6. ASSUME NEW k \in (d + 2)..(d + Len(sep)) PROVE str[k] \in Spaces
      <4> DEFINE p == k - d
      <4>1. p \in 2..Len(sep) /\ p \in 1..Len(sep) /\ d + p = k
        BY <1>2, <3>4
      <4> HIDE DEF p
      <4>2. str[d + p] = sep[p] /\ sep[p] \in Spaces
        BY <3>3, <4>1 DEF Separates
      <4> QED BY <4>1, <4>2
    <3>7. (starts[i] - 1) = d + Len(sep)
      BY <1>2, <3>4, <3>5
    <3> QED BY <1>2, <3>4, <3>5, <3>6, <3>7
  <2> QED BY <2>1, <2>2
<1>12. ASSUME NEW i \in 1..n PROVE IsPiece(str, delimiters, FirstOf(ends, i), starts[i], ends[i])
  <2> DEFINE b == before[i]   m == Len(pieces[i])
  <2>1. b \in Nat /\ m \in Nat /\ m >= 1 /\ starts[i] = b + 1 /\ ends[i] = (b + m) + 1
    BY <1>7, <1>8
  <2>2. \A p \in 1..m : str[b + p] = pieces[i][p] /\ pieces[i][p] \notin Spaces /\ pieces[i][p] \notin delimiters
    BY <1>0, <1>6 DEF IsSolid
  <2> HIDE DEF b, m
  <2>3. ASSUME NEW k \in (b + 1)..(b + m) PROVE str[k] \notin Spaces /\ str[k] \notin delimiters
    <3> DEFINE p == k - b
    <3>1. p \in 1..m /\ b + p = k
      BY <2>1
    <3> HIDE DEF p
    <3> QED BY <2>2, <3>1
  <2>4. ends[i] # Len(str) + 1 => str[ends[i]] \in delimiters
    <3>1. ends[i] # Len(str) + 1 => i < n
      BY <1>1, <1>9
    <3> QED BY <1>10, <3>1 DEF Separates
  <2>5. starts[i] \in Nat /\ ends[i] \in Nat /\ starts[i] < ends[i] /\ ends[i] - 1 = b + m
    BY <2>1
  <2>6. \A k \in starts[i]..(ends[i] - 1) : str[k] \notin Spaces /\ str[k] \notin delimiters
    BY <2>1, <2>3, <2>5
  <2>7. ends[i] <= Len(str) + 1
    BY <1>10
  <2> QED BY <1>11, <2>4, <2>5, <2>6, <2>7 DEF IsPiece
<1>13. ASSUME NEW i \in 1..n PROVE FieldVal(SubSeq(str, starts[i], ends[i] - 1)) = Returns(values[i])
  <2> DEFINE b == before[i]   piece == pieces[i]
  <2>1. b \in Nat /\ Len(piece) \in Nat /\ starts[i] = b + 1 /\ ends[i] - 1 = b + Len(piece) /\ b + Len(piece) <= Len(str)
    <3>1. b \in Nat /\ Len(piece) \in Nat /\ starts[i] = b + 1 /\ ends[i] = (b + Len(piece)) + 1 /\ ends[i] <= Len(str) + 1
      BY <1>7, <1>8, <1>10
    <3> HIDE DEF b, piece
    <3> QED BY <1>5, <3>1
  <2>2. \A p \in 1..Len(piece) : str[b + p] = piece[p]
    BY <1>6
  <2>3. piece \in Seq(Byte) /\ FieldVal(piece) = Returns(values[i])
    BY <1>0, <1>1
  <2> HIDE DEF b, piece
  <2>4. LiesAt(str, b, piece)
    BY <2>1, <2>2 DEF LiesAt
  <2>5. IsPartAt(str, b, piece)
    BY <1>3, <2>1, <2>3, <2>4, PartIs
  <2> QED BY <2>1, <2>3, <2>5 DEF IsPartAt
<1>14. str \in Seq(Byte) /\ n \in Nat \ {0} /\ Len(values) = n
  BY <1>1, <1>3
<1>15. PiecesAre(str, delimiters, n, starts, ends)
  BY <1>9, <1>12 DEF PiecesAre
<1>16. FieldsAre(str, n, starts, ends, values)
  BY <1>13 DEF FieldsAre
<1>17. extractFieldVals(str, delimiters) = Returns(values)
  BY <1>14, <1>15, <1>16, ListIsRead
<1> QED BY <1>17 DEF str

(***************************************************************************)
(* The text of a pair                                                      *)
(***************************************************************************)

PrintedPair(a, b) == (a \o <<EqualsSign>>) \o b

\* What a client prints is made of letters, digits and percent signs.
IsEscaped(a) == a \in Seq(Byte) /\ \A k \in 1..Len(a) : a[k] \in Plain \cup {PercentSign}

LEMMA EscapeIsEscaped ==
    ASSUME NEW str \in Seq(Byte)
    PROVE  IsEscaped(Escape(str))
<1> DEFINE n == Len(str)
           f == [i \in DOMAIN str |-> Escaped(str[i])]
           g == [i \in 1..n |-> Len(f[i])]
<1>1. n \in Nat /\ DOMAIN str = 1..n /\ \A i \in 1..n : str[i] \in Byte
  BY ElementOfSeq
<1>2. ASSUME NEW c \in Byte
      PROVE  /\ Escaped(c) \in Seq(Byte)
             /\ \A p \in 1..Len(Escaped(c)) : Escaped(c)[p] \in Plain \cup {PercentSign}
  <2>1. Escaped(c) \in Seq(Byte)
    BY CodesByte DEF Codes
  <2>2. CASE c \in Plain
    BY <2>2 DEF Escaped
  <2>3. CASE c \notin Plain
    <3> DEFINE a == HexDigit(c \div 16)   b == HexDigit(c % 16)
    <3>1. a \in Plain /\ b \in Plain
      <4>1. \A v \in 0..15 : HexDigit(v) \in Plain
        BY DEF HexDigit, Plain, Digits
      <4> QED BY <4>1, HexBytes
    <3> HIDE DEF a, b
    <3>2. Escaped(c) = <<PercentSign, a, b>>
      BY <2>3 DEF Escaped, a, b
    <3> QED BY <2>1, <3>1, <3>2
  <2> QED BY <2>2, <2>3
<1>3. \A i \in 1..n : f[i] = Escaped(str[i])
  BY <1>1
<1> HIDE DEF f
<1>4. \A i \in 1..n : f[i] \in Seq(Byte) /\ g[i] = Len(f[i]) /\ \A p \in 1..Len(f[i]) : f[i][p] \in Plain \cup {PercentSign}
  BY <1>1, <1>2, <1>3
<1> DEFINE s == JoinTo(f, n)
<1>5. s = Escape(str)
  BY DEF Escape, f
<1> HIDE DEF g, n
<1>6. s \in Seq(Byte)
  BY <1>1, <1>4, JoinToIsJoin
<1>7. ElementsFrom(f, g, n, s)
  BY <1>1, <1>4, JoinPlaces
<1> HIDE DEF s
<1>8. \A q \in 1..Len(s) : s[q] \in Plain \cup {PercentSign}
  BY <1>4, <1>7, Zenon DEF ElementsFrom
<1> QED BY <1>5, <1>6, <1>8 DEF IsEscaped

\* Where the parts of a pair are.
PairIs(c, a, b) ==
    /\ c \in Seq(Byte) /\ Len(c) = (Len(a) + 1) + Len(b)
    /\ \A p \in 1..Len(a) : c[p] = a[p]
    /\ c[Len(a) + 1] = EqualsSign
    /\ \A p \in 1..Len(b) : c[(Len(a) + 1) + p] = b[p]

LEMMA PairHasParts ==
    ASSUME NEW a \in Seq(Byte), NEW b \in Seq(Byte)
    PROVE  PairIs(PrintedPair(a, b), a, b)
<1> DEFINE sign == <<EqualsSign>>   d == a \o sign   c == d \o b
<1>1. sign \in Seq(Byte) /\ Len(sign) = 1 /\ sign[1] = EqualsSign
  BY DEF EqualsSign, Byte
<1> HIDE DEF sign
<1>2. Concatenated(a, sign)
  BY <1>1, Concatenate
<1>3. /\ d \in Seq(Byte) /\ Len(d) = Len(a) + 1
      /\ \A p \in 1..Len(a) : d[p] = a[p]
      /\ d[Len(a) + 1] = EqualsSign
  <2>1. /\ d \in Seq(Byte) /\ Len(d) = Len(a) + Len(sign)
        /\ \A p \in 1..Len(a) : d[p] = a[p]
        /\ \A p \in 1..Len(sign) : d[Len(a) + p] = sign[p]
    BY <1>2 DEF Concatenated
  <2>2. 1 \in 1..Len(sign)
    BY <1>1
  <2> HIDE DEF d
  <2>3. d[Len(a) + 1] = sign[1]
    BY <2>1, <2>2
  <2> QED BY <1>1, <2>1, <2>3
<1> HIDE DEF d
<1>4. Concatenated(d, b)
  BY <1>3, Concatenate
<1>5. /\ c \in Seq(Byte) /\ Len(c) = Len(d) + Len(b)
      /\ \A p \in 1..Len(d) : c[p] = d[p]
      /\ \A p \in 1..Len(b) : c[Len(d) + p] = b[p]
  BY <1>4 DEF Concatenated
<1>6. Len(a) \in Nat /\ Len(a) + 1 \in 1..Len(d) /\ \A p \in 1..Len(a) : p \in 1..Len(d)
  BY <1>3
<1>7. c = PrintedPair(a, b)
  BY DEF PrintedPair, d, sign
<1> HIDE DEF c
<1>8. PairIs(c, a, b)
  BY <1>3, <1>5, <1>6 DEF PairIs
<1> QED BY <1>7, <1>8

\* A pair of what a client escaped is taken apart again.
LEMMA PairIsField ==
    ASSUME NEW a, IsEscaped(a), NEW b, IsEscaped(b),
           NEW x, Unescaped(a) = Returns(x), NEW y, Unescaped(b) = Returns(y)
    PROVE  FieldVal(PrintedPair(a, b)) = Returns(<<x, y>>)
<1> DEFINE c == PrintedPair(a, b)   e == Len(a) + 1   eq == FindAny(c, {EqualsSign}, 1)
<1>1. a \in Seq(Byte) /\ b \in Seq(Byte)
  BY DEF IsEscaped
<1>2. PairIs(c, a, b)
  BY <1>1, PairHasParts
<1> HIDE DEF c
<1>3. /\ c \in Seq(Byte) /\ Len(c) = e + Len(b) /\ c[e] = EqualsSign
      /\ \A p \in 1..Len(a) : c[p] = a[p]
      /\ \A p \in 1..Len(b) : c[e + p] = b[p]
  BY <1>2 DEF PairIs
<1>4. Len(a) \in Nat /\ Len(b) \in Nat /\ e \in Nat /\ e - 1 = Len(a) /\ e >= 1
  BY <1>1
<1>5. \A k \in 1..(e - 1) : c[k] \notin {EqualsSign}
  <2>1. \A d \in Plain \cup {PercentSign} : d # EqualsSign
    BY DEF Plain, Digits, PercentSign, EqualsSign
  <2> QED BY <1>3, <1>4, <2>1 DEF IsEscaped
<1> HIDE DEF e
<1>6. eq = e
  <2>1. e \in 1..(Len(c) + 1) /\ e # Len(c) + 1
    BY <1>3, <1>4
  <2>2. eq = IF e = Len(c) + 1 THEN 0 ELSE e
    BY <1>3, <1>5, <2>1, FoundAt
  <2> QED BY <2>1, <2>2
<1>7. SubSeq(c, 1, e - 1) = a
  <2>1. LiesAt(c, 0, a)
    BY <1>3, <1>4 DEF LiesAt
  <2>2. IsPartAt(c, 0, a)
    BY <1>1, <1>3, <2>1, PartIs
  <2>3. 0 + 1 = 1 /\ 0 + Len(a) = e - 1
    BY <1>4
  <2> QED BY <2>2, <2>3 DEF IsPartAt
<1>8. After(c, e) = b
  <2>1. LiesAt(c, e, b)
    BY <1>3, <1>4 DEF LiesAt
  <2>2. IsPartAt(c, e, b)
    BY <1>1, <1>3, <1>4, <2>1, PartIs
  <2> QED BY <1>3, <2>2 DEF IsPartAt, After
<1>9. ASSUME NEW s, IsEscaped(s) PROVE Unquoted(s) = s
  <2>1. s # <<>> => s[1] \in Plain \cup {PercentSign}
    BY <1>9 DEF IsEscaped
  <2>2. \A d \in Plain \cup {PercentSign} : d # QuoteMark
    BY DEF Plain, Digits, PercentSign, QuoteMark
  <2>3. s # <<>> => s[1] # QuoteMark
    BY <2>1, <2>2, Zenon
  <2> QED BY <2>3, Zenon DEF Unquoted
<1>10. eq # 0
  BY <1>4, <1>6
<1> DEFINE rs == <<Returns(x), Returns(y)>>
<1>11. FieldVal(c) = All(rs)
  <2> HIDE DEF eq
  <2>1. eq = FindAny(c, {EqualsSign}, 1) /\ SubSeq(c, 1, eq - 1) = a /\ After(c, eq) = b
    BY <1>6, <1>7, <1>8 DEF eq
  <2>2. Unquoted(a) = a /\ Unquoted(b) = b
    BY <1>9
  <2> QED BY <1>10, <2>1, <2>2, Zenon DEF FieldVal
<1>12. All(rs) = Returns(<<x, y>>)
  <2>1. DOMAIN rs = 1..2 /\ rs[1] = Returns(x) /\ rs[2] = Returns(y)
    OBVIOUS
  <2> HIDE DEF rs
  <2>2. rs[1].ok /\ rs[2].ok /\ rs[1].val = x /\ rs[2].val = y
    BY <2>1 DEF Returns
  <2>3. [i \in DOMAIN rs |-> rs[i].val] = <<x, y>>
    BY <2>1, <2>2
  <2>4. \A i \in DOMAIN rs : rs[i].ok
    BY <2>1, <2>2
  <2> QED BY <2>3, <2>4, Zenon DEF All
<1> QED BY <1>11, <1>12 DEF c

LEMMA PairIsSolid ==
    ASSUME NEW a, IsEscaped(a), NEW b, IsEscaped(b), NEW delimiters, IsForeign(delimiters)
    PROVE  IsSolid(PrintedPair(a, b), delimiters)
<1> DEFINE c == PrintedPair(a, b)   e == Len(a) + 1
<1>1. a \in Seq(Byte) /\ b \in Seq(Byte)
  BY DEF IsEscaped
<1>2. PairIs(c, a, b)
  BY <1>1, PairHasParts
<1> HIDE DEF c
<1>3. /\ c \in Seq(Byte) /\ Len(c) = e + Len(b) /\ c[e] = EqualsSign
      /\ \A p \in 1..Len(a) : c[p] = a[p]
      /\ \A p \in 1..Len(b) : c[e + p] = b[p]
  BY <1>2 DEF PairIs
<1>4. Len(a) \in Nat /\ Len(b) \in Nat /\ e = Len(a) + 1 /\ e \in Nat
  BY <1>1
<1> HIDE DEF e
<1>5. ASSUME NEW k \in 1..Len(c) PROVE c[k] \in Plain \cup {PercentSign, EqualsSign}
  <2>1. CASE k \in 1..Len(a)
    BY <1>3, <2>1 DEF IsEscaped
  <2>2. CASE k = e
    BY <1>3, <2>2
  <2>3. CASE k > e
    <3> DEFINE p == k - e
    <3>1. p \in 1..Len(b) /\ e + p = k
      BY <1>3, <1>4, <2>3
    <3> HIDE DEF p
    <3>2. c[k] = b[p]
      BY <1>3, <3>1
    <3> QED BY <3>1, <3>2 DEF IsEscaped
  <2> QED BY <1>3, <1>4, <2>1, <2>2, <2>3
<1>6. \A d \in Plain \cup {PercentSign, EqualsSign} : d \notin Spaces /\ d \notin delimiters
  <2>1. \A d \in Plain \cup {PercentSign, EqualsSign} : d \notin Spaces
    BY DEF Plain, Digits, PercentSign, EqualsSign, Spaces, Space, Tab
  <2> QED BY <2>1 DEF IsForeign
<1>7. Len(c) >= 1
  BY <1>3, <1>4
<1> QED BY <1>3, <1>5, <1>6, <1>7 DEF IsSolid, c

(***************************************************************************)
(* Arguments and cookies                                                   *)
(***************************************************************************)

Pairings == Seq(Seq(Byte) \X Seq(Byte))

PrintedPairs(pairs) ==
    [i \in DOMAIN pairs |-> PrintedPair(Escape(pairs[i][1]), Escape(pairs[i][2]))]

LEMMA PairsHaveTexts ==
    ASSUME NEW pairs \in Pairings
    PROVE  /\ Len(pairs) \in Nat /\ DOMAIN pairs = 1..Len(pairs)
           /\ \A i \in 1..Len(pairs) :
                 /\ pairs[i][1] \in Seq(Byte) /\ pairs[i][2] \in Seq(Byte)
                 /\ pairs[i] = <<pairs[i][1], pairs[i][2]>>
<1>1. Len(pairs) \in Nat /\ DOMAIN pairs = 1..Len(pairs)
  BY LenProperties DEF Pairings
<1>2. \A i \in 1..Len(pairs) : pairs[i] \in Seq(Byte) \X Seq(Byte)
  BY ElementOfSeq DEF Pairings
<1>3. \A p \in Seq(Byte) \X Seq(Byte) : p[1] \in Seq(Byte) /\ p[2] \in Seq(Byte) /\ p = <<p[1], p[2]>>
  OBVIOUS
<1> QED BY <1>1, <1>2, <1>3, Zenon

\* A list whose entries are printed is one of texts.
LEMMA PrintedIsList ==
    ASSUME NEW pairs \in Pairings
    PROVE  /\ PrintedPairs(pairs) \in Seq(Seq(Byte)) /\ Len(PrintedPairs(pairs)) = Len(pairs)
           /\ \A i \in 1..Len(pairs) :
                 PrintedPairs(pairs)[i] = PrintedPair(Escape(pairs[i][1]), Escape(pairs[i][2]))
<1> DEFINE n == Len(pairs)   f == PrintedPairs(pairs)
<1>1. n \in Nat /\ DOMAIN pairs = 1..n /\ \A i \in 1..n : pairs[i][1] \in Seq(Byte) /\ pairs[i][2] \in Seq(Byte)
  BY PairsHaveTexts
<1> HIDE DEF n
<1>2. f = [i \in 1..n |-> PrintedPair(Escape(pairs[i][1]), Escape(pairs[i][2]))]
  BY <1>1 DEF PrintedPairs
<1> HIDE DEF f
<1>3. \A i \in 1..n : f[i] = PrintedPair(Escape(pairs[i][1]), Escape(pairs[i][2]))
  BY <1>2
<1>4. \A a, b \in Seq(Byte) : PrintedPair(Escape(a), Escape(b)) \in Seq(Byte)
  <2> SUFFICES ASSUME NEW a \in Seq(Byte), NEW b \in Seq(Byte) PROVE PrintedPair(Escape(a), Escape(b)) \in Seq(Byte)
    OBVIOUS
  <2>1. Escape(a) \in Seq(Byte) /\ Escape(b) \in Seq(Byte)
    BY EscapeIsEscaped DEF IsEscaped
  <2>2. PairIs(PrintedPair(Escape(a), Escape(b)), Escape(a), Escape(b))
    BY <2>1, PairHasParts
  <2> QED BY <2>2, Zenon DEF PairIs
<1>5. \A i \in 1..n : f[i] \in Seq(Byte)
  BY <1>1, <1>3, <1>4, Zenon
<1>6. f \in [1..n -> Seq(Byte)]
  <2>1. f = [i \in 1..n |-> f[i]]
    BY <1>2
  <2> QED BY <1>5, <2>1
<1>7. f \in Seq(Seq(Byte)) /\ Len(f) = n
  BY <1>1, <1>6
<1> QED BY <1>3, <1>7 DEF f, n

\* A printed list of escaped pairs is read as these pairs.
LEMMA PairsArrive ==
    ASSUME NEW delimiters, IsForeign(delimiters), NEW sep, Separates(sep, delimiters),
           NEW pairs \in Pairings, Len(pairs) >= 1
    PROVE  extractFieldVals(ListOf(PrintedPairs(pairs), sep), delimiters) = Returns(pairs)
<1> DEFINE pieces == PrintedPairs(pairs)   n == Len(pairs)
<1>1. /\ n \in Nat /\ n >= 1 /\ pairs \in Seq(Seq(Byte) \X Seq(Byte))
      /\ \A i \in 1..n : /\ pairs[i][1] \in Seq(Byte) /\ pairs[i][2] \in Seq(Byte)
                         /\ pairs[i] = <<pairs[i][1], pairs[i][2]>>
  BY PairsHaveTexts DEF Pairings
<1>2. /\ pieces \in Seq(Seq(Byte)) /\ Len(pieces) = n
      /\ \A i \in 1..n : pieces[i] = PrintedPair(Escape(pairs[i][1]), Escape(pairs[i][2]))
  BY PrintedIsList
<1> HIDE DEF pieces
<1>3. ASSUME NEW i \in 1..n
      PROVE  IsSolid(pieces[i], delimiters) /\ FieldVal(pieces[i]) = Returns(pairs[i])
  <2> DEFINE x == pairs[i][1]   y == pairs[i][2]
  <2>1. x \in Seq(Byte) /\ y \in Seq(Byte) /\ pairs[i] = <<x, y>> /\ pieces[i] = PrintedPair(Escape(x), Escape(y))
    BY <1>1, <1>2
  <2> HIDE DEF x, y
  <2>2. IsEscaped(Escape(x)) /\ IsEscaped(Escape(y))
    BY <2>1, EscapeIsEscaped
  <2>3. Unescaped(Escape(x)) = Returns(x) /\ Unescaped(Escape(y)) = Returns(y)
    BY <2>1, EscapeIsUndone
  <2>4. FieldVal(PrintedPair(Escape(x), Escape(y))) = Returns(<<x, y>>)
    BY <2>2, <2>3, PairIsField
  <2>5. IsSolid(PrintedPair(Escape(x), Escape(y)), delimiters)
    BY <2>2, PairIsSolid
  <2> QED BY <2>1, <2>4, <2>5, Zenon
<1>4. AreFields(pieces, delimiters, pairs)
  BY <1>1, <1>2, <1>3 DEF AreFields
<1>5. pieces \in Seq(Seq(Byte)) /\ pairs \in Seq(Seq(Byte) \X Seq(Byte))
  BY <1>1, <1>2
<1>6. extractFieldVals(ListOf(pieces, sep), delimiters) = Returns(pairs)
  BY <1>4, <1>5, ListArrives
<1> QED BY <1>6 DEF pieces

\* The pairs, escaped once.
EscapedPairs(pairs) == [i \in DOMAIN pairs |-> <<Escape(pairs[i][1]), Escape(pairs[i][2])>>]

LEMMA EscapedArePairs ==
    ASSUME NEW pairs \in Pairings
    PROVE  /\ EscapedPairs(pairs) \in Pairings /\ Len(EscapedPairs(pairs)) = Len(pairs)
           /\ \A i \in 1..Len(pairs) : EscapedPairs(pairs)[i] = <<Escape(pairs[i][1]), Escape(pairs[i][2])>>
<1> DEFINE n == Len(pairs)   f == EscapedPairs(pairs)
<1>1. n \in Nat /\ DOMAIN pairs = 1..n /\ \A i \in 1..n : pairs[i][1] \in Seq(Byte) /\ pairs[i][2] \in Seq(Byte)
  BY PairsHaveTexts
<1> HIDE DEF n
<1>2. f = [i \in 1..n |-> <<Escape(pairs[i][1]), Escape(pairs[i][2])>>]
  BY <1>1 DEF EscapedPairs
<1> HIDE DEF f
<1>3. \A i \in 1..n : f[i] = <<Escape(pairs[i][1]), Escape(pairs[i][2])>>
  BY <1>2
<1>4. \A a \in Seq(Byte) : Escape(a) \in Seq(Byte)
  BY EscapeIsEscaped DEF IsEscaped
<1>5. \A i \in 1..n : f[i] \in Seq(Byte) \X Seq(Byte)
  <2> SUFFICES ASSUME NEW i \in 1..n PROVE f[i] \in Seq(Byte) \X Seq(Byte)
    OBVIOUS
  <2> DEFINE x == Escape(pairs[i][1])   y == Escape(pairs[i][2])
  <2>1. x \in Seq(Byte) /\ y \in Seq(Byte) /\ f[i] = <<x, y>>
    BY <1>1, <1>3, <1>4
  <2> HIDE DEF x, y
  <2> QED BY <2>1
<1>6. f \in [1..n -> Seq(Byte) \X Seq(Byte)]
  <2>1. f = [i \in 1..n |-> f[i]]
    BY <1>2
  <2> QED BY <1>5, <2>1
<1>7. f \in Pairings /\ Len(f) = n
  BY <1>1, <1>6 DEF Pairings
<1> QED BY <1>3, <1>7 DEF f, n

\* A client's query: names and values escaped twice.
Query(pairs) == ListOf(PrintedPairs(EscapedPairs(pairs)), <<Ampersand>>)

\* Whatever pairs of texts a client sends as the arguments of a query, each escaped
\* twice, parse_header makes them of it again, however many they are and whatever
\* bytes and separators they contain.
THEOREM ArgumentsArrive ==
    \A pairs \in Pairings : Len(pairs) >= 1 =>
        Then(extractFieldVals(Query(pairs), {Ampersand}), Again) = Returns(pairs)
<1> SUFFICES ASSUME NEW pairs \in Pairings, Len(pairs) >= 1
             PROVE  Then(extractFieldVals(Query(pairs), {Ampersand}), Again) = Returns(pairs)
  OBVIOUS
<1> DEFINE n == Len(pairs)   args == EscapedPairs(pairs)   sep == <<Ampersand>>
<1>1. args \in Pairings /\ Len(args) = n /\ \A i \in 1..n : args[i] = <<Escape(pairs[i][1]), Escape(pairs[i][2])>>
  BY EscapedArePairs
<1>2. extractFieldVals(Query(pairs), {Ampersand}) = Returns(args)
  <2>1. IsForeign({Ampersand})
    BY DEF IsForeign, Ampersand, Plain, Digits, PercentSign, EqualsSign, Spaces, Space, Tab
  <2>2. Separates(sep, {Ampersand})
    <3>1. sep \in Seq(Byte) /\ Len(sep) = 1 /\ sep[1] = Ampersand
      BY DEF Ampersand, Byte
    <3> HIDE DEF sep
    <3> QED BY <3>1 DEF Separates
  <2> HIDE DEF args, sep
  <2>3. Len(args) >= 1
    BY <1>1
  <2>4. extractFieldVals(ListOf(PrintedPairs(args), sep), {Ampersand}) = Returns(args)
    BY <1>1, <2>1, <2>2, <2>3, PairsArrive
  <2> QED BY <2>4 DEF Query, args, sep
<1>3. n \in Nat /\ DOMAIN args = 1..n
  BY <1>1, PairsHaveTexts
<1> HIDE DEF args
<1> DEFINE rs == [i \in DOMAIN args |-> All([k \in DOMAIN args[i] |-> Unescaped(args[i][k])])]
<1>4. ASSUME NEW i \in 1..n PROVE rs[i] = Returns(pairs[i])
  <2> DEFINE x == pairs[i][1]   y == pairs[i][2]
  <2>1. x \in Seq(Byte) /\ y \in Seq(Byte) /\ pairs[i] = <<x, y>>
    BY PairsHaveTexts
  <2> HIDE DEF x, y
  <2>2. Unescaped(Escape(x)) = Returns(x) /\ Unescaped(Escape(y)) = Returns(y)
    BY <2>1, EscapeIsUndone
  <2> DEFINE arg == args[i]   us == [k \in DOMAIN arg |-> Unescaped(arg[k])]
  <2>3. arg = <<Escape(x), Escape(y)>>
    BY <1>1 DEF x, y
  <2>4. DOMAIN arg = 1..2 /\ arg[1] = Escape(x) /\ arg[2] = Escape(y)
    BY <2>3
  <2> HIDE DEF arg
  <2>5. DOMAIN us = 1..2 /\ us[1] = Returns(x) /\ us[2] = Returns(y)
    BY <2>2, <2>4
  <2> HIDE DEF us
  <2>6. us[1].ok /\ us[2].ok /\ us[1].val = x /\ us[2].val = y
    BY <2>5 DEF Returns
  <2>7. (\A k \in DOMAIN us : us[k].ok) /\ [k \in DOMAIN us |-> us[k].val] = <<x, y>>
    BY <2>5, <2>6
  <2>8. All(us) = Returns(<<x, y>>)
    BY <2>7, Zenon DEF All
  <2>9. rs[i] = All(us)
    BY <1>3 DEF us, arg
  <2> QED BY <2>1, <2>8, <2>9, Zenon
<1>5. DOMAIN rs = 1..n
  BY <1>3
<1>6. Again(args) = All(rs)
  BY DEF Again
<1> HIDE DEF rs
<1>7. \A i \in 1..n : rs[i].ok /\ rs[i].val = pairs[i]
  <2>1. \A v : Returns(v).ok /\ Returns(v).val = v
    BY DEF Returns
  <2> HIDE DEF n
  <2> QED BY <1>4, <2>1, Zenon
<1>8. [i \in DOMAIN rs |-> rs[i].val] = pairs
  <2>1. pairs = [i \in 1..n |-> pairs[i]]
    <3>1. pairs \in [1..n -> Seq(Byte) \X Seq(Byte)]
      BY LenProperties DEF Pairings
    <3> HIDE DEF n
    <3> QED BY <3>1
  <2> HIDE DEF n
  <2> QED BY <1>5, <1>7, <2>1
<1>9. All(rs) = Returns(pairs)
  BY <1>5, <1>7, <1>8, Zenon DEF All
<1>10. Returns(args).ok /\ Returns(args).val = args
  BY DEF Returns
<1> QED BY <1>2, <1>6, <1>9, <1>10, Zenon DEF Then

\* Texts that are unescaped one by one are unescaped together.
LEMMA CodesAll ==
    ASSUME NEW n \in Nat, NEW f, NEW h, \A i \in 1..n : Codes(f[i], h[i])
    PROVE  Codes(JoinTo(f, n), JoinTo(h, n))
<1> DEFINE G == {m \in Nat : m <= n => Codes(JoinTo(f, m), JoinTo(h, m))}
<1>1. 0 \in G
  <2>1. JoinTo(f, 0) = <<>> /\ JoinTo(h, 0) = <<>>
    BY JoinZero
  <2> QED BY <2>1, CodesNothing
<1>2. ASSUME NEW m \in Nat, m \in G PROVE m + 1 \in G
  <2> SUFFICES ASSUME m + 1 <= n PROVE Codes(JoinTo(f, m + 1), JoinTo(h, m + 1))
    OBVIOUS
  <2>1. Codes(JoinTo(f, m), JoinTo(h, m)) /\ Codes(f[m + 1], h[m + 1])
    BY <1>2
  <2>2. \A i \in 1..(m + 1) : f[i] \in Seq(Byte) /\ h[i] \in Seq(Byte)
    <3>1. \A i \in 1..(m + 1) : i \in 1..n
      OBVIOUS
    <3> QED BY <3>1, Zenon DEF Codes
  <2>3. JoinTo(f, m + 1) = JoinTo(f, m) \o f[m + 1] /\ JoinTo(h, m + 1) = JoinTo(h, m) \o h[m + 1]
    BY <2>2, JoinEquations
  <2>4. Codes(JoinTo(f, m) \o f[m + 1], JoinTo(h, m) \o h[m + 1])
    BY <2>1, CodesBoth
  <2> QED BY <2>3, <2>4
<1> HIDE DEF G
<1>3. n \in G
  BY <1>1, <1>2, SetInduction
<1> QED BY <1>3 DEF G

LEMMA TwoCharacters ==
    ASSUME NEW a \in Byte, NEW b \in Byte
    PROVE  <<a>> \o <<b>> = <<a, b>>
<1> DEFINE s == <<a>>   t == <<b>>   c == s \o t   d == <<a, b>>
<1>1. s \in Seq(Byte) /\ Len(s) = 1 /\ s[1] = a /\ t \in Seq(Byte) /\ Len(t) = 1 /\ t[1] = b
  OBVIOUS
<1>2. d \in Seq(Byte) /\ Len(d) = 2 /\ d[1] = a /\ d[2] = b
  OBVIOUS
<1> HIDE DEF s, t, d
<1>3. Concatenated(s, t)
  BY <1>1, Concatenate
<1>4. /\ c \in Seq(Byte) /\ Len(c) = Len(s) + Len(t)
      /\ \A i \in 1..Len(s) : c[i] = s[i]
      /\ \A i \in 1..Len(t) : c[Len(s) + i] = t[i]
  BY <1>3 DEF Concatenated
<1> HIDE DEF c
<1>5. c[1] = a /\ c[2] = b /\ Len(c) = 2
  BY <1>1, <1>4
<1>6. c = d
  BY <1>2, <1>4, <1>5, SeqEqual
<1> QED BY <1>6 DEF c, d, s, t

\* A blank behind each semicolon.
BetweenCookies == <<SemicolonSign, Space>>

\* A client's field Cookie: names and values escaped twice.
CookieLine(pairs) == ListOf(PrintedPairs(EscapedPairs(pairs)), BetweenCookies)

\* Whatever cookies a client sends, names and values escaped twice, parse_header
\* makes them of the field again, which parse_fields unescapes before
\* extractFieldVals takes it apart.
THEOREM CookiesArrive ==
    \A pairs \in Pairings : Len(pairs) >= 1 =>
        Then(Unescaped(CookieLine(pairs)), LAMBDA value : extractFieldVals(value, ListDelimiters))
            = Returns(pairs)
<1> SUFFICES ASSUME NEW pairs \in Pairings, Len(pairs) >= 1
             PROVE  Then(Unescaped(CookieLine(pairs)), LAMBDA value : extractFieldVals(value, ListDelimiters))
                        = Returns(pairs)
  OBVIOUS
<1> DEFINE n == Len(pairs)   once == EscapedPairs(pairs)
           from == PrintedPairs(once)   to == PrintedPairs(pairs)
           f == WithSeparators(from, BetweenCookies)   h == WithSeparators(to, BetweenCookies)
<1>1. n \in Nat /\ \A i \in 1..n : pairs[i][1] \in Seq(Byte) /\ pairs[i][2] \in Seq(Byte)
  BY PairsHaveTexts
<1>2. once \in Pairings /\ Len(once) = n /\ \A i \in 1..n : once[i] = <<Escape(pairs[i][1]), Escape(pairs[i][2])>>
  BY EscapedArePairs
<1> HIDE DEF once
<1>3. /\ from \in Seq(Seq(Byte)) /\ Len(from) = n
      /\ \A i \in 1..n : from[i] = PrintedPair(Escape(once[i][1]), Escape(once[i][2]))
  BY <1>2, PrintedIsList
<1>4. /\ to \in Seq(Seq(Byte)) /\ Len(to) = n
      /\ \A i \in 1..n : to[i] = PrintedPair(Escape(pairs[i][1]), Escape(pairs[i][2]))
  BY PrintedIsList
<1> HIDE DEF n, from, to
<1>5. /\ DOMAIN from = 1..n /\ DOMAIN to = 1..n
  BY <1>3, <1>4
<1>6. \A i \in 1..n : /\ f[i] = IF i < n THEN from[i] \o BetweenCookies ELSE from[i]
                      /\ h[i] = IF i < n THEN to[i] \o BetweenCookies ELSE to[i]
  BY <1>3, <1>4, <1>5 DEF WithSeparators
<1> HIDE DEF f, h
<1>7. Codes(BetweenCookies, BetweenCookies)
  <2>1. Codes(<<SemicolonSign>>, <<SemicolonSign>>) /\ Codes(<<Space>>, <<Space>>)
    <3>1. SemicolonSign \in Byte /\ Space \in Byte /\ SemicolonSign # PercentSign /\ Space # PercentSign
      BY DEF SemicolonSign, Space, PercentSign, Byte
    <3> QED BY <3>1, CodesPlain
  <2>2. Codes(<<SemicolonSign>> \o <<Space>>, <<SemicolonSign>> \o <<Space>>)
    BY <2>1, CodesBoth
  <2>3. <<SemicolonSign>> \o <<Space>> = BetweenCookies
    <3>1. SemicolonSign \in Byte /\ Space \in Byte
      BY DEF SemicolonSign, Space, Byte
    <3> QED BY <3>1, TwoCharacters DEF BetweenCookies
  <2> QED BY <2>2, <2>3
<1>8. ASSUME NEW i \in 1..n PROVE Codes(from[i], to[i])
  <2> DEFINE x == Escape(pairs[i][1])   y == Escape(pairs[i][2])   sign == <<EqualsSign>>
  <2>1. x \in Seq(Byte) /\ y \in Seq(Byte)
    BY <1>1, EscapeIsEscaped DEF IsEscaped
  <2>2. from[i] = PrintedPair(Escape(x), Escape(y)) /\ to[i] = PrintedPair(x, y)
    <3>1. once[i] = <<x, y>>
      BY <1>2
    <3>2. once[i][1] = x /\ once[i][2] = y
      BY <3>1
    <3>3. from[i] = PrintedPair(Escape(once[i][1]), Escape(once[i][2])) /\ to[i] = PrintedPair(x, y)
      BY <1>3, <1>4
    <3> QED BY <3>2, <3>3, Zenon
  <2> HIDE DEF x, y
  <2>3. Codes(Escape(x), x) /\ Codes(Escape(y), y)
    <3>1. Escape(x) \in Seq(Byte) /\ Escape(y) \in Seq(Byte)
      BY <2>1, EscapeIsEscaped DEF IsEscaped
    <3> QED BY <2>1, <3>1, EscapeIsUndone DEF Codes
  <2>4. Codes(sign, sign)
    <3>1. EqualsSign \in Byte /\ EqualsSign # PercentSign
      BY DEF EqualsSign, PercentSign, Byte
    <3> QED BY <3>1, CodesPlain
  <2> HIDE DEF sign
  <2>5. Codes(Escape(x) \o sign, x \o sign)
    BY <2>3, <2>4, CodesBoth
  <2>6. Codes((Escape(x) \o sign) \o Escape(y), (x \o sign) \o y)
    BY <2>3, <2>5, CodesBoth
  <2> QED BY <2>2, <2>6 DEF PrintedPair, sign
<1>9. ASSUME NEW i \in 1..n PROVE Codes(f[i], h[i])
  <2>1. Codes(from[i], to[i])
    BY <1>8
  <2>2. CASE i < n
    <3>1. f[i] = from[i] \o BetweenCookies /\ h[i] = to[i] \o BetweenCookies
      BY <1>6, <2>2
    <3>2. Codes(from[i] \o BetweenCookies, to[i] \o BetweenCookies)
      BY <1>7, <2>1, CodesBoth
    <3> QED BY <3>1, <3>2
  <2>3. CASE ~(i < n)
    <3>1. f[i] = from[i] /\ h[i] = to[i]
      BY <1>6, <2>3
    <3> QED BY <2>1, <3>1
  <2> QED BY <2>2, <2>3
<1>10. Codes(JoinTo(f, n), JoinTo(h, n))
  BY <1>1, <1>9, CodesAll
<1> DEFINE value == ListOf(to, BetweenCookies)
<1>11. JoinTo(f, n) = CookieLine(pairs) /\ JoinTo(h, n) = value
  BY <1>3, <1>4 DEF CookieLine, ListOf, f, h, from, once
<1> HIDE DEF value
<1>12. Unescaped(CookieLine(pairs)) = Returns(value)
  BY <1>10, <1>11 DEF Codes
<1>13. extractFieldVals(value, ListDelimiters) = Returns(pairs)
  <2>1. IsForeign(ListDelimiters)
    BY DEF IsForeign, ListDelimiters, SemicolonSign, CommaSign, Plain, Digits, PercentSign, EqualsSign,
           Spaces, Space, Tab
  <2>2. Separates(BetweenCookies, ListDelimiters)
    <3>1. /\ BetweenCookies \in Seq(Byte) /\ Len(BetweenCookies) = 2
          /\ BetweenCookies[1] = SemicolonSign /\ BetweenCookies[2] = Space
      BY DEF BetweenCookies, SemicolonSign, Space, Byte
    <3>2. \A k \in 2..2 : k = 2
      OBVIOUS
    <3>3. SemicolonSign \in ListDelimiters /\ Space \in Spaces
      BY DEF ListDelimiters, Spaces
    <3> QED BY <3>1, <3>2, <3>3 DEF Separates
  <2>3. extractFieldVals(ListOf(PrintedPairs(pairs), BetweenCookies), ListDelimiters) = Returns(pairs)
    BY <2>1, <2>2, PairsArrive
  <2> QED BY <2>3 DEF value, to
<1>14. Returns(value).ok /\ Returns(value).val = value
  BY DEF Returns
<1> QED BY <1>12, <1>13, <1>14, Zenon DEF Then

(***************************************************************************)
(* parse_fields                                                            *)
(***************************************************************************)

\* What parse_fields makes of the rest from pos on, once it knows what it makes of
\* every later rest.
ParseLine(str, later, pos) ==
    LET eol == Find(str, CRLF, pos)
        line == SubSeq(str, pos, eol - 1)
        colon == FindAny(line, {ColonSign}, 1)
        name == ToLower(SubSeq(line, 1, colon - 1))
        value == Trim(After(line, colon), Illegal)
        field == All(<<Unescaped(name), Unescaped(value)>>)
    IN IF eol = 0 THEN Returns(<<>>)
       ELSE IF colon <= 1 \/ FindAny(name, Illegal, 1) # 0 \/ value = <<>> THEN Rejects
       ELSE IF field.ok
            THEN IF later[eol + 2].ok THEN Returns(<<field.val>> \o later[eol + 2].val) ELSE Rejects
            ELSE Rejects

IsParse(str, from) == from = [pos \in Positions(str) |-> ParseLine(str, from, pos)]

\* A line ends where a carriage return is followed by a line feed.
EndsLine(str, i) == i + 1 <= Len(str) /\ str[i] = CarriageReturn /\ str[i + 1] = LineFeed

LEMMA FindLineEnd ==
    ASSUME NEW str \in Seq(Byte), NEW from \in Nat \ {0}
    PROVE  LET e == Find(str, CRLF, from)
           IN \/ e = 0 /\ \A i \in Nat : i >= from => ~EndsLine(str, i)
              \/ e \in Nat /\ e >= from /\ EndsLine(str, e) /\ \A i \in from..(e - 1) : ~EndsLine(str, i)
<1> DEFINE size == Len(str)
           found == {i \in from..(size - 1) : EndsLine(str, i)}
           e == Find(str, CRLF, from)
<1>1. size \in Nat /\ Len(CRLF) = 2 /\ CRLF[1] = CarriageReturn /\ CRLF[2] = LineFeed /\ CRLF \in Seq(Byte)
  BY DEF CRLF, CarriageReturn, LineFeed, Byte
<1>2. ASSUME NEW i \in from..(size - 1) PROVE SubSeq(str, i, (i + 2) - 1) = CRLF <=> EndsLine(str, i)
  <2> DEFINE s == SubSeq(str, i, i + 1)
  <2>1. i \in Nat /\ (i + 2) - 1 = i + 1 /\ i + 1 <= size /\ i \in Int /\ i + 1 \in Int /\ i <= i + 1 /\ (i + 1) - i + 1 = 2
    BY <1>1
  <2>2. \A k \in i..(i + 1) : str[k] \in Byte
    <3>1. \A k \in i..(i + 1) : k \in 1..Len(str)
      BY <1>1, <2>1
    <3> QED BY <3>1, ElementOfSeq
  <2>3. /\ s \in Seq(Byte) /\ Len(s) = 2
        /\ \A k \in 1..2 : s[k] = str[(i + k) - 1]
    BY <2>1, <2>2, SubSeqProperties
  <2> HIDE DEF s, size
  <2>4. s[1] = str[i] /\ s[2] = str[i + 1]
    <3>1. (i + 1) - 1 = i /\ (i + 2) - 1 = i + 1 /\ 1 \in 1..2 /\ 2 \in 1..2
      BY <2>1
    <3>2. s[1] = str[(i + 1) - 1] /\ s[2] = str[(i + 2) - 1]
      BY <2>3
    <3> QED BY <3>1, <3>2
  <2>5. ASSUME s[1] = CarriageReturn, s[2] = LineFeed PROVE s = CRLF
    <3>1. \A k \in 1..Len(s) : s[k] = CRLF[k]
      <4>1. \A k \in 1..2 : k = 1 \/ k = 2
        OBVIOUS
      <4> QED BY <1>1, <2>3, <2>5, <4>1, Zenon
    <3> QED BY <1>1, <2>3, <3>1, SeqEqual
  <2>6. s = CRLF <=> EndsLine(str, i)
    BY <1>1, <2>1, <2>4, <2>5 DEF EndsLine, size
  <2> QED BY <2>1, <2>6 DEF s
<1>3. e = IF found = {} THEN 0 ELSE Min(found)
  <2>1. Len(str) - Len(CRLF) + 1 = size - 1 /\ \A i \in Nat : i + Len(CRLF) - 1 = (i + 2) - 1
    BY <1>1
  <2> HIDE DEF size
  <2>2. {i \in from..(Len(str) - Len(CRLF) + 1) : SubSeq(str, i, i + Len(CRLF) - 1) = CRLF} = found
    <3>1. from..(Len(str) - Len(CRLF) + 1) = from..(size - 1)
      BY <2>1
    <3>2. ASSUME NEW i \in from..(size - 1)
          PROVE  SubSeq(str, i, i + Len(CRLF) - 1) = CRLF <=> EndsLine(str, i)
      <4>1. i + Len(CRLF) - 1 = (i + 2) - 1
        <5>1. i \in Nat
          OBVIOUS
        <5> QED BY <2>1, <5>1
      <4> QED BY <1>2, <4>1
    <3> QED BY <3>1, <3>2
  <2> HIDE DEF found
  <2> QED BY <2>2, Zenon DEF Find, e
<1>4. found \in SUBSET Nat /\ \A i \in found : i \in from..(size - 1) /\ EndsLine(str, i)
  OBVIOUS
<1>5. \A i \in Nat : i >= from /\ EndsLine(str, i) => i \in found
  <2> SUFFICES ASSUME NEW i \in Nat, i >= from, EndsLine(str, i) PROVE i \in found
    OBVIOUS
  <2>1. i + 1 <= size
    BY DEF EndsLine
  <2> HIDE DEF size
  <2>2. i \in from..(size - 1)
    BY <1>1, <2>1
  <2> QED BY <2>2
<1> HIDE DEF found, e
<1>6. CASE found = {}
  BY <1>3, <1>5, <1>6 DEF e
<1>7. CASE found # {}
  <2>1. e \in found /\ \A i \in found : e <= i
    BY <1>3, <1>4, <1>7, MinIsLeast
  <2>2. e \in Nat /\ e >= from /\ EndsLine(str, e)
    BY <1>4, <2>1
  <2>3. ASSUME NEW i \in from..(e - 1) PROVE ~EndsLine(str, i)
    <3>1. i \in Nat /\ i >= from /\ ~(e <= i)
      BY <2>2
    <3> QED BY <1>5, <2>1, <3>1
  <2> QED BY <2>2, <2>3 DEF e
<1> QED BY <1>6, <1>7

\* Only later rests are looked at, ...
LEMMA OnlyLaterLines ==
    ASSUME NEW str \in Seq(Byte), NEW pos \in Positions(str), NEW f, NEW g,
           \A k \in Positions(str) : k > pos => f[k] = g[k]
    PROVE  ParseLine(str, f, pos) = ParseLine(str, g, pos)
<1> DEFINE eol == Find(str, CRLF, pos)
<1>1. Len(str) \in Nat /\ pos \in Nat \ {0}
  BY DEF Positions
<1>2. eol = 0 \/ (eol \in Nat /\ eol >= pos /\ eol + 1 <= Len(str))
  BY <1>1, FindLineEnd DEF EndsLine
<1>3. CASE eol = 0
  BY <1>3 DEF ParseLine
<1>4. CASE eol # 0
  <2>1. eol + 2 \in Positions(str) /\ eol + 2 > pos
    <3> HIDE DEF eol
    <3> QED BY <1>1, <1>2, <1>4 DEF Positions
  <2>2. f[eol + 2] = g[eol + 2]
    BY <2>1
  <2> QED BY <2>2, Zenon DEF ParseLine
<1> QED BY <1>3, <1>4

\* ... so that there is such a function, defined from the end on.
LEMMA ParseExists ==
    ASSUME NEW str \in Seq(Byte)
    PROVE  \E from : IsParse(str, from)
<1> DEFINE n == Len(str) + 1
           Known(m, f) == /\ f = [k \in 1..n |-> f[k]]
                          /\ \A k \in 1..n : k > n - m => f[k] = ParseLine(str, f, k)
           G == {m \in Nat : m <= n => \E f : Known(m, f)}
<1>1. n \in Nat /\ Positions(str) = 1..n
  BY DEF Positions
<1> HIDE DEF n
<1>2. 0 \in G
  <2> DEFINE f == [k \in 1..n |-> Rejects]
  <2>1. f = [k \in 1..n |-> f[k]]
    OBVIOUS
  <2>2. \A k \in 1..n : ~(k > n - 0)
    BY <1>1
  <2> HIDE DEF f
  <2>3. Known(0, f)
    BY <2>1, <2>2
  <2> HIDE DEF Known
  <2> QED BY <2>3
<1>3. ASSUME NEW m \in Nat, m \in G PROVE m + 1 \in G
  <2> HIDE DEF Known
  <2> SUFFICES ASSUME m + 1 <= n PROVE \E f : Known(m + 1, f)
    OBVIOUS
  <2>1. PICK f : Known(m, f)
    BY <1>1, <1>3
  <2> DEFINE i == n - m
             new == ParseLine(str, f, i)
             next == [k \in 1..n |-> IF k = i THEN new ELSE f[k]]
  <2>2. i \in 1..n /\ n - (m + 1) = i - 1
    BY <1>1
  <2>3. next[i] = new /\ \A k \in 1..n : k # i => next[k] = f[k]
    BY <2>2
  <2>4. next = [k \in 1..n |-> next[k]]
    OBVIOUS
  <2> HIDE DEF next
  <2>5. ASSUME NEW k \in 1..n, k >= i
        PROVE  ParseLine(str, next, k) = ParseLine(str, f, k)
    <3>1. \A j \in 1..n : j > k => next[j] = f[j]
      <4> HIDE DEF i
      <4> QED BY <2>2, <2>3, <2>5
    <3> QED BY <1>1, <3>1, OnlyLaterLines
  <2>6. ASSUME NEW k \in 1..n, k > n - (m + 1)
        PROVE  next[k] = ParseLine(str, next, k)
    <3>1. k >= i
      BY <1>1, <2>6
    <3>2. CASE k = i
      BY <2>3, <2>5, <3>1, <3>2
    <3>3. CASE k # i
      <4>1. f[k] = ParseLine(str, f, k)
        <5>1. k > n - m
          BY <1>1, <3>1, <3>3
        <5> QED BY <2>1, <5>1 DEF Known
      <4> QED BY <2>3, <2>5, <3>1, <3>3, <4>1
    <3> QED BY <3>2, <3>3
  <2>7. Known(m + 1, next)
    BY <2>4, <2>6 DEF Known
  <2> QED BY <2>7
<1> HIDE DEF G, Known
<1>4. n \in G
  BY <1>1, <1>2, <1>3, SetInduction
<1>5. PICK f : Known(n, f)
  BY <1>1, <1>4 DEF G
<1>6. ASSUME NEW k \in 1..n PROVE f[k] = ParseLine(str, f, k)
  BY <1>1, <1>5 DEF Known
<1>7. f = [k \in 1..n |-> f[k]]
  BY <1>5 DEF Known
<1>8. f = [k \in 1..n |-> ParseLine(str, f, k)]
  BY <1>6, <1>7, Zenon
<1> QED BY <1>1, <1>8 DEF IsParse

\* parse_fields is its first value.
LEMMA ParseIs ==
    ASSUME NEW str \in Seq(Byte)
    PROVE  \E from : IsParse(str, from) /\ parse_fields(str) = from[1]
<1> DEFINE from == CHOOSE f : IsParse(str, f)
<1>1. IsParse(str, from)
  BY ParseExists
<1>2. parse_fields(str) = from[1]
  BY DEF parse_fields, IsParse, ParseLine, Then, Positions
<1> QED BY <1>1, <1>2

(***************************************************************************)
(* The text of a field                                                     *)
(***************************************************************************)

\* A name as parse_fields leaves it: neither empty nor with a blank, a line end, a
\* colon, a percent sign or an upper-case letter in it.
IsName(a) ==
    /\ a \in Seq(Byte) /\ Len(a) >= 1
    /\ \A k \in 1..Len(a) : a[k] \notin Illegal \cup {ColonSign, PercentSign} \cup 65..90

\* Such a name is taken as it is.
LEMMA NameIsKept ==
    ASSUME NEW a, IsName(a)
    PROVE  ToLower(a) = a /\ FindAny(a, Illegal, 1) = 0 /\ Unescaped(a) = Returns(a)
<1> DEFINE n == Len(a)
           G == {m \in Nat : m <= n => Codes(SubSeq(a, 1, m), SubSeq(a, 1, m))}
<1>1. /\ a \in Seq(Byte) /\ n \in Nat /\ DOMAIN a = 1..n
      /\ \A k \in 1..n : a[k] \in Byte /\ a[k] \notin Illegal /\ a[k] # PercentSign /\ a[k] \notin 65..90
  BY ElementOfSeq DEF IsName
<1>2. ToLower(a) = a
  <2> DEFINE b == ToLower(a)
  <2>1. b = [k \in 1..n |-> IF a[k] \in 65..90 THEN a[k] + 32 ELSE a[k]]
    BY <1>1 DEF ToLower
  <2> HIDE DEF n, b
  <2>2. \A k \in 1..n : b[k] = a[k]
    BY <1>1, <2>1
  <2>3. b = [k \in 1..n |-> b[k]]
    BY <2>1
  <2>4. a = [k \in 1..n |-> a[k]]
    BY <1>1
  <2> QED BY <2>2, <2>3, <2>4 DEF b
<1>3. FindAny(a, Illegal, 1) = 0
  <2> DEFINE i == FindAny(a, Illegal, 1)
  <2>1. i = 0 \/ (i \in 1..Len(a) /\ a[i] \in Illegal)
    BY <1>1, FindAnyFinds
  <2> HIDE DEF i
  <2> QED BY <1>1, <2>1 DEF i
<1>4. 0 \in G
  <2>1. SubSeq(a, 1, 0) = <<>>
    OBVIOUS
  <2> QED BY <2>1, CodesNothing
<1>5. ASSUME NEW m \in Nat, m \in G PROVE m + 1 \in G
  <2> SUFFICES ASSUME m + 1 <= n PROVE Codes(SubSeq(a, 1, m + 1), SubSeq(a, 1, m + 1))
    OBVIOUS
  <2> DEFINE s == SubSeq(a, 1, m)   c == a[m + 1]
  <2>1. Codes(s, s)
    BY <1>1, <1>5
  <2>2. m + 1 \in 1..n
    BY <1>1
  <2>3. c \in Byte /\ c # PercentSign
    BY <1>1, <2>2
  <2>4. s \in Seq(Byte)
    BY <2>1 DEF Codes
  <2>5. OneByteMore(a, m, m + 1)
    <3>1. m + 1 \in Nat
      OBVIOUS
    <3> QED BY <1>1, <2>2, <3>1, ByteMore
  <2> HIDE DEF s, c
  <2>6. Codes(s \o <<c>>, s \o <<c>>)
    BY <2>1, <2>3, CodesPlain, CodesBoth
  <2>7. s \o <<c>> = Append(s, c)
    BY <2>3, <2>4
  <2> QED BY <2>5, <2>6, <2>7, Zenon DEF OneByteMore, s, c
<1> HIDE DEF G
<1>6. n \in G
  BY <1>1, <1>4, <1>5, SetInduction
<1>7. Codes(SubSeq(a, 1, n), SubSeq(a, 1, n)) /\ SubSeq(a, 1, n) = a
  BY <1>1, <1>6 DEF G
<1>8. Unescaped(a) = Returns(a)
  BY <1>7 DEF Codes
<1> QED BY <1>2, <1>3, <1>8

\* A field without its line end.
FieldText(a, b) == (a \o <<ColonSign, Space>>) \o b

\* Where its parts are.
FieldIs(c, a, b) ==
    /\ c \in Seq(Byte) /\ Len(c) = (Len(a) + 2) + Len(b)
    /\ \A p \in 1..Len(a) : c[p] = a[p]
    /\ c[Len(a) + 1] = ColonSign /\ c[Len(a) + 2] = Space
    /\ \A p \in 1..Len(b) : c[(Len(a) + 2) + p] = b[p]

LEMMA FieldHasParts ==
    ASSUME NEW a \in Seq(Byte), NEW b \in Seq(Byte)
    PROVE  FieldIs(FieldText(a, b), a, b)
<1> DEFINE sign == <<ColonSign, Space>>   d == a \o sign   c == d \o b
<1>1. sign \in Seq(Byte) /\ Len(sign) = 2 /\ sign[1] = ColonSign /\ sign[2] = Space
  BY DEF ColonSign, Space, Byte
<1> HIDE DEF sign
<1>2. Concatenated(a, sign)
  BY <1>1, Concatenate
<1>3. /\ d \in Seq(Byte) /\ Len(d) = Len(a) + 2
      /\ \A p \in 1..Len(a) : d[p] = a[p]
      /\ d[Len(a) + 1] = ColonSign /\ d[Len(a) + 2] = Space
  <2>1. /\ d \in Seq(Byte) /\ Len(d) = Len(a) + Len(sign)
        /\ \A p \in 1..Len(a) : d[p] = a[p]
        /\ \A p \in 1..Len(sign) : d[Len(a) + p] = sign[p]
    BY <1>2 DEF Concatenated
  <2>2. 1 \in 1..Len(sign) /\ 2 \in 1..Len(sign)
    BY <1>1
  <2> HIDE DEF d
  <2>3. d[Len(a) + 1] = sign[1] /\ d[Len(a) + 2] = sign[2]
    BY <2>1, <2>2
  <2> QED BY <1>1, <2>1, <2>3
<1> HIDE DEF d
<1>4. Concatenated(d, b)
  BY <1>3, Concatenate
<1>5. /\ c \in Seq(Byte) /\ Len(c) = Len(d) + Len(b)
      /\ \A p \in 1..Len(d) : c[p] = d[p]
      /\ \A p \in 1..Len(b) : c[Len(d) + p] = b[p]
  BY <1>4 DEF Concatenated
<1>6. /\ Len(a) \in Nat /\ Len(a) + 1 \in 1..Len(d) /\ Len(a) + 2 \in 1..Len(d)
      /\ \A p \in 1..Len(a) : p \in 1..Len(d)
  BY <1>3
<1>7. c = FieldText(a, b)
  BY DEF FieldText, d, sign
<1> HIDE DEF c
<1>8. FieldIs(c, a, b)
  BY <1>3, <1>5, <1>6 DEF FieldIs
<1> QED BY <1>7, <1>8

\* What parse_fields finds in a line: the colon behind the name, and the value
\* without the blank before it.
LEMMA FieldIsRead ==
    ASSUME NEW a, IsName(a), NEW b, IsEscaped(b), Len(b) >= 1
    PROVE  LET c == FieldText(a, b)
               colon == FindAny(c, {ColonSign}, 1)
           IN colon > 1 /\ SubSeq(c, 1, colon - 1) = a /\ Trim(After(c, colon), Illegal) = b
<1> DEFINE c == FieldText(a, b)   e == Len(a) + 1   colon == FindAny(c, {ColonSign}, 1)
<1>1. a \in Seq(Byte) /\ b \in Seq(Byte) /\ Len(a) >= 1 /\ Len(a) \in Nat /\ Len(b) \in Nat
  BY DEF IsEscaped, IsName
<1>2. FieldIs(c, a, b)
  BY <1>1, FieldHasParts
<1> HIDE DEF c
<1>3. e \in Nat /\ e > 1 /\ e - 1 = Len(a) /\ e + 1 = Len(a) + 2 /\ 0 + 1 = 1 /\ 0 + Len(a) = e - 1
  BY <1>1
<1>4. /\ c \in Seq(Byte) /\ Len(c) = (e + 1) + Len(b) /\ c[e] = ColonSign /\ c[e + 1] = Space
      /\ \A p \in 1..Len(a) : c[p] = a[p]
      /\ \A p \in 1..Len(b) : c[(e + 1) + p] = b[p]
  BY <1>2, <1>3 DEF FieldIs
<1>5. \A k \in 1..(e - 1) : c[k] \notin {ColonSign}
  BY <1>3, <1>4 DEF IsName
<1> HIDE DEF e
<1>6. colon = e
  <2>1. e \in 1..(Len(c) + 1) /\ e # Len(c) + 1
    BY <1>1, <1>3, <1>4
  <2>2. colon = IF e = Len(c) + 1 THEN 0 ELSE e
    BY <1>4, <1>5, <2>1, FoundAt
  <2> QED BY <2>1, <2>2
<1>7. SubSeq(c, 1, e - 1) = a
  <2>1. LiesAt(c, 0, a)
    BY <1>1, <1>3, <1>4 DEF LiesAt
  <2>2. IsPartAt(c, 0, a)
    BY <1>1, <1>4, <2>1, PartIs
  <2> QED BY <1>3, <2>2 DEF IsPartAt
<1> DEFINE u == (e + 1) + 1   v == Len(c)
<1>8. v \in Nat /\ e + 1 \in Nat \ {0} /\ u \in (e + 1)..v /\ v \in u..v /\ u - 1 = e + 1 /\ v = (e + 1) + Len(b)
  BY <1>1, <1>3, <1>4
<1>9. SubSeq(c, u, v) = b
  <2>1. LiesAt(c, e + 1, b)
    BY <1>4, <1>8 DEF LiesAt
  <2>2. IsPartAt(c, e + 1, b)
    BY <1>1, <1>4, <1>8, <2>1, PartIs
  <2> QED BY <1>4, <2>2 DEF IsPartAt
<1>10. KeptFrom(c, Illegal, e + 1, v, u, v)
  <2>1. c[u] = b[1] /\ c[v] = b[Len(b)]
    <3>1. 1 \in 1..Len(b) /\ Len(b) \in 1..Len(b)
      BY <1>1
    <3> QED BY <1>4, <3>1
  <2>2. \A d \in Plain \cup {PercentSign} : d \notin Illegal
    <3>1. Illegal = {Space, Tab, CarriageReturn, LineFeed}
      BY DEF Illegal, Spaces, CRLF, ToSet
    <3> QED BY <3>1 DEF Plain, Digits, PercentSign, Space, Tab, CarriageReturn, LineFeed
  <2>3. c[u] \notin Illegal /\ c[v] \notin Illegal
    <3>1. 1 \in 1..Len(b) /\ Len(b) \in 1..Len(b)
      BY <1>1
    <3>2. b[1] \in Plain \cup {PercentSign} /\ b[Len(b)] \in Plain \cup {PercentSign}
      BY <3>1 DEF IsEscaped
    <3> QED BY <2>1, <2>2, <3>2
  <2>4. \A k \in (e + 1)..(u - 1) : c[k] \in Illegal
    <3>1. \A k \in (e + 1)..(u - 1) : k = e + 1
      BY <1>3, <1>8
    <3>2. Space \in Illegal
      BY DEF Illegal, Spaces
    <3> QED BY <1>4, <3>1, <3>2
  <2>5. \A k \in (v + 1)..v : c[k] \in Illegal
    BY <1>8
  <2> HIDE DEF u, v
  <2> QED BY <1>8, <2>3, <2>4, <2>5 DEF KeptFrom
<1>11. Trim(After(c, e), Illegal) = b
  <2>1. TrimmedTo(c, Illegal, e + 1, v, u, v)
    <3>1. v <= Len(c)
      BY <1>8
    <3> HIDE DEF u, v
    <3> QED BY <1>4, <1>8, <1>10, <3>1, TrimIs DEF v
  <2> QED BY <1>9, <2>1 DEF TrimmedTo, After
<1> QED BY <1>3, <1>6, <1>7, <1>11 DEF c

\* Behind place d there is this text, and then a line end.
LineAt(str, d, c) == LiesAt(str, d, c) /\ EndsLine(str, (d + Len(c)) + 1)

\* A printed field is read as its name and its value, and then the rest is read.
FieldAndRest(field, rest) ==
    IF rest.ok THEN Returns(<<field>> \o rest.val) ELSE Rejects

LEMMA LineIsRead ==
    ASSUME NEW a, IsName(a), NEW b, IsEscaped(b), Len(b) >= 1, NEW y, Unescaped(b) = Returns(y),
           NEW str \in Seq(Byte), NEW d \in Nat, LineAt(str, d, FieldText(a, b)), NEW later,
           NEW pos, pos = d + 1, NEW next, next = (d + Len(FieldText(a, b))) + 3
    PROVE  ParseLine(str, later, pos) = FieldAndRest(<<a, y>>, later[next])
<1> DEFINE c == FieldText(a, b)   m == Len(c)   e == (d + m) + 1   eol == Find(str, CRLF, pos)
<1>1. a \in Seq(Byte) /\ b \in Seq(Byte) /\ Len(a) \in Nat /\ Len(b) \in Nat
  BY DEF IsEscaped, IsName
<1>2. FieldIs(c, a, b)
  BY <1>1, FieldHasParts
<1>3. LineAt(str, d, c) /\ next = (d + m) + 3
  OBVIOUS
<1>4. /\ FindAny(c, {ColonSign}, 1) > 1 /\ SubSeq(c, 1, FindAny(c, {ColonSign}, 1) - 1) = a
      /\ Trim(After(c, FindAny(c, {ColonSign}, 1)), Illegal) = b
  BY FieldIsRead
<1> HIDE DEF c
<1>5. c \in Seq(Byte) /\ m \in Nat /\ \A k \in 1..m : c[k] # CarriageReturn
  <2>1. c \in Seq(Byte) /\ m = (Len(a) + 2) + Len(b)
    BY <1>2 DEF FieldIs
  <2>2. \A k \in 1..Len(a) : c[k] # CarriageReturn
    <3>1. CarriageReturn \in Illegal
      BY DEF Illegal, CRLF, ToSet
    <3>2. \A k \in 1..Len(a) : a[k] # CarriageReturn
      BY <3>1 DEF IsName
    <3> QED BY <1>2, <3>2, Zenon DEF FieldIs
  <2>3. c[Len(a) + 1] # CarriageReturn /\ c[Len(a) + 2] # CarriageReturn
    BY <1>2 DEF FieldIs, ColonSign, Space, CarriageReturn
  <2>4. \A p \in 1..Len(b) : c[(Len(a) + 2) + p] # CarriageReturn
    <3>1. \A x \in Plain \cup {PercentSign} : x # CarriageReturn
      BY DEF Plain, Digits, PercentSign, CarriageReturn
    <3>2. \A p \in 1..Len(b) : b[p] # CarriageReturn
      BY <3>1 DEF IsEscaped
    <3> QED BY <1>2, <3>2, Zenon DEF FieldIs
  <2> DEFINE u == Len(a)   v == Len(b)
  <2>5. u \in Nat /\ v \in Nat
    BY <1>1
  <2> HIDE DEF m, u, v
  <2>6. ASSUME NEW k \in 1..m PROVE c[k] # CarriageReturn
    <3>1. k \in 1..u \/ k = u + 1 \/ k = u + 2 \/ (k - (u + 2) \in 1..v /\ (u + 2) + (k - (u + 2)) = k)
      BY <2>1, <2>5 DEF u, v
    <3> QED BY <2>2, <2>3, <2>4, <3>1 DEF u, v
  <2>7. m \in Nat
    BY <2>1, <2>5 DEF u, v
  <2> QED BY <2>1, <2>6, <2>7
<1> HIDE DEF m
<1>6. /\ pos \in Nat \ {0} /\ e \in Nat /\ e >= pos /\ next = e + 2 /\ e - 1 = d + m
      /\ \A k \in pos..(e - 1) : k - d \in 1..m /\ d + (k - d) = k
  BY <1>3, <1>5
<1>7. EndsLine(str, e) /\ \A p \in 1..m : str[d + p] = c[p]
  BY <1>3 DEF LineAt, LiesAt, m
<1> HIDE DEF e
<1>8. \A k \in pos..(e - 1) : ~EndsLine(str, k)
  <2> SUFFICES ASSUME NEW k \in pos..(e - 1) PROVE ~EndsLine(str, k)
    OBVIOUS
  <2> DEFINE p == k - d
  <2>1. p \in 1..m /\ d + p = k
    BY <1>6
  <2> HIDE DEF p
  <2>2. str[k] # CarriageReturn
    BY <1>5, <1>7, <2>1
  <2> QED BY <2>2 DEF EndsLine
<1>9. eol = e
  <2>1. \/ eol = 0 /\ \A i \in Nat : i >= pos => ~EndsLine(str, i)
        \/ eol \in Nat /\ eol >= pos /\ EndsLine(str, eol) /\ \A i \in pos..(eol - 1) : ~EndsLine(str, i)
    BY <1>6, FindLineEnd
  <2> HIDE DEF eol
  <2>2. eol \in Nat /\ eol >= pos /\ EndsLine(str, eol) /\ \A i \in pos..(eol - 1) : ~EndsLine(str, i)
    BY <1>6, <1>7, <2>1
  <2>3. ~(eol < e)
    BY <1>6, <1>8, <2>2
  <2>4. ~(e < eol)
    BY <1>6, <1>7, <2>2
  <2> QED BY <1>6, <2>2, <2>3, <2>4
<1>10. SubSeq(str, pos, e - 1) = c
  <2>1. IsPartAt(str, d, c)
    BY <1>3, <1>5, PartIs DEF LineAt
  <2> QED BY <1>6, <2>1 DEF IsPartAt, m
<1> DEFINE colon == FindAny(c, {ColonSign}, 1)   rs == <<Unescaped(a), Unescaped(b)>>
<1>11. All(rs) = Returns(<<a, y>>)
  <2>1. DOMAIN rs = 1..2 /\ rs[1] = Returns(a) /\ rs[2] = Returns(y)
    BY NameIsKept
  <2> HIDE DEF rs
  <2>2. rs[1].ok /\ rs[2].ok /\ rs[1].val = a /\ rs[2].val = y
    BY <2>1 DEF Returns
  <2>3. [i \in DOMAIN rs |-> rs[i].val] = <<a, y>>
    BY <2>1, <2>2
  <2>4. \A i \in DOMAIN rs : rs[i].ok
    BY <2>1, <2>2
  <2> QED BY <2>3, <2>4, Zenon DEF All
<1>12. ToLower(a) = a /\ FindAny(a, Illegal, 1) = 0
  BY NameIsKept
<1>13. ~(colon <= 1) /\ eol # 0 /\ b # <<>>
  <2>1. colon > 1 => ~(colon <= 1)
    <3>1. colon \in Nat
      <4>1. colon = 0 \/ colon \in 1..Len(c)
        BY <1>5, FindAnyFinds
      <4> HIDE DEF colon
      <4> QED BY <1>5, <4>1
    <3> HIDE DEF colon
    <3> QED BY <3>1
  <2>2. eol # 0
    BY <1>6, <1>9
  <2>3. b # <<>>
    BY <1>1
  <2> QED BY <1>4, <2>1, <2>2, <2>3
<1> DEFINE field == All(rs)
<1>14. ParseLine(str, later, pos) =
          IF field.ok
          THEN IF later[e + 2].ok THEN Returns(<<field.val>> \o later[e + 2].val) ELSE Rejects
          ELSE Rejects
  <2>1. eol = Find(str, CRLF, pos) /\ colon = FindAny(c, {ColonSign}, 1) /\ rs = <<Unescaped(a), Unescaped(b)>>
    OBVIOUS
  <2>2. SubSeq(c, 1, colon - 1) = a /\ Trim(After(c, colon), Illegal) = b
    BY <1>4
  <2> HIDE DEF eol, colon, rs
  <2> QED BY <1>9, <1>10, <1>12, <1>13, <2>1, <2>2, Zenon DEF ParseLine
<1> HIDE DEF rs
<1>15. field.ok /\ field.val = <<a, y>>
  BY <1>11 DEF Returns
<1> HIDE DEF field
<1> QED BY <1>6, <1>14, <1>15, Zenon DEF FieldAndRest

(***************************************************************************)
(* The fields of a request                                                 *)
(***************************************************************************)

\* Names as parse_fields leaves them, and values that are not empty.
Fieldings == {fields \in Pairings :
                 \A i \in 1..Len(fields) : IsName(fields[i][1]) /\ Len(fields[i][2]) >= 1}

\* A client's fields, each a line, with the value escaped.
FieldLines(fields) == [i \in DOMAIN fields |-> Line(fields[i][1], Escape(fields[i][2]))]

Fields(fields) == JoinTo(FieldLines(fields), Len(fields))

\* Where the lines are.
LinesAre(str, fields, before) ==
    LET n == Len(fields)
        text_of(i) == FieldText(fields[i][1], Escape(fields[i][2]))
    IN /\ before[1] = 0 /\ before[n + 1] = Len(str)
       /\ \A i \in 1..n : /\ before[i] \in Nat /\ LineAt(str, before[i], text_of(i))
                          /\ before[i + 1] = (before[i] + Len(text_of(i))) + 2

\* What is not empty is escaped to something.
LEMMA EscapeNotEmpty ==
    ASSUME NEW str \in Seq(Byte), Len(str) >= 1
    PROVE  Len(Escape(str)) >= 1
<1> DEFINE e == Escape(str)
<1>1. e \in Seq(Byte) /\ Unescaped(e) = Returns(str)
  BY EscapeIsEscaped, EscapeIsUndone DEF IsEscaped
<1>2. Unescaped(<<>>) = Returns(<<>>)
  BY CodesNothing DEF Codes
<1>3. str # <<>>
  OBVIOUS
<1> HIDE DEF e
<1>4. ASSUME e = <<>> PROVE FALSE
  <2>1. Returns(str) = Returns(<<>>)
    BY <1>1, <1>2, <1>4
  <2>2. Returns(str).val = str /\ Returns(<<>>).val = <<>>
    BY DEF Returns
  <2> QED BY <1>3, <2>1, <2>2
<1>5. Len(e) \in Nat /\ (Len(e) = 0 => e = <<>>)
  BY <1>1
<1> QED BY <1>4, <1>5 DEF e

LEMMA LinesHavePlaces ==
    ASSUME NEW fields \in Fieldings
    PROVE  /\ Fields(fields) \in Seq(Byte)
           /\ \E before : LinesAre(Fields(fields), fields, before)
<1> DEFINE n == Len(fields)   f == FieldLines(fields)   g == [i \in 1..n |-> Len(f[i])]
           c(i) == FieldText(fields[i][1], Escape(fields[i][2]))
           before == [i \in 1..(n + 1) |-> SumTo(g, i - 1)]
           str == Fields(fields)
<1>1. /\ n \in Nat /\ DOMAIN fields = 1..n
      /\ \A i \in 1..n : fields[i][1] \in Seq(Byte) /\ fields[i][2] \in Seq(Byte)
  BY PairsHaveTexts DEF Fieldings
<1> HIDE DEF n
<1>2. \A i \in 1..n : f[i] = c(i) \o CRLF
  <2>1. f = [i \in 1..n |-> Line(fields[i][1], Escape(fields[i][2]))]
    BY <1>1 DEF FieldLines
  <2> HIDE DEF f
  <2>2. \A i \in 1..n : f[i] = Line(fields[i][1], Escape(fields[i][2]))
    BY <2>1
  <2> QED BY <2>2 DEF Line, FieldText
<1>3. str = JoinTo(f, n)
  BY DEF Fields, n
<1> HIDE DEF f, str
<1>4. CRLF \in Seq(Byte) /\ Len(CRLF) = 2 /\ CRLF[1] = CarriageReturn /\ CRLF[2] = LineFeed
  BY DEF CRLF, CarriageReturn, LineFeed, Byte
<1>5. ASSUME NEW i \in 1..n
      PROVE  /\ f[i] \in Seq(Byte) /\ Len(c(i)) \in Nat /\ Len(f[i]) = Len(c(i)) + 2
             /\ \A p \in 1..Len(c(i)) : f[i][p] = c(i)[p]
             /\ f[i][Len(c(i)) + 1] = CarriageReturn /\ f[i][Len(c(i)) + 2] = LineFeed
  <2> DEFINE t == c(i)   u == t \o CRLF   x == fields[i][1]   y == Escape(fields[i][2])
  <2>1. x \in Seq(Byte) /\ y \in Seq(Byte)
    BY <1>1, EscapeIsEscaped DEF IsEscaped
  <2>2. FieldIs(FieldText(x, y), x, y)
    BY <2>1, FieldHasParts
  <2>3. t \in Seq(Byte)
    BY <2>2, Zenon DEF FieldIs
  <2>4. f[i] = u
    BY <1>2
  <2> HIDE DEF t
  <2>5. /\ u \in Seq(Byte) /\ Len(u) = Len(t) + Len(CRLF)
        /\ \A p \in 1..Len(t) : u[p] = t[p]
        /\ \A p \in 1..Len(CRLF) : u[Len(t) + p] = CRLF[p]
    BY <1>4, <2>3, Concatenate DEF Concatenated
  <2> HIDE DEF u
  <2>6. 1 \in 1..Len(CRLF) /\ 2 \in 1..Len(CRLF)
    BY <1>4
  <2>7. /\ u \in Seq(Byte) /\ Len(t) \in Nat /\ Len(u) = Len(t) + 2
        /\ \A p \in 1..Len(t) : u[p] = t[p]
        /\ u[Len(t) + 1] = CarriageReturn /\ u[Len(t) + 2] = LineFeed
    BY <1>4, <2>3, <2>5, <2>6
  <2> QED BY <2>4, <2>7, Zenon DEF t
<1> HIDE DEF c
<1>6. \A i \in 1..n : f[i] \in Seq(Byte) /\ g[i] = Len(f[i]) /\ g[i] \in Nat
  <2>1. \A i \in 1..n : Len(f[i]) \in Nat
    BY <1>5
  <2> QED BY <1>5, <2>1
<1> HIDE DEF g
<1>7. str \in Seq(Byte) /\ Len(str) = SumTo(g, n) /\ ElementsIn(f, g, n, str)
  <2>1. \A k \in 1..n : f[k] \in Seq(Byte) /\ g[k] = Len(f[k])
    BY <1>6
  <2>2. JoinTo(f, n) \in Seq(Byte)
    BY <1>1, <1>6, JoinToIsJoin
  <2>3. Len(JoinTo(f, n)) = SumTo(g, n)
    BY <1>1, <2>1, JoinPlaces
  <2>4. ElementsIn(f, g, n, JoinTo(f, n))
    BY <1>1, <2>1, JoinHolds
  <2> QED BY <1>3, <2>2, <2>3, <2>4
<1>8. before[1] = 0 /\ before[n + 1] = Len(str)
  <2>1. 1 \in 1..(n + 1) /\ n + 1 \in 1..(n + 1) /\ 1 - 1 = 0 /\ (n + 1) - 1 = n
    BY <1>1
  <2> QED BY <1>7, <2>1, SumZero
<1>9. ASSUME NEW i \in 1..n
      PROVE  /\ before[i] \in Nat /\ LineAt(str, before[i], c(i))
             /\ before[i + 1] = (before[i] + Len(c(i))) + 2
  <2> DEFINE j == i - 1   d == SumTo(g, j)   m == Len(c(i))
  <2>1. j \in Nat /\ j + 1 = i /\ j \in 0..n /\ i \in 0..n /\ i \in 1..(n + 1) /\ i + 1 \in 1..(n + 1) /\ (i + 1) - 1 = i
    BY <1>1
  <2>2. before[i] = d /\ before[i + 1] = SumTo(g, i)
    BY <2>1
  <2>3. \A p \in 1..Len(f[i]) : str[d + p] = f[i][p]
    BY <1>7 DEF ElementsIn
  <2> HIDE DEF j, before
  <2>4. d \in Nat
    BY <1>1, <1>6, <2>1, SumNat
  <2>5. SumTo(g, j + 1) = SumTo(g, j) + g[j + 1]
    <3>1. \A k \in 1..(j + 1) : k \in 1..n
      BY <1>1, <2>1
    <3>2. \A k \in 1..(j + 1) : g[k] \in Nat
      BY <1>6, <3>1
    <3> QED BY <2>1, <3>2, SumEquations
  <2>6. SumTo(g, i) <= Len(str)
    <3>1. n \in 0..n /\ i \in 0..n
      BY <1>1, <2>1
    <3>2. SumTo(g, i) <= SumTo(g, n)
      BY <1>1, <1>6, <3>1, SumGrows
    <3> QED BY <1>7, <3>2
  <2> HIDE DEF d
  <2>7. m \in Nat /\ Len(f[i]) = m + 2 /\ Len(str) \in Nat
    BY <1>5, <1>7
  <2>8. SumTo(g, i) = (d + m) + 2
    <3>1. SumTo(g, i) = d + (m + 2)
      BY <1>6, <2>1, <2>5, <2>7 DEF d
    <3> HIDE DEF m
    <3> QED BY <2>4, <2>7, <3>1
  <2>9. /\ \A p \in 1..m : p \in 1..Len(f[i]) /\ f[i][p] = c(i)[p]
        /\ m + 1 \in 1..Len(f[i]) /\ m + 2 \in 1..Len(f[i])
        /\ f[i][m + 1] = CarriageReturn /\ f[i][m + 2] = LineFeed
    BY <1>5, <2>7
  <2>10. LiesAt(str, d, c(i))
    <3>1. \A p \in 1..m : str[d + p] = c(i)[p]
      BY <2>3, <2>9
    <3>2. d + m <= Len(str)
      <4> HIDE DEF m
      <4> QED BY <2>4, <2>6, <2>7, <2>8
    <3> QED BY <3>1, <3>2 DEF LiesAt
  <2>11. EndsLine(str, (d + m) + 1)
    <3>1. str[d + (m + 1)] = CarriageReturn /\ str[d + (m + 2)] = LineFeed
      BY <2>3, <2>9
    <3> HIDE DEF m
    <3>2. /\ d + (m + 1) = (d + m) + 1 /\ d + (m + 2) = ((d + m) + 1) + 1
          /\ ((d + m) + 1) + 1 <= Len(str)
      BY <2>4, <2>6, <2>7, <2>8
    <3>3. str[(d + m) + 1] = CarriageReturn /\ str[((d + m) + 1) + 1] = LineFeed
      BY <3>1, <3>2
    <3> QED BY <3>2, <3>3 DEF EndsLine
  <2> QED BY <2>2, <2>4, <2>8, <2>10, <2>11 DEF LineAt
<1> HIDE DEF before
<1>10. LinesAre(str, fields, before)
  BY <1>8, <1>9 DEF LinesAre, n, c
<1> QED BY <1>7, <1>10 DEF str

\* Whatever fields a client sends, as long as their values are not empty, parse_fields
\* makes them of the lines again, however many they are and whatever bytes the values
\* contain.
THEOREM FieldsArrive ==
    \A fields \in Fieldings : parse_fields(Fields(fields)) = Returns(fields)
<1> SUFFICES ASSUME NEW fields \in Fieldings
             PROVE  parse_fields(Fields(fields)) = Returns(fields)
  OBVIOUS
<1> DEFINE str == Fields(fields)   n == Len(fields)
           c(i) == FieldText(fields[i][1], Escape(fields[i][2]))
<1>1. /\ n \in Nat /\ fields \in Seq(Seq(Byte) \X Seq(Byte))
      /\ \A i \in 1..n : /\ fields[i][1] \in Seq(Byte) /\ fields[i][2] \in Seq(Byte)
                         /\ fields[i] = <<fields[i][1], fields[i][2]>>
                         /\ IsName(fields[i][1]) /\ Len(fields[i][2]) >= 1
  BY PairsHaveTexts DEF Fieldings, Pairings
<1>2. str \in Seq(Byte) /\ \E before : LinesAre(str, fields, before)
  BY LinesHavePlaces
<1> HIDE DEF str
<1>3. PICK before : LinesAre(str, fields, before)
  BY <1>2
<1>4. /\ before[1] = 0 /\ before[n + 1] = Len(str)
      /\ \A i \in 1..n : /\ before[i] \in Nat /\ LineAt(str, before[i], c(i))
                         /\ before[i + 1] = (before[i] + Len(c(i))) + 2
  BY <1>3 DEF LinesAre
<1>5. PICK from : IsParse(str, from) /\ parse_fields(str) = from[1]
  BY <1>2, ParseIs
<1> HIDE DEF n
<1>6. from[Len(str) + 1] = Returns(<<>>)
  <2> DEFINE q == Len(str) + 1
  <2>1. q \in Positions(str) /\ q \in Nat \ {0}
    BY <1>2 DEF Positions
  <2>2. \A i \in Nat : i >= q => ~EndsLine(str, i)
    BY <1>2 DEF EndsLine
  <2>3. Find(str, CRLF, q) = 0
    <3> HIDE DEF q
    <3> QED BY <1>2, <2>1, <2>2, FindLineEnd
  <2> HIDE DEF q
  <2>4. from[q] = ParseLine(str, from, q)
    BY <1>5, <2>1 DEF IsParse
  <2> QED BY <2>3, <2>4 DEF ParseLine, q
<1> DEFINE rest(i) == SubSeq(fields, i, n)
           H == {i \in 1..n : from[before[i] + 1] = Returns(rest(i))}
<1>7. ASSUME NEW i \in 1..n, \A j \in 1..n : j > i => j \in H PROVE i \in H
  <2> DEFINE a == fields[i][1]   y == fields[i][2]   d == before[i]   m == Len(c(i))
             pos == d + 1   next == (d + m) + 3
  <2>1. /\ a \in Seq(Byte) /\ y \in Seq(Byte) /\ IsName(a) /\ Len(y) >= 1 /\ fields[i] = <<a, y>>
        /\ d \in Nat /\ LineAt(str, d, FieldText(a, Escape(y))) /\ before[i + 1] = (d + m) + 2
        /\ m = Len(FieldText(a, Escape(y)))
    BY <1>1, <1>4
  <2> HIDE DEF a, y, d, m
  <2>2. IsEscaped(Escape(y)) /\ Unescaped(Escape(y)) = Returns(y)
    BY <2>1, EscapeIsEscaped, EscapeIsUndone
  <2>3. Len(Escape(y)) >= 1
    BY <2>1, EscapeNotEmpty
  <2>4. pos = d + 1 /\ next = (d + Len(FieldText(a, Escape(y)))) + 3
    BY <2>1
  <2> HIDE DEF pos
  <2>5. ParseLine(str, from, pos) = FieldAndRest(<<a, y>>, from[next])
    <3> HIDE DEF next
    <3> QED BY <1>2, <2>1, <2>2, <2>3, <2>4, LineIsRead
  <2>6. pos \in Positions(str) /\ next = before[i + 1] + 1
    <3>1. FieldText(a, Escape(y)) \in Seq(Byte)
      <4>1. Escape(y) \in Seq(Byte)
        BY <2>2 DEF IsEscaped
      <4>2. FieldIs(FieldText(a, Escape(y)), a, Escape(y))
        BY <2>1, <4>1, FieldHasParts
      <4> QED BY <4>2, Zenon DEF FieldIs
    <3>2. m \in Nat /\ Len(str) \in Nat
      BY <1>2, <2>1, <3>1
    <3>3. d + m <= Len(str) /\ ((d + m) + 1) + 1 <= Len(str)
      BY <2>1 DEF LineAt, LiesAt, EndsLine
    <3>4. pos \in 1..(Len(str) + 1)
      BY <2>1, <3>2, <3>3 DEF pos
    <3>5. next = before[i + 1] + 1
      BY <2>1, <3>2
    <3> QED BY <3>4, <3>5 DEF Positions
  <2> HIDE DEF next
  <2>7. from[pos] = ParseLine(str, from, pos)
    BY <1>5, <2>6 DEF IsParse
  <2>8. from[pos] = FieldAndRest(<<a, y>>, from[next])
    BY <2>5, <2>7
  <2>9. rest(i) = <<fields[i]>> \o rest(i + 1)
    BY <1>1, SubSeqRecursiveFirst DEF n
  <2>10. from[next] = Returns(rest(i + 1))
    <3>1. CASE i = n
      <4>1. rest(i + 1) = <<>>
        BY <1>1, <3>1, SubSeqEmpty
      <4>2. next = Len(str) + 1
        BY <1>4, <2>6, <3>1
      <4> QED BY <1>6, <4>1, <4>2
    <3>2. CASE i # n
      <4>1. i + 1 \in 1..n /\ i + 1 > i
        BY <1>1, <3>2
      <4> QED BY <1>7, <2>6, <4>1
    <3> QED BY <3>1, <3>2
  <2> DEFINE later == rest(i + 1)
  <2>11. from[next] = Returns(later) /\ rest(i) = <<fields[i]>> \o later
    BY <2>9, <2>10
  <2> HIDE DEF later
  <2>12. Returns(later).ok /\ Returns(later).val = later
    BY DEF Returns
  <2>13. from[pos] = Returns(<<<<a, y>>>> \o later)
    BY <2>8, <2>11, <2>12, Zenon DEF FieldAndRest
  <2>14. from[pos] = Returns(rest(i))
    BY <2>1, <2>11, <2>13
  <2> QED BY <2>14 DEF pos, d
<1> HIDE DEF H
<1>8. \A i \in 1..n : i \in H
  BY <1>1, <1>7, FromTheEnd
<1>9. from[1] = Returns(fields)
  <2>1. CASE n = 0
    <3>1. n + 1 = 1
      BY <2>1
    <3>2. before[1] = Len(str)
      BY <1>4, <3>1
    <3>3. Len(str) + 1 = 1
      BY <1>4, <3>2
    <3>4. fields = <<>>
      BY <1>1, <2>1 DEF n
    <3> QED BY <1>6, <3>3, <3>4
  <2>2. CASE n # 0
    <3>1. 1 \in H
      BY <1>1, <1>8, <2>2
    <3>2. rest(1) = fields
      BY <1>1, SubSeqFull DEF n
    <3>3. before[1] + 1 = 1
      BY <1>4
    <3> QED BY <3>1, <3>2, <3>3 DEF H
  <2> QED BY <2>1, <2>2
<1> QED BY <1>5, <1>9 DEF str
=============================================================================
