-------------------------- MODULE FrameParserProofs --------------------------
(***************************************************************************)
(* The parser gives back what was encoded, proved for any base, headers,   *)
(* payloads and noise, any number of frames, and any cut of the stream.    *)
(***************************************************************************)
EXTENDS FrameParser, SequenceTheorems, TLAPS

-----------------------------------------------------------------------------
(* The inductive invariant speaks of places in the stream.                 *)

\* Where frame i ends; the stream begins after frame 0.
Ends(i) == IF i = 0 THEN 0 ELSE EndOf(sent[i])

\* The length that the two bytes behind place k of the bytes s spell.
LengthAt(s, k) == s[k + 1] + Base * s[k + 2]

\* The frame f is in the stream.
Framed(f) ==
  /\ f.at >= 1 /\ EndOf(f) <= Len(stream)
  /\ stream[f.at] \in Headers
  /\ LengthAt(stream, f.at) = Len(f.payload)
  /\ \A k \in 1 .. Len(f.payload) : stream[f.at + 2 + k] = f.payload[k]

\* The stream is made of the frames, in order, and between them no byte is a
\* header.
StreamInv ==
  /\ stream \in Seq(Bytes)
  /\ sent \in Seq([payload : Payloads, at : Nat])
  /\ Len(stream) = Ends(Len(sent))
  /\ \A i \in 1 .. Len(sent) : Framed(sent[i])
  /\ \A i \in 0 .. Len(sent) : \A j \in 1 .. Len(sent) : i < j => Ends(i) < sent[j].at
  /\ \A j \in 1 .. Len(sent) :
       \A k \in Ends(j - 1) + 1 .. sent[j].at - 1 : stream[k] \notin Headers

\* How many bytes are used up, and how many frames have been found.
Used  == fed - Len(parser.buffer)
Found == Len(frames) + Len(found)

\* What each variable holds.
Types ==
  /\ fed \in 0 .. Len(stream)
  /\ parser \in [header_byte : Bytes \cup {None}, expected_len : Nat \cup {None},
                 buffer : Seq(Bytes)]
  /\ feeding \in BOOLEAN
  /\ found \in Seq(Payloads)
  /\ frames \in Seq(Payloads)

\* The buffer holds what has been read and not used up.
BufferInv ==
  /\ Len(parser.buffer) <= fed
  /\ \A k \in 1 .. Len(parser.buffer) : parser.buffer[k] = stream[Used + k]

\* What was found is what was sent first.
FoundInv ==
  /\ Found <= Len(sent)
  /\ \A i \in 1 .. Len(frames) : frames[i] = sent[i].payload
  /\ \A i \in 1 .. Len(found) : found[i] = sent[Len(frames) + i].payload

\* The parser is where it believes to be: before the next frame, behind its
\* header or behind its length.
PlaceInv ==
  /\ NeedsHeader =>
       /\ parser.expected_len = None /\ Ends(Found) <= Used
       /\ Found < Len(sent) => Used < sent[Found + 1].at
  /\ NeedsLength => Found < Len(sent) /\ Used = sent[Found + 1].at
  /\ NeedsPayload =>
       /\ Found < Len(sent) /\ Used = sent[Found + 1].at + 2
       /\ parser.expected_len = Len(sent[Found + 1].payload)

\* Between two calls of feed the loop could not go on.
IdleInv ==
  ~feeding =>
    /\ found = << >>
    /\ NeedsHeader => parser.buffer = << >>
    /\ NeedsLength => Len(parser.buffer) < 2
    /\ NeedsPayload => Len(parser.buffer) < parser.expected_len

\* The inductive invariant.
ParserInv == StreamInv /\ Types /\ BufferInv /\ FoundInv /\ PlaceInv /\ IdleInv

-----------------------------------------------------------------------------
(* Sequences and numbers.                                                  *)

\* Division with remainder.
LEMMA Division ==
  ASSUME NEW b \in Nat \ {0}, NEW n \in Nat
  PROVE  /\ n % b \in 0 .. b - 1 /\ n \div b \in Nat
         /\ n = b * (n \div b) + (n % b)
<1>1. n % b \in 0 .. b - 1 /\ n \div b \in Nat OBVIOUS
<1>2. n = b * (n \div b) + (n % b) BY SMT
<1> QED BY <1>1, <1>2

\* A number is made of its two digits, and these are digits.
LEMMA Digits ==
  ASSUME NEW b \in Nat \ {0}, NEW n \in Nat, n < b * b
  PROVE  /\ n % b \in 0 .. b - 1 /\ n \div b \in 0 .. b - 1
         /\ (n % b) + b * (n \div b) = n
<1>1. n % b \in 0 .. b - 1 /\ n \div b \in Nat /\ n = b * (n \div b) + (n % b) BY Division
<1> DEFINE q == n \div b
           r == n % b
<1>4. q < b
  <2>1. q \in Nat /\ r \in Nat /\ n = b * q + r BY <1>1
  <2> HIDE DEF q, r
  <2>2. SUFFICES ASSUME q >= b PROVE FALSE BY <2>1
  <2>3. b * q >= b * b BY <2>1, <2>2
  <2> QED BY <2>1, <2>3
<1> QED BY <1>1, <1>4

\* The number itself, where u16 does not wrap.
LEMMA Narrow ==
  ASSUME NEW m \in Nat \ {0}, NEW n \in Nat, n < m
  PROVE  n % m = n
OBVIOUS

\* The elements of a concatenation.
LEMMA Joined ==
  ASSUME NEW S, NEW s \in Seq(S), NEW t \in Seq(S)
  PROVE  /\ s \o t \in Seq(S) /\ Len(s \o t) = Len(s) + Len(t)
         /\ Len(s) \in Nat /\ Len(t) \in Nat
         /\ \A k \in 1 .. Len(s) : (s \o t)[k] = s[k]
         /\ \A k \in 1 .. Len(t) : (s \o t)[Len(s) + k] = t[k]
OBVIOUS

\* The end of a sequence from its element n + 1 on.
LEMMA Rest ==
  ASSUME NEW S, NEW s \in Seq(S), NEW n \in 0 .. Len(s)
  PROVE  /\ SubSeq(s, n + 1, Len(s)) \in Seq(S)
         /\ Len(SubSeq(s, n + 1, Len(s))) = Len(s) - n
         /\ \A k \in 1 .. Len(s) - n : SubSeq(s, n + 1, Len(s))[k] = s[n + k]
OBVIOUS

\* A piece of a sequence, behind its element m.
LEMMA Piece ==
  ASSUME NEW S, NEW s \in Seq(S), NEW m \in Nat, NEW n \in m .. Len(s)
  PROVE  /\ SubSeq(s, m + 1, n) \in Seq(S)
         /\ Len(SubSeq(s, m + 1, n)) = n - m
         /\ \A k \in 1 .. n - m : SubSeq(s, m + 1, n)[k] = s[m + k]
OBVIOUS

\* encode puts the header, the length in two digits and the payload.
LEMMA Encoded ==
  ASSUME NEW h \in Headers, NEW p \in Payloads
  PROVE  /\ encode(h, p) \in Seq(Bytes) /\ Len(p) \in Nat
         /\ Len(encode(h, p)) = 3 + Len(p)
         /\ encode(h, p)[1] = h
         /\ encode(h, p)[2] + Base * encode(h, p)[3] = Len(p)
         /\ \A k \in 1 .. Len(p) : encode(h, p)[3 + k] = p[k]
<1>1. /\ h \in Bytes /\ p \in Seq(Bytes) /\ Len(p) \in Nat /\ Base \in Nat \ {0}
      /\ Len(p) < Base * Base
  BY FramesAssumption
<1>2. Base * Base \in Nat \ {0} BY <1>1
<1>3. u16(Len(p)) = Len(p) BY <1>1, <1>2, Narrow DEF u16
<1> DEFINE lo == u16(Len(p)) % Base
           hi == u16(Len(p)) \div Base
           e  == <<h, lo, hi>>
<1>4. lo \in Bytes /\ hi \in Bytes /\ lo + Base * hi = Len(p)
  BY <1>1, <1>3, Digits DEF Bytes
<1>5. encode(h, p) = e \o p BY DEF encode
<1> HIDE DEF lo, hi
<1>6. e \in Seq(Bytes) /\ Len(e) = 3 /\ e[1] = h /\ e[2] = lo /\ e[3] = hi BY <1>1, <1>4
<1> HIDE DEF e
<1>7. /\ e \o p \in Seq(Bytes) /\ Len(e \o p) = Len(e) + Len(p)
      /\ \A k \in 1 .. Len(e) : (e \o p)[k] = e[k]
      /\ \A k \in 1 .. Len(p) : (e \o p)[Len(e) + k] = p[k]
  <2>1. e \in Seq(Bytes) /\ p \in Seq(Bytes) BY <1>1, <1>6
  <2> QED BY <2>1
<1> QED BY <1>1, <1>4, <1>5, <1>6, <1>7

-----------------------------------------------------------------------------
(* What the invariant says in numbers.                                     *)

\* Lengths and places are numbers.
LEMMA Numbers ==
  ASSUME ParserInv
  PROVE  /\ fed \in Nat /\ Len(stream) \in Nat /\ Len(sent) \in Nat /\ fed <= Len(stream)
         /\ parser.buffer \in Seq(Bytes) /\ Len(parser.buffer) \in Nat
         /\ Len(frames) \in Nat /\ Len(found) \in Nat /\ Found \in 0 .. Len(sent)
         /\ Used \in Nat /\ fed = Used + Len(parser.buffer)
<1>1. /\ fed \in 0 .. Len(stream) /\ stream \in Seq(Bytes) /\ parser.buffer \in Seq(Bytes)
      /\ Len(sent) \in Nat /\ frames \in Seq(Payloads) /\ found \in Seq(Payloads)
  BY DEF ParserInv, StreamInv, Types
<1>2. /\ Len(stream) \in Nat /\ Len(parser.buffer) \in Nat
      /\ Len(frames) \in Nat /\ Len(found) \in Nat
  BY <1>1
<1>3. Found \in 0 .. Len(sent) BY <1>1, <1>2 DEF ParserInv, FoundInv, Found
<1>4. Used \in Nat /\ fed = Used + Len(parser.buffer)
  BY <1>1, <1>2 DEF ParserInv, BufferInv, Used
<1> QED BY <1>1, <1>2, <1>3, <1>4

\* A frame that was sent is in the stream, behind the one before.
LEMMA FrameFacts ==
  ASSUME StreamInv, NEW i \in 1 .. Len(sent)
  PROVE  /\ sent[i].at \in Nat /\ sent[i].payload \in Payloads
         /\ sent[i].payload \in Seq(Bytes) /\ Len(sent[i].payload) \in Nat
         /\ Ends(i) = sent[i].at + 2 + Len(sent[i].payload)
         /\ Ends(i) <= Len(stream) /\ Ends(i) \in Nat
         /\ Ends(i - 1) < sent[i].at
         /\ stream[sent[i].at] \in Headers
         /\ LengthAt(stream, sent[i].at) = Len(sent[i].payload)
         /\ \A k \in 1 .. Len(sent[i].payload) :
              stream[sent[i].at + 2 + k] = sent[i].payload[k]
         /\ \A k \in Ends(i - 1) + 1 .. sent[i].at - 1 : stream[k] \notin Headers
<1>1. sent[i] \in [payload : Payloads, at : Nat] BY ElementOfSeq DEF StreamInv
<1>2. /\ sent[i].at \in Nat /\ sent[i].payload \in Payloads
      /\ sent[i].payload \in Seq(Bytes)
  BY <1>1, FramesAssumption
<1>3. Len(sent[i].payload) \in Nat BY <1>2
<1>4. Framed(sent[i]) BY DEF StreamInv
<1>5. i # 0 /\ i - 1 \in 0 .. Len(sent) /\ i - 1 < i /\ Len(sent) \in Nat BY DEF StreamInv
<1>6. Ends(i) = sent[i].at + 2 + Len(sent[i].payload) BY <1>5 DEF Ends, EndOf
<1>7. Ends(i) <= Len(stream) /\ Ends(i) \in Nat BY <1>2, <1>3, <1>4, <1>6 DEF Framed, EndOf
<1>8. Ends(i - 1) < sent[i].at BY <1>5 DEF StreamInv
<1>9. \A k \in Ends(i - 1) + 1 .. sent[i].at - 1 : stream[k] \notin Headers BY DEF StreamInv
<1> QED BY <1>2, <1>3, <1>4, <1>6, <1>7, <1>8, <1>9, Zenon DEF Framed

\* The ends of frames are numbers, in order.
LEMMA EndsOrdered ==
  ASSUME StreamInv
  PROVE  /\ \A i \in 0 .. Len(sent) : Ends(i) \in Nat /\ Ends(i) <= Len(stream)
         /\ \A i \in 0 .. Len(sent) : \A j \in 1 .. Len(sent) :
              i < j => Ends(i) < sent[j].at /\ Ends(i) + 3 <= Ends(j)
<1>1. Len(stream) \in Nat /\ Len(sent) \in Nat BY DEF StreamInv
<1>2. \A i \in 1 .. Len(sent) : Ends(i) \in Nat /\ Ends(i) <= Len(stream) BY FrameFacts
<1>3. Ends(0) = 0 BY DEF Ends
<1>4. \A i \in 0 .. Len(sent) : Ends(i) \in Nat /\ Ends(i) <= Len(stream)
  BY <1>1, <1>2, <1>3
<1>5. ASSUME NEW i \in 0 .. Len(sent), NEW j \in 1 .. Len(sent), i < j
      PROVE  Ends(i) < sent[j].at /\ Ends(i) + 3 <= Ends(j)
  <2>1. Ends(i) < sent[j].at BY <1>5 DEF StreamInv
  <2>2. /\ sent[j].at \in Nat /\ Len(sent[j].payload) \in Nat
        /\ Ends(j) = sent[j].at + 2 + Len(sent[j].payload)
    BY FrameFacts
  <2> QED BY <1>4, <2>1, <2>2
<1> QED BY <1>4, <1>5

-----------------------------------------------------------------------------
(* The turns of the loop.                                                  *)

\* The bytes of the buffer that a turn takes are used up; the others stay.
LEMMA UsesUp ==
  ASSUME ParserInv, NEW n \in 0 .. Len(parser.buffer),
         parser'.buffer = SubSeq(parser.buffer, n + 1, Len(parser.buffer)),
         fed' = fed, stream' = stream
  PROVE  BufferInv' /\ Used' = Used + n /\ parser'.buffer \in Seq(Bytes)
         /\ Len(parser'.buffer) = Len(parser.buffer) - n
<1>1. /\ fed \in Nat /\ parser.buffer \in Seq(Bytes) /\ Len(parser.buffer) \in Nat
      /\ Used \in Nat /\ fed = Used + Len(parser.buffer)
  BY Numbers
<1>2. \A k \in 1 .. Len(parser.buffer) : parser.buffer[k] = stream[Used + k]
  BY DEF ParserInv, BufferInv
<1>3. /\ parser'.buffer \in Seq(Bytes)
      /\ Len(parser'.buffer) = Len(parser.buffer) - n
      /\ \A k \in 1 .. Len(parser.buffer) - n : parser'.buffer[k] = parser.buffer[n + k]
  BY <1>1, Rest
<1>4. Used' = Used + n
  <2>1. Used' = fed - Len(parser'.buffer) BY Zenon DEF Used
  <2> DEFINE l == Len(parser.buffer)
             m == Len(parser'.buffer)
  <2>2. /\ fed \in Nat /\ l \in Nat /\ n \in 0 .. l /\ fed = Used + l /\ Used \in Nat
        /\ m = l - n /\ Used' = fed - m
    BY <1>1, <1>3, <2>1, Zenon
  <2> HIDE DEF l, m
  <2> QED BY <2>2
<1>5. ASSUME NEW k \in 1 .. Len(parser'.buffer) PROVE parser'.buffer[k] = stream'[Used' + k]
  <2>1. parser'.buffer[k] = parser.buffer[n + k] BY <1>3
  <2>2. n + k \in 1 .. Len(parser.buffer) BY <1>1, <1>3
  <2>3. parser.buffer[n + k] = stream[Used + (n + k)] BY <1>2, <2>2
  <2>4. Used + (n + k) = Used' + k BY <1>1, <1>3, <1>4
  <2> QED BY <2>1, <2>3, <2>4
<1>6. Len(parser'.buffer) <= fed' BY <1>1, <1>3
<1> QED BY <1>3, <1>4, <1>5, <1>6 DEF BufferInv

\* A turn leaves the stream alone.
LEMMA SameStream ==
  ASSUME StreamInv, stream' = stream, sent' = sent
  PROVE  StreamInv' /\ \A i : Ends(i)' = Ends(i)
BY DEF StreamInv, Ends, Framed, EndOf

\* Of a buffer that is not empty, Head is the first and Tail the others.
LEMMA HeadOfBuffer ==
  ASSUME ParserInv, parser.buffer # << >>
  PROVE  /\ Head(parser.buffer) = stream[Used + 1] /\ Head(parser.buffer) \in Bytes
         /\ Tail(parser.buffer) = SubSeq(parser.buffer, 1 + 1, Len(parser.buffer))
         /\ 1 \in 0 .. Len(parser.buffer)
         /\ Used + 1 <= Len(stream)
<1>1. /\ fed \in Nat /\ parser.buffer \in Seq(Bytes) /\ Len(parser.buffer) \in Nat
      /\ Used \in Nat /\ fed = Used + Len(parser.buffer) /\ fed <= Len(stream)
      /\ Len(stream) \in Nat
  BY Numbers
<1>2. Len(parser.buffer) # 0 BY <1>1
<1>3. /\ Head(parser.buffer) = parser.buffer[1] /\ Head(parser.buffer) \in Bytes
      /\ Tail(parser.buffer) = SubSeq(parser.buffer, 2, Len(parser.buffer))
  BY <1>1, <1>2
<1>4. parser.buffer[1] = stream[Used + 1] BY <1>1, <1>2 DEF ParserInv, BufferInv
<1> QED BY <1>1, <1>2, <1>3, <1>4

\* The next frame begins behind what is used up, if the parser looks for one.
LEMMA NextFrame ==
  ASSUME ParserInv, Found < Len(sent)
  PROVE  /\ Found + 1 \in 1 .. Len(sent) /\ (Found + 1) - 1 = Found
         /\ Found \in 0 .. Len(sent)
BY Numbers

\* A byte that is no header is not the beginning of the next frame.
LEMMA SkipByteKeeps ==
  ASSUME ParserInv, feeding, SkipByte, UNCHANGED <<stream, sent, fed>>
  PROVE  ParserInv'
<1>1. /\ NeedsHeader /\ parser.buffer # << >> /\ Head(parser.buffer) \notin Headers
      /\ parser' = [parser EXCEPT !.buffer = Tail(@)]
      /\ feeding' = feeding /\ found' = found /\ frames' = frames
      /\ stream' = stream /\ sent' = sent /\ fed' = fed
  BY Zenon DEF SkipByte, Skipped
<1>2. Types /\ StreamInv /\ FoundInv /\ PlaceInv BY DEF ParserInv
<1>3. /\ parser'.header_byte = parser.header_byte /\ parser'.expected_len = parser.expected_len
      /\ parser'.buffer = Tail(parser.buffer)
  BY <1>1, <1>2 DEF Types
<1>4. /\ BufferInv' /\ Used' = Used + 1 /\ parser'.buffer \in Seq(Bytes)
      /\ Len(parser'.buffer) = Len(parser.buffer) - 1
  BY <1>1, <1>3, UsesUp, HeadOfBuffer
<1>5. StreamInv' /\ \A i : Ends(i)' = Ends(i) BY <1>1, <1>2, SameStream
<1>6. Found' = Found BY <1>1 DEF Found
<1>7. FoundInv' BY <1>1, <1>2 DEF FoundInv, Found
<1>8. Types' BY <1>1, <1>2, <1>4 DEF Types
<1>9. PlaceInv'
  <2>1. parser.expected_len = None /\ Ends(Found) <= Used BY <1>1, <1>2 DEF PlaceInv
  <2>2. Found \in 0 .. Len(sent) /\ Used \in Nat /\ Len(sent) \in Nat BY Numbers
  <2>3. Ends(Found) \in Nat BY <1>2, <2>2, EndsOrdered
  <2>4. Ends(Found)' <= Used'
    <3>1. Ends(Found)' = Ends(Found) BY <1>1, <1>6, Zenon DEF Ends, EndOf
    <3> QED BY <1>4, <2>1, <2>2, <2>3, <3>1
  <2>5. ASSUME Found < Len(sent) PROVE Used + 1 < sent[Found + 1].at
    <3>1. Used < sent[Found + 1].at BY <1>1, <1>2, <2>5 DEF PlaceInv
    <3>2. sent[Found + 1].at \in Nat /\ stream[sent[Found + 1].at] \in Headers
      BY <1>2, <2>5, NextFrame, FrameFacts
    <3>3. stream[Used + 1] \notin Headers BY <1>1, HeadOfBuffer
    <3> QED BY <2>2, <3>1, <3>2, <3>3
  <2>6. NeedsHeader' /\ ~NeedsLength' /\ ~NeedsPayload'
    BY <1>1, <1>3 DEF NeedsHeader, NeedsLength, NeedsPayload
  <2> QED BY <1>1, <1>3, <1>4, <1>6, <2>1, <2>4, <2>5, <2>6 DEF PlaceInv
<1>10. IdleInv' BY <1>1 DEF IdleInv
<1> QED BY <1>4, <1>5, <1>7, <1>8, <1>9, <1>10 DEF ParserInv

\* A header byte where one is looked for is the next frame's.
LEMMA ReadHeaderKeeps ==
  ASSUME ParserInv, feeding, ReadHeader, UNCHANGED <<stream, sent, fed>>
  PROVE  ParserInv'
<1>1. /\ NeedsHeader /\ parser.buffer # << >> /\ Head(parser.buffer) \in Headers
      /\ parser' = [parser EXCEPT !.header_byte = Head(parser.buffer), !.buffer = Tail(@)]
      /\ feeding' = feeding /\ found' = found /\ frames' = frames
      /\ stream' = stream /\ sent' = sent /\ fed' = fed
  BY Zenon DEF ReadHeader, WithHeader
<1>2. Types /\ StreamInv /\ FoundInv /\ PlaceInv BY DEF ParserInv
<1>3. /\ parser'.header_byte = Head(parser.buffer) /\ parser'.expected_len = parser.expected_len
      /\ parser'.buffer = Tail(parser.buffer)
  BY <1>1, <1>2 DEF Types
<1>4. /\ BufferInv' /\ Used' = Used + 1 /\ parser'.buffer \in Seq(Bytes)
      /\ Len(parser'.buffer) = Len(parser.buffer) - 1
  BY <1>1, <1>3, UsesUp, HeadOfBuffer
<1>5. StreamInv' BY <1>1, <1>2, SameStream
<1>6. Found' = Found BY <1>1 DEF Found
<1>7. FoundInv' BY <1>1, <1>2 DEF FoundInv, Found
<1>8. Head(parser.buffer) \in Bytes /\ Head(parser.buffer) # None
  BY <1>1, HeadOfBuffer, FramesAssumption DEF Bytes, None
<1>9. Types' BY <1>1, <1>2, <1>4, <1>8 DEF Types
<1>10. PlaceInv'
  <2>1. parser.expected_len = None /\ Ends(Found) <= Used BY <1>1, <1>2 DEF PlaceInv
  <2>2. Found \in 0 .. Len(sent) /\ Used \in Nat /\ Len(sent) \in Nat /\ Len(stream) \in Nat
    BY Numbers
  <2>3. stream[Used + 1] \in Headers /\ Used + 1 <= Len(stream) BY <1>1, HeadOfBuffer
  <2>4. Found < Len(sent)
    <3>1. Len(stream) = Ends(Len(sent)) BY <1>2 DEF StreamInv
    <3>2. Found # Len(sent) BY <2>1, <2>2, <2>3, <3>1
    <3> QED BY <2>2, <3>2
  <2>5. Used < sent[Found + 1].at BY <1>1, <1>2, <2>4 DEF PlaceInv
  <2>6. /\ sent[Found + 1].at \in Nat
        /\ \A k \in Ends(Found) + 1 .. sent[Found + 1].at - 1 : stream[k] \notin Headers
    BY <1>2, <2>4, NextFrame, FrameFacts
  <2>7. Ends(Found) \in Nat BY <1>2, <2>2, EndsOrdered
  <2>8. Used + 1 = sent[Found + 1].at BY <2>1, <2>2, <2>3, <2>5, <2>6, <2>7
  <2>9. ~NeedsHeader' /\ NeedsLength' /\ ~NeedsPayload'
    BY <1>3, <1>8, <2>1 DEF NeedsHeader, NeedsLength, NeedsPayload
  <2> QED BY <1>1, <1>4, <1>6, <2>4, <2>8, <2>9 DEF PlaceInv
<1>11. IdleInv' BY <1>1 DEF IdleInv
<1> QED BY <1>4, <1>5, <1>7, <1>9, <1>10, <1>11 DEF ParserInv

\* The two bytes behind the header are the length of the payload.
LEMMA ReadLengthKeeps ==
  ASSUME ParserInv, feeding, ReadLength, UNCHANGED <<stream, sent, fed>>
  PROVE  ParserInv'
<1>1. /\ NeedsLength /\ Len(parser.buffer) >= 2
      /\ parser' = [parser EXCEPT !.expected_len = parser.buffer[1] + Base * parser.buffer[2],
                                  !.buffer = SubSeq(@, 3, Len(@))]
      /\ feeding' = feeding /\ found' = found /\ frames' = frames
      /\ stream' = stream /\ sent' = sent /\ fed' = fed
  BY Zenon DEF ReadLength, WithLength
<1>2. Types /\ StreamInv /\ FoundInv /\ PlaceInv BY DEF ParserInv
<1>3. /\ parser'.header_byte = parser.header_byte
      /\ parser'.expected_len = parser.buffer[1] + Base * parser.buffer[2]
      /\ parser'.buffer = SubSeq(parser.buffer, 2 + 1, Len(parser.buffer))
  BY <1>1, <1>2 DEF Types
<1>4. Len(parser.buffer) \in Nat /\ Used \in Nat BY Numbers
<1>5. 2 \in 0 .. Len(parser.buffer) BY <1>1, <1>4
<1>6. BufferInv' /\ Used' = Used + 2 /\ parser'.buffer \in Seq(Bytes)
  BY <1>1, <1>3, <1>5, UsesUp
<1>7. StreamInv' BY <1>1, <1>2, SameStream
<1>8. Found' = Found BY <1>1 DEF Found
<1>9. FoundInv' BY <1>1, <1>2 DEF FoundInv, Found
<1>10. Found < Len(sent) /\ Used = sent[Found + 1].at BY <1>1, <1>2 DEF PlaceInv
<1>11. parser'.expected_len = Len(sent[Found + 1].payload) /\ parser'.expected_len \in Nat
  <2>1. parser.buffer[1] = stream[Used + 1] /\ parser.buffer[2] = stream[Used + 2]
    BY <1>4, <1>5 DEF ParserInv, BufferInv
  <2>2. /\ LengthAt(stream, sent[Found + 1].at) = Len(sent[Found + 1].payload)
        /\ Len(sent[Found + 1].payload) \in Nat
    BY <1>2, <1>10, NextFrame, FrameFacts
  <2> QED BY <1>3, <1>10, <2>1, <2>2 DEF LengthAt
<1>12. Types' BY <1>1, <1>2, <1>6, <1>11 DEF Types
<1>13. PlaceInv'
  <2>1. parser'.expected_len # None BY <1>11 DEF None
  <2>2. ~NeedsHeader' /\ ~NeedsLength' /\ NeedsPayload'
    BY <1>1, <1>3, <2>1 DEF NeedsHeader, NeedsLength, NeedsPayload
  <2> QED BY <1>1, <1>6, <1>8, <1>10, <1>11, <2>2 DEF PlaceInv
<1>14. IdleInv' BY <1>1 DEF IdleInv
<1> QED BY <1>6, <1>7, <1>9, <1>12, <1>13, <1>14 DEF ParserInv

\* As many bytes as the length says are the payload, and behind them the
\* parser looks for the frame that follows.
LEMMA TakePayloadKeeps ==
  ASSUME ParserInv, feeding, TakePayload, UNCHANGED <<stream, sent, fed>>
  PROVE  ParserInv'
<1> DEFINE n == Found + 1
           l == parser.expected_len
           p == SubSeq(parser.buffer, 1, l)
<1>1. /\ NeedsPayload /\ Len(parser.buffer) >= l
      /\ parser' = [header_byte |-> None, expected_len |-> None,
                    buffer |-> SubSeq(parser.buffer, l + 1, Len(parser.buffer))]
      /\ found' = Append(found, p)
      /\ feeding' = feeding /\ frames' = frames
      /\ stream' = stream /\ sent' = sent /\ fed' = fed
  BY Zenon DEF TakePayload, Restarted, Complete
<1>2. Types /\ StreamInv /\ FoundInv /\ PlaceInv BY DEF ParserInv
<1>3. /\ parser'.header_byte = None /\ parser'.expected_len = None
      /\ parser'.buffer = SubSeq(parser.buffer, l + 1, Len(parser.buffer))
  BY <1>1
<1>4. Found < Len(sent) /\ Used = sent[n].at + 2 /\ l = Len(sent[n].payload)
  BY <1>1, <1>2 DEF PlaceInv
<1>5. n \in 1 .. Len(sent) BY <1>4, NextFrame
<1>6. /\ sent[n].at \in Nat /\ sent[n].payload \in Payloads /\ sent[n].payload \in Seq(Bytes)
      /\ Len(sent[n].payload) \in Nat /\ Ends(n) = sent[n].at + 2 + Len(sent[n].payload)
      /\ \A k \in 1 .. Len(sent[n].payload) : stream[sent[n].at + 2 + k] = sent[n].payload[k]
  BY <1>2, <1>5, FrameFacts
<1>7. /\ Len(parser.buffer) \in Nat /\ parser.buffer \in Seq(Bytes) /\ Used \in Nat
      /\ Len(frames) \in Nat /\ Len(found) \in Nat /\ Found \in Nat /\ Len(sent) \in Nat
  BY Numbers
<1>8. l \in Nat /\ l \in 0 .. Len(parser.buffer) BY <1>1, <1>4, <1>6, <1>7
<1>9. BufferInv' /\ Used' = Used + l /\ parser'.buffer \in Seq(Bytes)
  BY <1>1, <1>3, <1>8, UsesUp
<1>10. StreamInv' BY <1>1, <1>2, SameStream
<1>11. p = sent[n].payload
  <2>1. \A k \in 1 .. Len(parser.buffer) : parser.buffer[k] = stream[Used + k]
    BY DEF ParserInv, BufferInv
  <2>2. p \in Seq(Bytes) /\ Len(p) = l /\ \A k \in 1 .. l : p[k] = parser.buffer[k]
    BY <1>7, <1>8
  <2>3. \A k \in 1 .. l : p[k] = sent[n].payload[k]
    <3>1. TAKE k \in 1 .. l
    <3>2. k \in 1 .. Len(parser.buffer) BY <1>7, <1>8
    <3>3. parser.buffer[k] = stream[sent[n].at + 2 + k] BY <1>4, <2>1, <3>2
    <3> QED BY <1>4, <1>6, <2>2, <3>3
  <2> HIDE DEF p, n, l
  <2> QED BY <1>4, <1>6, <2>2, <2>3, SeqEqual
<1>12. /\ found' \in Seq(Payloads) /\ Len(found') = Len(found) + 1
       /\ \A i \in 1 .. Len(found) : found'[i] = found[i]
       /\ found'[Len(found) + 1] = sent[n].payload
  <2>1. found \in Seq(Payloads) /\ sent[n].payload \in Payloads BY <1>2, <1>6 DEF Types
  <2>2. found' = Append(found, sent[n].payload) BY <1>1, <1>11, Zenon
  <2> HIDE DEF n
  <2> QED BY <2>1, <2>2
<1>13. Found' = n
  <2>1. Found' = Len(frames) + Len(found') BY <1>1, Zenon DEF Found
  <2>2. Found = Len(frames) + Len(found) BY DEF Found
  <2> QED BY <1>7, <1>12, <2>1, <2>2
<1>14. FoundInv'
  <2>1. /\ \A i \in 1 .. Len(frames) : frames[i] = sent[i].payload
        /\ \A i \in 1 .. Len(found) : found[i] = sent[Len(frames) + i].payload
    BY <1>2 DEF FoundInv
  <2>2. n = Len(frames) + (Len(found) + 1) BY <1>7 DEF Found
  <2>3. \A i \in 1 .. Len(found') : found'[i] = sent[Len(frames) + i].payload
    <3>1. TAKE i \in 1 .. Len(found')
    <3>2. CASE i = Len(found) + 1 BY <1>12, <2>2, <3>2
    <3>3. CASE i \in 1 .. Len(found) BY <1>12, <2>1, <3>3
    <3> QED BY <1>7, <1>12, <3>2, <3>3
  <2>4. Found' <= Len(sent') BY <1>1, <1>5, <1>13
  <2> QED BY <1>1, <2>1, <2>3, <2>4 DEF FoundInv
<1>15. Types' BY <1>1, <1>2, <1>3, <1>9, <1>12 DEF Types
<1>16. PlaceInv'
  <2>1. NeedsHeader' /\ ~NeedsLength' /\ ~NeedsPayload'
    BY <1>3 DEF NeedsHeader, NeedsLength, NeedsPayload
  <2>2. Used' = Ends(n) BY <1>4, <1>6, <1>9
  <2>3. Ends(Found)' = Ends(n) BY <1>1, <1>13, Zenon DEF Ends, EndOf
  <2>4. Ends(n) \in Nat BY <1>4, <1>6
  <2>5. ASSUME n < Len(sent) PROVE Ends(n) < sent[n + 1].at
    <3>1. n \in 0 .. Len(sent) /\ n + 1 \in 1 .. Len(sent) /\ n < n + 1 BY <1>5, <1>7, <2>5
    <3> HIDE DEF n
    <3> QED BY <1>2, <3>1, EndsOrdered
  <2> QED BY <1>1, <1>3, <1>13, <2>1, <2>2, <2>3, <2>4, <2>5 DEF PlaceInv
<1>17. IdleInv' BY <1>1 DEF IdleInv
<1> QED BY <1>9, <1>10, <1>14, <1>15, <1>16, <1>17 DEF ParserInv

\* feed returns what it has found when the buffer is too short to go on.
LEMMA ReturnKeeps ==
  ASSUME ParserInv, feeding, Return, UNCHANGED <<stream, sent, fed>>
  PROVE  ParserInv'
<1>1. /\ \/ NeedsHeader /\ parser.buffer = << >>
         \/ NeedsLength /\ Len(parser.buffer) < 2
         \/ NeedsPayload /\ ~Complete(parser)
      /\ feeding' = FALSE /\ frames' = frames \o found /\ found' = << >> /\ parser' = parser
      /\ stream' = stream /\ sent' = sent /\ fed' = fed
  BY Zenon DEF Return
<1>2. Types /\ StreamInv /\ BufferInv /\ FoundInv /\ PlaceInv BY DEF ParserInv
<1>3. frames \in Seq(Payloads) /\ found \in Seq(Payloads) BY <1>2 DEF Types
<1>4. /\ frames' \in Seq(Payloads) /\ Len(frames') = Len(frames) + Len(found)
      /\ Len(frames) \in Nat /\ Len(found) \in Nat
      /\ \A k \in 1 .. Len(frames) : frames'[k] = frames[k]
      /\ \A k \in 1 .. Len(found) : frames'[Len(frames) + k] = found[k]
  BY <1>1, <1>3, Joined
<1>5. found' \in Seq(Payloads) /\ Len(found') = 0 BY <1>1
<1>6. Found' = Found
  <2>1. Found' = Len(frames') + Len(found') BY Zenon DEF Found
  <2>2. Found = Len(frames) + Len(found) BY DEF Found
  <2> QED BY <1>4, <1>5, <2>1, <2>2
<1>7. StreamInv' BY <1>1, <1>2, SameStream
<1>8. Types' BY <1>1, <1>2, <1>4, <1>5 DEF Types
<1>9. BufferInv' BY <1>1, <1>2 DEF BufferInv, Used
<1>10. FoundInv'
  <2>1. /\ \A i \in 1 .. Len(frames) : frames[i] = sent[i].payload
        /\ \A i \in 1 .. Len(found) : found[i] = sent[Len(frames) + i].payload
        /\ Found <= Len(sent)
    BY <1>2 DEF FoundInv
  <2>2. ASSUME NEW i \in 1 .. Len(frames') PROVE frames'[i] = sent[i].payload
    <3>1. CASE i \in 1 .. Len(frames) BY <1>4, <2>1, <3>1
    <3>2. CASE i > Len(frames)
      <4>1. i - Len(frames) \in 1 .. Len(found) /\ Len(frames) + (i - Len(frames)) = i
        BY <1>4, <3>2
      <4> QED BY <1>4, <2>1, <4>1
    <3> QED BY <1>4, <3>1, <3>2
  <2> QED BY <1>1, <1>5, <1>6, <2>1, <2>2 DEF FoundInv
<1>11. PlaceInv'
  <2>1. Used' = Used /\ Ends(Found)' = Ends(Found) BY <1>1, <1>6, Zenon DEF Used, Ends, EndOf
  <2>2. NeedsHeader' = NeedsHeader /\ NeedsLength' = NeedsLength /\ NeedsPayload' = NeedsPayload
    BY <1>1, Zenon DEF NeedsHeader, NeedsLength, NeedsPayload
  <2> QED BY <1>1, <1>2, <1>6, <2>1, <2>2 DEF PlaceInv
<1>12. IdleInv'
  <2>1. parser.expected_len \in Nat \cup {None} /\ Len(parser.buffer) \in Nat BY <1>2, Numbers DEF Types
  <2>2. NeedsPayload /\ ~Complete(parser) => Len(parser.buffer) < parser.expected_len
    BY <2>1 DEF NeedsPayload, Complete, None
  <2> QED BY <1>1, <2>2 DEF IdleInv, NeedsHeader, NeedsLength, NeedsPayload
<1> QED BY <1>7, <1>8, <1>9, <1>10, <1>11, <1>12 DEF ParserInv

\* A read puts the next bytes of the stream at the end of the buffer.
LEMMA ReadKeeps ==
  ASSUME ParserInv, Read
  PROVE  ParserInv'
<1>1. PICK n \in fed + 1 .. Len(stream) :
        /\ parser' = [parser EXCEPT !.buffer = @ \o SubSeq(stream, fed + 1, n)]
        /\ fed' = n
  BY Zenon DEF Read
<1>2. /\ feeding' = TRUE /\ stream' = stream /\ sent' = sent /\ found' = found
      /\ frames' = frames
  BY Zenon DEF Read
<1>3. Types /\ StreamInv /\ BufferInv /\ FoundInv /\ PlaceInv BY DEF ParserInv
<1>4. /\ fed \in Nat /\ Len(stream) \in Nat /\ parser.buffer \in Seq(Bytes)
      /\ Len(parser.buffer) \in Nat /\ Used \in Nat /\ fed = Used + Len(parser.buffer)
  BY Numbers
<1> DEFINE more == SubSeq(stream, fed + 1, n)
           l    == Len(parser.buffer)
<1>5. /\ more \in Seq(Bytes) /\ Len(more) = n - fed
      /\ \A k \in 1 .. n - fed : more[k] = stream[fed + k]
  <2>1. stream \in Seq(Bytes) /\ n \in fed .. Len(stream) BY <1>3, <1>4 DEF StreamInv
  <2> QED BY <1>4, <2>1, Piece
<1>6. /\ parser'.header_byte = parser.header_byte /\ parser'.expected_len = parser.expected_len
      /\ parser'.buffer = parser.buffer \o more
  BY <1>1, <1>3 DEF Types
<1> HIDE DEF more
<1>7. /\ parser'.buffer \in Seq(Bytes) /\ Len(parser'.buffer) = l + (n - fed)
      /\ \A k \in 1 .. l : parser'.buffer[k] = parser.buffer[k]
      /\ \A k \in 1 .. n - fed : parser'.buffer[l + k] = more[k]
  BY <1>4, <1>5, <1>6, Joined
<1>8. Used' = Used
  <2>1. Used' = n - Len(parser'.buffer) BY <1>1, Zenon DEF Used
  <2> DEFINE m == Len(parser'.buffer)
  <2>2. /\ l \in Nat /\ fed = Used + l /\ Used \in Nat /\ fed \in Nat /\ n \in fed + 1 .. Len(stream)
        /\ m = l + (n - fed) /\ Used' = n - m /\ Len(stream) \in Nat
    BY <1>4, <1>7, <2>1, Zenon
  <2> HIDE DEF l, m
  <2> QED BY <2>2
<1>9. BufferInv'
  <2>1. \A k \in 1 .. l : parser.buffer[k] = stream[Used + k] BY <1>3 DEF BufferInv
  <2>2. ASSUME NEW k \in 1 .. Len(parser'.buffer) PROVE parser'.buffer[k] = stream[Used + k]
    <3>1. CASE k \in 1 .. l BY <1>7, <2>1, <3>1
    <3>2. CASE k > l
      <4>1. k - l \in 1 .. n - fed /\ l + (k - l) = k /\ fed + (k - l) = Used + k
        <5>1. /\ l \in Nat /\ fed = Used + l /\ Used \in Nat /\ fed \in Nat /\ k > l
              /\ n \in fed + 1 .. Len(stream) /\ Len(stream) \in Nat /\ k \in 1 .. l + (n - fed)
          BY <1>4, <1>7, <3>2, Zenon
        <5> HIDE DEF l
        <5> QED BY <5>1
      <4> QED BY <1>5, <1>7, <4>1
    <3> QED BY <1>4, <1>7, <3>1, <3>2
  <2>3. Len(parser'.buffer) <= fed' BY <1>1, <1>4, <1>7
  <2> QED BY <1>2, <1>8, <2>2, <2>3 DEF BufferInv
<1>10. StreamInv' BY <1>2, <1>3, SameStream
<1>11. Types'
  <2>1. fed' \in 0 .. Len(stream') BY <1>1, <1>2, <1>4
  <2>2. parser' \in [header_byte : Bytes \cup {None}, expected_len : Nat \cup {None},
                     buffer : Seq(Bytes)]
    BY <1>1, <1>3, <1>6, <1>7 DEF Types
  <2> QED BY <1>2, <1>3, <2>1, <2>2 DEF Types
<1>12. Found' = Found /\ FoundInv' BY <1>2, <1>3 DEF FoundInv, Found
<1>13. PlaceInv'
  <2>1. Ends(Found)' = Ends(Found) BY <1>2, <1>12, Zenon DEF Ends, EndOf
  <2>2. NeedsHeader' = NeedsHeader /\ NeedsLength' = NeedsLength /\ NeedsPayload' = NeedsPayload
    BY <1>6, Zenon DEF NeedsHeader, NeedsLength, NeedsPayload
  <2> QED BY <1>2, <1>3, <1>6, <1>8, <1>12, <2>1, <2>2 DEF PlaceInv
<1>14. IdleInv' BY <1>2 DEF IdleInv
<1> QED BY <1>9, <1>10, <1>11, <1>12, <1>13, <1>14 DEF ParserInv

-----------------------------------------------------------------------------
(* The writer.                                                             *)

\* The stream t is s with the noise and the frame e behind it.
Follows(t, s, noise, e) == t = s \o noise \o e

\* In the stream t, a frame with payload p begins at place at; before it are s
\* and bytes that are no header.
Placed(t, s, p, at) ==
  /\ t \in Seq(Bytes) /\ Len(s) \in Nat /\ Len(p) \in Nat
  /\ at \in Nat /\ at > Len(s) /\ Len(t) = at + 2 + Len(p)
  /\ \A k \in 1 .. Len(s) : t[k] = s[k]
  /\ \A k \in Len(s) + 1 .. at - 1 : t[k] \notin Headers
  /\ t[at] \in Headers
  /\ LengthAt(t, at) = Len(p)
  /\ \A k \in 1 .. Len(p) : t[at + 2 + k] = p[k]

\* The stream keeps its bytes; behind them come the noise and the frame.
LEMMA Written ==
  ASSUME NEW s \in Seq(Bytes), NEW h \in Headers, NEW p \in Payloads, NEW noise \in Noise,
         NEW t, Follows(t, s, noise, encode(h, p)), NEW at, at = Len(s) + Len(noise) + 1
  PROVE  Placed(t, s, p, at)
<1> DEFINE e == encode(h, p)
           u == s \o noise
<1>1. /\ noise \in Seq(Bytes) /\ Len(noise) \in Nat /\ Len(s) \in Nat
      /\ \A k \in 1 .. Len(noise) : noise[k] \notin Headers
  <2>1. noise \in Seq(Bytes \ Headers) BY FramesAssumption
  <2>2. noise \in Seq(Bytes) BY <2>1, SeqMonotonic
  <2>3. \A k \in 1 .. Len(noise) : noise[k] \in Bytes \ Headers BY <2>1, ElementOfSeq
  <2> QED BY <2>1, <2>2, <2>3
<1>2. /\ e \in Seq(Bytes) /\ Len(p) \in Nat /\ Len(e) = 3 + Len(p) /\ e[1] = h
      /\ e[2] + Base * e[3] = Len(p)
      /\ \A k \in 1 .. Len(p) : e[3 + k] = p[k]
  BY Encoded
<1> HIDE DEF e
<1>3. /\ u \in Seq(Bytes) /\ Len(u) = Len(s) + Len(noise)
      /\ \A k \in 1 .. Len(s) : u[k] = s[k]
      /\ \A k \in 1 .. Len(noise) : u[Len(s) + k] = noise[k]
  BY <1>1, Joined
<1>4. t = u \o e BY Zenon DEF u, e, Follows
<1> HIDE DEF u
<1>5. /\ t \in Seq(Bytes) /\ Len(t) = Len(u) + Len(e) /\ Len(u) \in Nat
      /\ \A k \in 1 .. Len(u) : t[k] = u[k]
      /\ \A k \in 1 .. Len(e) : t[Len(u) + k] = e[k]
  <2>1. u \in Seq(Bytes) /\ e \in Seq(Bytes) BY <1>2, <1>3
  <2> QED BY <1>4, <2>1
<1>6. at \in Nat /\ at > Len(s) /\ at = Len(u) + 1 /\ Len(t) = at + 2 + Len(p)
  BY <1>1, <1>2, <1>3, <1>5
<1>7. \A k \in 1 .. Len(s) : t[k] = s[k] BY <1>1, <1>3, <1>5
<1>8. ASSUME NEW k \in Len(s) + 1 .. at - 1 PROVE t[k] \notin Headers
  <2>1. k \in 1 .. Len(u) /\ k - Len(s) \in 1 .. Len(noise) /\ Len(s) + (k - Len(s)) = k
    BY <1>1, <1>3, <1>6
  <2> QED BY <1>1, <1>3, <1>5, <2>1
<1>9. t[at] = e[1] /\ t[at + 1] = e[2] /\ t[at + 2] = e[3]
  <2>1. 1 \in 1 .. Len(e) /\ 2 \in 1 .. Len(e) /\ 3 \in 1 .. Len(e) BY <1>2
  <2>2. at = Len(u) + 1 /\ at + 1 = Len(u) + 2 /\ at + 2 = Len(u) + 3 BY <1>5, <1>6
  <2> QED BY <1>5, <2>1, <2>2
<1>10. ASSUME NEW k \in 1 .. Len(p) PROVE t[at + 2 + k] = p[k]
  <2>1. at + 2 + k = Len(u) + (3 + k) /\ 3 + k \in 1 .. Len(e)
    <3> DEFINE a == Len(u)
               b == Len(e)
               c == Len(p)
    <3>1. a \in Nat /\ c \in Nat /\ b = 3 + c /\ at = a + 1 /\ k \in 1 .. c
      BY <1>2, <1>5, <1>6, Zenon
    <3> HIDE DEF a, b, c
    <3>2. at + 2 + k = a + (3 + k) /\ 3 + k \in 1 .. b BY <3>1
    <3> QED BY <3>2 DEF a, b
  <2> QED BY <1>2, <1>5, <2>1
<1>11. LengthAt(t, at) = Len(p) /\ t[at] \in Headers BY <1>2, <1>9 DEF LengthAt
<1> QED BY <1>1, <1>2, <1>5, <1>6, <1>7, <1>8, <1>10, <1>11, Zenon DEF Placed

\* The frame that is written is in the stream, and the others stay there.
LEMMA WriteStream ==
  ASSUME StreamInv, Write
  PROVE  /\ StreamInv' /\ Len(stream) <= Len(stream') /\ Len(sent') = Len(sent) + 1
         /\ \A k \in 1 .. Len(stream) : stream'[k] = stream[k]
         /\ \A i \in 1 .. Len(sent) : sent'[i] = sent[i]
         /\ \A i \in 0 .. Len(sent) : Ends(i)' = Ends(i)
         /\ sent'[Len(sent) + 1].at > Len(stream)
<1>1. PICK h \in Headers, p \in Payloads, noise \in Noise :
        /\ stream' = stream \o noise \o encode(h, p)
        /\ sent' = Append(sent, [payload |-> p, at |-> Len(stream) + Len(noise) + 1])
  BY Zenon DEF Write
<1> DEFINE at == Len(stream) + Len(noise) + 1
           f  == [payload |-> p, at |-> at]
<1>2. stream \in Seq(Bytes) /\ sent \in Seq([payload : Payloads, at : Nat]) /\ Len(sent) \in Nat
  BY DEF StreamInv
<1> PICK n \in Nat : n = Len(sent) + 1 BY <1>2
<1>3. Placed(stream', stream, p, at)
  <2>1. Follows(stream', stream, noise, encode(h, p)) BY <1>1 DEF Follows
  <2> QED BY <1>2, <2>1, Written, Zenon
<1> HIDE DEF at
<1>4. /\ stream' \in Seq(Bytes) /\ Len(stream) \in Nat /\ Len(p) \in Nat
      /\ at \in Nat /\ at > Len(stream) /\ Len(stream') = at + 2 + Len(p)
  BY <1>3 DEF Placed
<1>5. \A k \in 1 .. Len(stream) : stream'[k] = stream[k] BY <1>3 DEF Placed
<1>6. f \in [payload : Payloads, at : Nat] /\ f.at = at /\ f.payload = p BY <1>4
<1>7. sent' = Append(sent, f) BY <1>1, Zenon DEF at
<1> HIDE DEF f
<1>8. /\ sent' \in Seq([payload : Payloads, at : Nat]) /\ Len(sent') = n
      /\ \A i \in 1 .. Len(sent) : sent'[i] = sent[i]
      /\ sent'[n] = f
  BY <1>2, <1>6, <1>7
<1>9. \A i \in 0 .. Len(sent) : Ends(i)' = Ends(i)
  <2>1. TAKE i \in 0 .. Len(sent)
  <2>2. CASE i = 0 BY <2>2, Zenon DEF Ends
  <2>3. CASE i # 0
    <3>1. i \in 1 .. Len(sent) BY <1>2, <2>3
    <3>2. sent'[i] = sent[i] BY <1>8, <3>1
    <3> QED BY <2>3, <3>2, Zenon DEF Ends, EndOf
  <2> QED BY <2>2, <2>3
<1>10. Ends(n)' = at + 2 + Len(p) /\ n # 0
  <2>1. n # 0 BY <1>2
  <2>2. Ends(n)' = sent'[n].at + 2 + Len(sent'[n].payload) BY <2>1, Zenon DEF Ends, EndOf
  <2> QED BY <1>6, <1>8, <2>1, <2>2
<1>11. Len(stream') = Ends(Len(sent))'
  <2>1. Ends(Len(sent))' = Ends(n)' BY <1>8, Zenon DEF Ends
  <2> QED BY <1>4, <1>10, <2>1
<1>12. ASSUME NEW i \in 1 .. Len(sent') PROVE Framed(sent[i])'
  <2>1. CASE i = n
    BY <1>3, <1>6, <1>8, <2>1 DEF Framed, EndOf, Placed
  <2>2. CASE i \in 1 .. Len(sent)
    <3>1. /\ sent[i].at \in Nat /\ Len(sent[i].payload) \in Nat
          /\ Ends(i) = sent[i].at + 2 + Len(sent[i].payload)
          /\ Ends(i) <= Len(stream) /\ Ends(i - 1) < sent[i].at
          /\ stream[sent[i].at] \in Headers
          /\ LengthAt(stream, sent[i].at) = Len(sent[i].payload)
          /\ \A k \in 1 .. Len(sent[i].payload) :
               stream[sent[i].at + 2 + k] = sent[i].payload[k]
      BY <2>2, FrameFacts
    <3>2. Ends(i - 1) \in Nat
      <4>1. i - 1 \in 0 .. Len(sent) BY <1>2, <2>2
      <4> QED BY <4>1, EndsOrdered
    <3> DEFINE a == sent[i].at
               m == Len(sent[i].payload)
    <3>3. a \in Nat /\ m \in Nat /\ a >= 1 /\ a + 2 + m <= Len(stream) BY <3>1, <3>2
    <3>4. sent'[i] = sent[i] BY <1>8, <2>2
    <3> HIDE DEF a, m
    <3>5. stream'[a] = stream[a] /\ stream'[a + 1] = stream[a + 1] /\ stream'[a + 2] = stream[a + 2]
      <4>1. a \in 1 .. Len(stream) /\ a + 1 \in 1 .. Len(stream) /\ a + 2 \in 1 .. Len(stream)
        BY <1>4, <3>3
      <4> QED BY <1>5, <4>1
    <3>6. ASSUME NEW k \in 1 .. m PROVE stream'[a + 2 + k] = stream[a + 2 + k]
      <4>1. a + 2 + k \in 1 .. Len(stream) BY <1>4, <3>3
      <4> QED BY <1>5, <4>1
    <3>7. a + 2 + m <= Len(stream') BY <1>4, <3>3
    <3> USE DEF a, m
    <3>8. LengthAt(stream', a) = LengthAt(stream, a) BY <3>5 DEF LengthAt
    <3> QED BY <3>1, <3>3, <3>4, <3>5, <3>6, <3>7, <3>8 DEF Framed, EndOf
  <2> QED BY <1>2, <1>8, <2>1, <2>2
<1>13. ASSUME NEW i \in 0 .. Len(sent'), NEW j \in 1 .. Len(sent'), i < j
       PROVE  Ends(i)' < sent'[j].at
  <2>1. i \in 0 .. Len(sent) BY <1>2, <1>8, <1>13
  <2>2. Ends(i)' = Ends(i) /\ Ends(i) \in Nat /\ Ends(i) <= Len(stream) BY <1>9, <2>1, EndsOrdered
  <2>3. CASE j = n BY <1>4, <1>6, <1>8, <2>2, <2>3
  <2>4. CASE j \in 1 .. Len(sent) BY <1>8, <1>13, <2>1, <2>2, <2>4, EndsOrdered
  <2> QED BY <1>2, <1>8, <2>3, <2>4
<1>14. ASSUME NEW j \in 1 .. Len(sent'), NEW k \in Ends(j - 1)' + 1 .. sent'[j].at - 1
       PROVE  stream'[k] \notin Headers
  <2>1. j - 1 \in 0 .. Len(sent) BY <1>2, <1>8
  <2>2. Ends(j - 1)' = Ends(j - 1) /\ Ends(j - 1) \in Nat BY <1>9, <2>1, EndsOrdered
  <2>3. CASE j = n
    <3>1. Ends(j - 1) = Len(stream) BY <1>2, <2>3 DEF StreamInv
    <3> QED BY <1>3, <1>6, <1>8, <2>2, <2>3, <3>1 DEF Placed
  <2>4. CASE j \in 1 .. Len(sent)
    <3>1. /\ sent[j].at \in Nat /\ Ends(j) = sent[j].at + 2 + Len(sent[j].payload)
          /\ Len(sent[j].payload) \in Nat /\ Ends(j) <= Len(stream)
          /\ \A x \in Ends(j - 1) + 1 .. sent[j].at - 1 : stream[x] \notin Headers
      BY <2>4, FrameFacts
    <3>2. sent'[j] = sent[j] BY <1>8, <2>4
    <3>3. k \in 1 .. Len(stream) /\ k \in Ends(j - 1) + 1 .. sent[j].at - 1
      <4>1. k \in Ends(j - 1) + 1 .. sent[j].at - 1 BY <2>2, <3>2
      <4>2. sent[j].at - 1 <= Len(stream)
        <5> DEFINE a == sent[j].at
                   m == Len(sent[j].payload)
                   e == Ends(j)
        <5>1. a \in Nat /\ m \in Nat /\ e = a + 2 + m /\ e <= Len(stream) /\ Len(stream) \in Nat
          BY <1>4, <3>1, Zenon
        <5> HIDE DEF a, m, e
        <5>2. a - 1 <= Len(stream) BY <5>1
        <5> QED BY <5>2 DEF a
      <4>3. Ends(j - 1) + 1 >= 1 BY <2>2
      <4>4. sent[j].at \in Nat BY <3>1
      <4> QED BY <1>4, <2>2, <4>1, <4>2, <4>3, <4>4
    <3> QED BY <1>5, <3>1, <3>3
  <2> QED BY <1>2, <1>8, <2>3, <2>4
<1>15. StreamInv' BY <1>4, <1>8, <1>11, <1>12, <1>13, <1>14 DEF StreamInv
<1> QED BY <1>4, <1>5, <1>6, <1>8, <1>9, <1>15

\* Bytes that are written do not move the parser.
LEMMA WriteKeeps ==
  ASSUME ParserInv, Write
  PROVE  ParserInv'
<1>1. /\ fed' = fed /\ parser' = parser /\ feeding' = feeding /\ found' = found
      /\ frames' = frames
  BY Zenon DEF Write
<1>2. StreamInv /\ Types /\ BufferInv /\ FoundInv /\ PlaceInv /\ IdleInv BY DEF ParserInv
<1>3. /\ StreamInv' /\ Len(stream) <= Len(stream') /\ Len(sent') = Len(sent) + 1
      /\ \A k \in 1 .. Len(stream) : stream'[k] = stream[k]
      /\ \A i \in 1 .. Len(sent) : sent'[i] = sent[i]
      /\ \A i \in 0 .. Len(sent) : Ends(i)' = Ends(i)
      /\ sent'[Len(sent) + 1].at > Len(stream)
  BY <1>2, WriteStream
<1>4. /\ fed \in Nat /\ Len(stream) \in Nat /\ Len(sent) \in Nat /\ fed <= Len(stream)
      /\ Len(parser.buffer) \in Nat /\ Len(frames) \in Nat /\ Len(found) \in Nat
      /\ Found \in 0 .. Len(sent) /\ Used \in Nat /\ fed = Used + Len(parser.buffer)
  BY Numbers
<1>5. Used' = Used /\ Found' = Found BY <1>1, Zenon DEF Used, Found
<1>6. Types'
  <2>1. Len(stream') \in Nat BY <1>3 DEF StreamInv
  <2>2. fed' \in 0 .. Len(stream') BY <1>1, <1>3, <1>4, <2>1
  <2> QED BY <1>1, <1>2, <2>2 DEF Types
<1>7. BufferInv'
  <2>1. ASSUME NEW k \in 1 .. Len(parser.buffer) PROVE parser.buffer[k] = stream'[Used + k]
    <3>1. Used + k \in 1 .. Len(stream) BY <1>4
    <3> QED BY <1>2, <1>3, <3>1 DEF BufferInv
  <2>2. Len(parser.buffer) <= fed BY <1>2 DEF BufferInv
  <2> QED BY <1>1, <1>5, <2>1, <2>2 DEF BufferInv
<1>8. FoundInv'
  <2>1. Found = Len(frames) + Len(found) BY DEF Found
  <2>2. \A i \in 1 .. Len(frames) : frames[i] = sent'[i].payload
    BY <1>2, <1>3, <1>4, <2>1 DEF FoundInv
  <2>3. ASSUME NEW i \in 1 .. Len(found) PROVE found[i] = sent'[Len(frames) + i].payload
    <3>1. Len(frames) + i \in 1 .. Len(sent) BY <1>4, <2>1
    <3> QED BY <1>2, <1>3, <3>1 DEF FoundInv
  <2>4. Found' <= Len(sent') BY <1>3, <1>4, <1>5
  <2> QED BY <1>1, <2>2, <2>3, <2>4 DEF FoundInv
<1>9. PlaceInv'
  <2>1. NeedsHeader' = NeedsHeader /\ NeedsLength' = NeedsLength /\ NeedsPayload' = NeedsPayload
    BY <1>1, Zenon DEF NeedsHeader, NeedsLength, NeedsPayload
  <2>2. Ends(Found)' = Ends(Found)
    <3>1. CASE Found = 0 BY <1>5, <3>1, Zenon DEF Ends
    <3>2. CASE Found # 0
      <4>1. Found \in 1 .. Len(sent) BY <1>4, <3>2
      <4>2. sent'[Found'] = sent[Found] BY <1>3, <1>5, <4>1
      <4> QED BY <1>5, <3>2, <4>2, Zenon DEF Ends, EndOf
    <3> QED BY <3>1, <3>2
  <2>3. Found < Len(sent) => sent'[Found + 1] = sent[Found + 1] BY <1>3, <1>4
  <2>4. Found < Len(sent') BY <1>3, <1>4
  <2>5. CASE NeedsHeader
    <3>1. /\ parser.expected_len = None /\ Ends(Found) <= Used
          /\ Found < Len(sent) => Used < sent[Found + 1].at
      BY <1>2, <2>5 DEF PlaceInv
    <3>2. Used < sent'[Found + 1].at
      <4>1. CASE Found < Len(sent) BY <2>3, <3>1, <4>1
      <4>2. CASE Found = Len(sent)
        <5>1. sent'[Len(sent) + 1].at \in Nat
          <6>1. Len(sent) + 1 \in 1 .. Len(sent') BY <1>3, <1>4
          <6>2. sent' \in Seq([payload : Payloads, at : Nat]) BY <1>3 DEF StreamInv
          <6>3. sent'[Len(sent) + 1] \in [payload : Payloads, at : Nat] BY <6>1, <6>2, ElementOfSeq
          <6> QED BY <6>3
        <5> QED BY <1>3, <1>4, <4>2, <5>1
      <4> QED BY <1>4, <4>1, <4>2
    <3>3. ~NeedsLength /\ ~NeedsPayload BY <2>5 DEF NeedsHeader, NeedsLength, NeedsPayload
    <3> QED BY <1>1, <1>5, <2>1, <2>2, <2>5, <3>1, <3>2, <3>3 DEF PlaceInv
  <2>6. CASE ~NeedsHeader
    BY <1>1, <1>2, <1>5, <2>1, <2>3, <2>4, <2>6 DEF PlaceInv
  <2> QED BY <2>5, <2>6
<1>10. IdleInv' BY <1>1, <1>2 DEF IdleInv, NeedsHeader, NeedsLength, NeedsPayload
<1> QED BY <1>3, <1>6, <1>7, <1>8, <1>9, <1>10 DEF ParserInv

-----------------------------------------------------------------------------
(* The theorems.                                                           *)

\* A new connection: nothing is written, the parser is new.
LEMMA ParserInit == Init => ParserInv
<1> SUFFICES ASSUME Init PROVE ParserInv OBVIOUS
<1>1. /\ stream = << >> /\ sent = << >> /\ fed = 0 /\ parser = New /\ feeding = FALSE
      /\ found = << >> /\ frames = << >>
  BY Zenon DEF Init
<1>2. /\ Len(stream) = 0 /\ Len(sent) = 0 /\ Len(found) = 0 /\ Len(frames) = 0
      /\ parser.buffer = << >> /\ Len(parser.buffer) = 0
      /\ parser.header_byte = None /\ parser.expected_len = None
  BY <1>1 DEF New
<1>3. Ends(0) = 0 /\ Found = 0 /\ Used = 0
  <2>1. fed = 0 /\ Len(parser.buffer) = 0 BY <1>1, <1>2, Zenon
  <2>2. Used = 0 BY <2>1 DEF Used
  <2>3. Found = 0 BY <1>2 DEF Found
  <2> QED BY <2>2, <2>3 DEF Ends
<1>4. StreamInv BY <1>1, <1>2, <1>3 DEF StreamInv
<1>5. Types
  <2>1. New \in [header_byte : Bytes \cup {None}, expected_len : Nat \cup {None},
                buffer : Seq(Bytes)]
    BY DEF New
  <2>2. fed \in 0 .. Len(stream) BY <1>1, <1>2
  <2>3. found \in Seq(Payloads) /\ frames \in Seq(Payloads) BY <1>1
  <2> QED BY <1>1, <2>1, <2>2, <2>3, Zenon DEF Types
<1>6. BufferInv /\ FoundInv BY <1>1, <1>2, <1>3 DEF BufferInv, FoundInv
<1>7. PlaceInv BY <1>2, <1>3 DEF PlaceInv, NeedsHeader, NeedsLength, NeedsPayload
<1>8. IdleInv BY <1>1, <1>2 DEF IdleInv, NeedsHeader, NeedsLength, NeedsPayload
<1> QED BY <1>4, <1>5, <1>6, <1>7, <1>8 DEF ParserInv

\* Whatever is written, read or parsed next.
LEMMA ParserStep == ParserInv /\ [Next]_vars => ParserInv'
<1> SUFFICES ASSUME ParserInv, [Next]_vars PROVE ParserInv' OBVIOUS
<1>1. CASE Write BY <1>1, WriteKeeps
<1>2. CASE Read BY <1>2, ReadKeeps
<1>3. CASE Turn
  <2>1. feeding /\ UNCHANGED <<stream, sent, fed>> BY <1>3 DEF Turn
  <2>2. CASE SkipByte BY <2>1, <2>2, SkipByteKeeps
  <2>3. CASE ReadHeader BY <2>1, <2>3, ReadHeaderKeeps
  <2>4. CASE ReadLength BY <2>1, <2>4, ReadLengthKeeps
  <2>5. CASE TakePayload BY <2>1, <2>5, TakePayloadKeeps
  <2>6. CASE Return BY <2>1, <2>6, ReturnKeeps
  <2> QED BY <1>3, <2>2, <2>3, <2>4, <2>5, <2>6 DEF Turn
<1>4. CASE UNCHANGED vars
  BY <1>4, Zenon DEF vars, ParserInv, StreamInv, Types, BufferInv, FoundInv, PlaceInv, IdleInv,
     Ends, EndOf, Framed, Used, Found, NeedsHeader, NeedsLength, NeedsPayload
<1> QED BY <1>1, <1>2, <1>3, <1>4 DEF Next

\* The parser is always where it believes to be in the stream, and has found
\* exactly the frames before that place.
THEOREM ParserInductive == Spec => []ParserInv
<1>1. Init => ParserInv BY ParserInit
<1>2. ParserInv /\ [Next]_vars => ParserInv' BY ParserStep
<1> QED BY <1>1, <1>2, PTL DEF Spec

\* feed gives back the payloads that encode was given, in order, however the
\* stream is cut and whatever bytes the payloads and lengths have.
THEOREM GivesBackWhatWasSent == Spec => []InOrder
<1>1. ParserInv => InOrder
  <2> SUFFICES ASSUME ParserInv PROVE InOrder OBVIOUS
  <2>1. Found \in 0 .. Len(sent) /\ Len(frames) \in Nat /\ Len(found) \in Nat /\ Len(sent) \in Nat
    BY Numbers
  <2>2. Len(frames) <= Len(sent) BY <2>1 DEF Found
  <2> QED BY <2>2 DEF ParserInv, FoundInv, InOrder
<1> QED BY <1>1, ParserInductive, PTL

\* When feed has returned, every frame that has been read to its last byte has
\* been returned, and the parser is new if nothing else has been read.
THEOREM ReturnsAllThatIsThere == Spec => []NothingHeldBack
<1>1. ParserInv => NothingHeldBack
  <2> SUFFICES ASSUME ParserInv, ~feeding
               PROVE  /\ \A i \in 1 .. Len(sent) : EndOf(sent[i]) <= fed => i <= Len(frames)
                      /\ fed = Len(stream) => parser = New
    BY DEF NothingHeldBack
  <2>1. StreamInv /\ Types /\ PlaceInv /\ IdleInv BY DEF ParserInv
  <2>2. /\ found = << >>
        /\ NeedsHeader => parser.buffer = << >>
        /\ NeedsLength => Len(parser.buffer) < 2
        /\ NeedsPayload => Len(parser.buffer) < parser.expected_len
    BY <2>1 DEF IdleInv
  <2>3. /\ fed \in Nat /\ Len(stream) \in Nat /\ Len(sent) \in Nat /\ fed <= Len(stream)
        /\ Len(parser.buffer) \in Nat /\ Len(frames) \in Nat
        /\ Found \in 0 .. Len(sent) /\ Used \in Nat /\ fed = Used + Len(parser.buffer)
    BY Numbers
  <2>4. Found = Len(frames)
    <3>1. Len(found) = 0 BY <2>2
    <3> QED BY <2>3, <3>1 DEF Found
  <2>5. Found < Len(sent) => fed < Ends(Found + 1)
    <3> SUFFICES ASSUME Found < Len(sent) PROVE fed < Ends(Found + 1) OBVIOUS
    <3> DEFINE a == sent[Found + 1].at
               m == Len(sent[Found + 1].payload)
               l == Len(parser.buffer)
    <3>1. a \in Nat /\ m \in Nat /\ Ends(Found + 1) = a + 2 + m BY <2>1, NextFrame, FrameFacts
    <3>2. l \in Nat /\ Used \in Nat /\ fed = Used + l BY <2>3
    <3>3. CASE NeedsHeader
      <4>1. Used < a BY <2>1, <3>3 DEF PlaceInv
      <4>2. l = 0 BY <2>2, <3>3
      <4> HIDE DEF a, m, l
      <4> QED BY <3>1, <3>2, <4>1, <4>2
    <3>4. CASE NeedsLength
      <4>1. Used = a /\ l < 2 BY <2>1, <2>2, <3>4 DEF PlaceInv
      <4> HIDE DEF a, m, l
      <4> QED BY <3>1, <3>2, <4>1
    <3>5. CASE NeedsPayload
      <4>1. Used = a + 2 /\ l < m BY <2>1, <2>2, <3>5 DEF PlaceInv
      <4> HIDE DEF a, m, l
      <4> QED BY <3>1, <3>2, <4>1
    <3> QED BY <3>3, <3>4, <3>5 DEF NeedsHeader, NeedsLength, NeedsPayload
  <2>6. ASSUME NEW i \in 1 .. Len(sent), EndOf(sent[i]) <= fed PROVE i <= Len(frames)
    <3>1. Ends(i) = EndOf(sent[i]) /\ Ends(i) \in Nat
      <4>1. i # 0 BY <2>3
      <4> QED BY <2>1, <4>1, FrameFacts DEF Ends
    <3> SUFFICES ASSUME i > Len(frames) PROVE FALSE BY <2>3
    <3>2. Found < Len(sent) /\ Found + 1 \in 1 .. Len(sent) /\ Found + 1 <= i BY <2>3, <2>4
    <3>3. fed < Ends(Found + 1) /\ Ends(Found + 1) \in Nat
      <4>1. Ends(Found + 1) \in Nat BY <2>1, <3>2, FrameFacts
      <4> QED BY <2>5, <3>2, <4>1
    <3>4. Ends(Found + 1) <= Ends(i)
      <4>1. CASE Found + 1 = i BY <3>1, <4>1
      <4>2. CASE Found + 1 < i
        <5>1. Found + 1 \in 0 .. Len(sent) BY <2>3, <3>2
        <5>2. Ends(Found + 1) + 3 <= Ends(i) BY <2>1, <4>2, <5>1, EndsOrdered
        <5> QED BY <3>1, <3>3, <5>2
      <4> QED BY <2>3, <3>2, <4>1, <4>2
    <3> QED BY <2>3, <2>6, <3>1, <3>3, <3>4
  <2>7. ASSUME fed = Len(stream) PROVE parser = New
    <3>1. Found = Len(sent)
      <4> SUFFICES ASSUME Found < Len(sent) PROVE FALSE BY <2>3
      <4>1. Found + 1 \in 1 .. Len(sent) BY NextFrame
      <4>2. Ends(Found + 1) <= Len(stream) /\ Ends(Found + 1) \in Nat BY <2>1, <4>1, FrameFacts
      <4> QED BY <2>3, <2>5, <2>7, <4>2
    <3>2. NeedsHeader /\ parser.expected_len = None
      <4>1. ~NeedsLength /\ ~NeedsPayload BY <2>1, <2>3, <3>1 DEF PlaceInv
      <4>2. NeedsHeader BY <4>1 DEF NeedsHeader, NeedsLength, NeedsPayload
      <4> QED BY <2>1, <4>2 DEF PlaceInv
    <3>3. parser.header_byte = None /\ parser.buffer = << >> BY <2>2, <3>2 DEF NeedsHeader
    <3> QED BY <2>1, <3>2, <3>3 DEF Types, New
  <2> QED BY <2>6, <2>7
<1> QED BY <1>1, ParserInductive, PTL

\* A turn of feed's loop uses up a byte or the length it has read, whatever
\* the bytes are, so no input keeps it in the loop.
THEOREM LoopEnds == Spec => EachTurnConsumes
<1>1. ParserInv /\ [Next]_vars => [Turn => ~feeding' \/ Left' < Left]_vars
  <2> SUFFICES ASSUME ParserInv, Turn PROVE ~feeding' \/ Left' < Left OBVIOUS
  <2>1. /\ feeding /\ stream' = stream /\ sent' = sent /\ fed' = fed
        /\ SkipByte \/ ReadHeader \/ ReadLength \/ TakePayload \/ Return
    BY Zenon DEF Turn
  <2>2. Types /\ PlaceInv BY DEF ParserInv
  <2>3. Len(parser.buffer) \in Nat /\ parser.buffer \in Seq(Bytes) BY Numbers
  <2>4. CASE SkipByte \/ ReadHeader
    <3>1. /\ parser.buffer # << >> /\ parser'.buffer = Tail(parser.buffer)
          /\ parser'.expected_len = parser.expected_len
      BY <2>2, <2>4 DEF SkipByte, ReadHeader, Skipped, WithHeader, Types
    <3>2. Len(parser'.buffer) = Len(parser.buffer) - 1
      BY <2>1, <3>1, HeadOfBuffer, UsesUp
    <3> DEFINE x == IF parser.expected_len = None THEN 0 ELSE 1
    <3>3. x \in Nat /\ Left = Len(parser.buffer) + x /\ Left' = Len(parser'.buffer) + x
      BY <3>1 DEF Left
    <3> HIDE DEF x
    <3> QED BY <2>3, <3>2, <3>3
  <2>5. CASE ReadLength
    <3>1. /\ NeedsLength /\ Len(parser.buffer) >= 2
          /\ parser'.buffer = SubSeq(parser.buffer, 2 + 1, Len(parser.buffer))
      BY <2>2, <2>5 DEF ReadLength, WithLength, Types
    <3>2. 2 \in 0 .. Len(parser.buffer) BY <2>3, <3>1
    <3>3. Len(parser'.buffer) = Len(parser.buffer) - 2 BY <2>1, <3>1, <3>2, UsesUp
    <3>4. parser.expected_len = None BY <3>1 DEF NeedsLength
    <3> DEFINE x == IF parser'.expected_len = None THEN 0 ELSE 1
    <3>5. x \in 0 .. 1 /\ Left = Len(parser.buffer) /\ Left' = Len(parser'.buffer) + x
      BY <2>3, <3>4 DEF Left
    <3> HIDE DEF x
    <3> QED BY <2>3, <3>3, <3>5
  <2>6. CASE TakePayload
    <3> DEFINE l == parser.expected_len
    <3>1. /\ NeedsPayload /\ Len(parser.buffer) >= l /\ parser'.expected_len = None
          /\ parser'.buffer = SubSeq(parser.buffer, l + 1, Len(parser.buffer))
      BY <2>6 DEF TakePayload, Restarted, Complete
    <3>2. l \in Nat /\ l # None BY <2>2, <3>1 DEF Types, NeedsPayload
    <3>3. l \in 0 .. Len(parser.buffer) BY <2>3, <3>1, <3>2
    <3>4. Len(parser'.buffer) = Len(parser.buffer) - l BY <2>1, <3>1, <3>3, UsesUp
    <3> QED BY <2>3, <3>1, <3>2, <3>4 DEF Left
  <2>7. CASE Return BY <2>7 DEF Return
  <2> QED BY <2>1, <2>4, <2>5, <2>6, <2>7
<1> QED BY <1>1, ParserInductive, PTL DEF Spec, EachTurnConsumes
=============================================================================
